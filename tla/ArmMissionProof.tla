-------------------------- MODULE ArmMissionProof --------------------------
(***************************************************************************)
(* What MainCtrl keeps, for every set of task codes, both ways of taking   *)
(* and every pressing of keys: its variables are consistent (Consistent),  *)
(* it gives Action_mux away only with an empty clip (EmptyHanded), the arm *)
(* turns only in the clear (TurnsClear), every object on the plate is in   *)
(* the slot of its colour (OwnSlot), the first object taken is not of the  *)
(* colour seen just before it (FirstSkipped), all is in the staging area   *)
(* before the machine goes home (AllStaged), the machine sorts (Sorts),    *)
(* and it moves the motors with the mutex, and to Places and Stack from    *)
(* the top (MovesWithMutex, PlacesFromTop).                                *)
(*                                                                         *)
(* The invariants are about the calls that are left in the round, todo.    *)
(* The first, Inv, counts them.                                            *)
(* GotoInv: only one of them changes NowTask, and one that goes on to      *)
(* Calibrat is only in the rounds of tasks that calibration knows.         *)
(* CountInv: the static of an action group and the calls of the group that *)
(* are left make three.  MuxInv: whatever closes the clip is followed by   *)
(* what opens it before the mutex is released, and comes when the mutex is *)
(* taken.  The action groups keep it when they are replaced by the calls   *)
(* they make, because these open what they close (Expansion).              *)
(*                                                                         *)
(* The second, PathInv, runs them: some view of the state agrees with it   *)
(* (Agrees), and from that view the calls that are left lead, each with    *)
(* what it needs (Before), to a boundary between two rounds (Ends).  Each  *)
(* case of the switch has such a path, each boundary is where the case of  *)
(* the next task may begin, and an action group may be replaced by the     *)
(* calls it makes because these lead where the group leads.                *)
(*                                                                         *)
(* The third, MoveInv, is about the mutex: every motion that is left is    *)
(* made with it, but for the resets in GoStaging and GoStag2, and it is    *)
(* kept from where the clip closes to where it opens.                      *)
(***************************************************************************)
EXTENDS ArmMission, FiniteSets, FiniteSetTheorems, SequenceTheorems, TLAPS

LiftPos == {"Reset", "Raw", "RawArea", "Stuff", "Aim", "Grab", "Places", "Stack", "Pile"}
Maybe   == Color \cup {None}
Place   == {"Raw", "Start", "Rough", "Staging"} \X Maybe
Spot    == {"Raw", "Start", "Rough", "Staging", "Floor", "Clip", "Plate"} \X Maybe

Call ==
  [op : {"lift"}, pos : LiftPos] \cup [op : {"rotate"}, pos : {"Reset", "Vision"}]
    \cup [op : {"clip"}, state : {"Grasp", "Release", "Avoid"}]
    \cup [op : {"plate"}, color : Maybe] \cup [op : {"order"}, dest : Place]
    \cup [op : {"wait", "take_mux", "release_mux", "delay", "stop"}]
    \cup [op : {"goto"}, task : Task, keep : BOOLEAN]
    \cup [op : {"put"}, how : {"Normal", "StackUp"}, color : Maybe, rotate : BOOLEAN]
    \cup [op : {"ground_take", "take_raw"}, color : Color]
    \cup [op : {"identify"}, update : BOOLEAN, color : Color]
    \cup [op : {"look"}, update : BOOLEAN, color : Color, first : BOOLEAN]

\* The calls a round is made of, and what they say of their arguments.
LEMMA Calls1 ==
  /\ \A pos \in LiftPos : MotorMotion_Lift(pos) \in Call
  /\ \A pos \in {"Reset", "Vision"} : MotorMotion_Rotate(pos) \in Call
  /\ \A s \in {"Grasp", "Release", "Avoid"} : ArmClipTakeState(s) \in Call
  /\ \A c \in Maybe : MaterialPosition(c) \in Call
  /\ \A d \in Place : SendOrderToCar(d) \in Call
  /\ WaitArrive \in Call /\ MutexTake \in Call /\ MutexRelease \in Call
  /\ Delay \in Call /\ Stop \in Call /\ CalibratThenOn \in Call
  /\ \A t \in Task : Goto(t) \in Call
BY DEF Call, MotorMotion_Lift, MotorMotion_Rotate, ArmClipTakeState, MaterialPosition,
     SendOrderToCar, WaitArrive, MutexTake, MutexRelease, Delay, Stop, CalibratThenOn, Goto, Task

\* The calls of the action groups, likewise.
LEMMA Calls2 ==
  /\ \A how \in {"Normal", "StackUp"}, c \in Maybe, r \in BOOLEAN : Ground_PutAction(how, c, r) \in Call
  /\ \A c \in Color : Ground_TakeAction(c) \in Call /\ TakeRawMaterial(c) \in Call
  /\ \A u \in BOOLEAN, c \in Color : IdentifyColorTake(u, c) \in Call
  /\ \A u \in BOOLEAN, c \in Color, f \in BOOLEAN : Look(u, c, f) \in Call
BY DEF Call, Ground_PutAction, Ground_TakeAction, TakeRawMaterial, IdentifyColorTake, Look

\* What a call of each kind has for arguments.
LEMMA Arguments ==
  ASSUME NEW c \in Call
  PROVE  /\ c.op = "lift" => c.pos \in LiftPos
         /\ c.op = "rotate" => c.pos \in {"Reset", "Vision"}
         /\ c.op = "clip" => c.state \in {"Grasp", "Release", "Avoid"}
         /\ c.op = "plate" => c.color \in Maybe
         /\ c.op = "order" => c.dest \in Place
         /\ c.op = "goto" => c.task \in Task /\ c.keep \in BOOLEAN
         /\ c.op = "put" => /\ c.how \in {"Normal", "StackUp"} /\ c.color \in Maybe
                            /\ c.rotate \in BOOLEAN
         /\ c.op \in {"ground_take", "take_raw"} => c.color \in Color
         /\ c.op = "identify" => c.update \in BOOLEAN /\ c.color \in Color
         /\ c.op = "look" => c.update \in BOOLEAN /\ c.color \in Color /\ c.first \in BOOLEAN
BY DEF Call
-----------------------------------------------------------------------------
Group  == {"put", "ground_take", "identify", "look", "take_raw"}
Takes  == {"identify", "look", "take_raw"}
Closes(c) == c.op = "clip" /\ c.state = "Grasp"
Opens(c)  == c.op = "clip" /\ c.state # "Grasp"
Held   == \E o \in Object : at[o] = InClip

Count(K, s) == Cardinality({i \in DOMAIN s : s[i].op \in K})
Three(n, K) == n + Count(K, todo) = 3 \/ (n = 0 /\ Count(K, todo) = 0)

\* The calls up to the i-th of s, which it includes, keep the mutex.
Keeps(s, i) == \A k \in 1 .. i : s[k].op # "release_mux"

MuxPlan(s, m, h) ==
  /\ \A i \in 1 .. Len(s) : Closes(s[i]) => \E j \in i + 1 .. Len(s) : Opens(s[j]) /\ Keeps(s, j)
  /\ \A i \in 1 .. Len(s) : Closes(s[i]) \/ s[i].op \in Group =>
       Keeps(s, i) /\ (m \/ \E k \in 1 .. i : s[k].op = "take_mux")
  /\ h => m /\ \E j \in 1 .. Len(s) : Opens(s[j]) /\ Keeps(s, j)

OneGoto(s) == \A i, j \in 1 .. Len(s) : s[i].op = "goto" /\ s[j].op = "goto" => i = j
Known(s, t) == \A i \in 1 .. Len(s) : s[i].op = "goto" /\ s[i].task = "Calibrat" =>
                 s[i].keep /\ t \in DOMAIN AfterCalibrat

\* What an action group is replaced by.
Expansion(s) ==
  /\ s \in Seq(Call)
  /\ \A i \in 1 .. Len(s) :
       /\ s[i].op \in {"lift", "rotate", "clip", "plate", "order", "wait"}
       /\ Closes(s[i]) => \E j \in i + 1 .. Len(s) : Opens(s[j])
-----------------------------------------------------------------------------
\* No calls at all are an expansion.
LEMMA EmptyExpansion == Expansion(<<>>)
BY DEF Expansion

\* Two expansions after each other are one.
LEMMA Expansions ==
  ASSUME NEW a, NEW b, Expansion(a), Expansion(b)
  PROVE  Expansion(a \o b)
<1>1. /\ a \o b \in Seq(Call) /\ Len(a \o b) = Len(a) + Len(b) /\ Len(a) \in Nat /\ Len(b) \in Nat
      /\ \A i \in 1 .. Len(a) + Len(b) : (a \o b)[i] = IF i <= Len(a) THEN a[i] ELSE b[i - Len(a)]
  BY ConcatProperties DEF Expansion
<1> SUFFICES ASSUME NEW i \in 1 .. Len(a) + Len(b)
             PROVE  /\ (a \o b)[i].op \in {"lift", "rotate", "clip", "plate", "order", "wait"}
                    /\ Closes((a \o b)[i]) => \E j \in i + 1 .. Len(a) + Len(b) : Opens((a \o b)[j])
  BY <1>1 DEF Expansion
<1>2. CASE i <= Len(a)
  <2>1. (a \o b)[i] = a[i] /\ i \in 1 .. Len(a)
    BY <1>1, <1>2
  <2> SUFFICES ASSUME Closes(a[i]) PROVE \E j \in i + 1 .. Len(a) + Len(b) : Opens((a \o b)[j])
    BY <2>1 DEF Expansion
  <2>2. PICK j \in i + 1 .. Len(a) : Opens(a[j])
    BY <2>1 DEF Expansion
  <2> QED BY <1>1, <2>2
<1>3. CASE i > Len(a)
  <2>1. (a \o b)[i] = b[i - Len(a)] /\ i - Len(a) \in 1 .. Len(b)
    BY <1>1, <1>3
  <2> SUFFICES ASSUME Closes(b[i - Len(a)])
               PROVE  \E j \in i + 1 .. Len(a) + Len(b) : Opens((a \o b)[j])
    BY <2>1 DEF Expansion
  <2>2. PICK j \in i - Len(a) + 1 .. Len(b) : Opens(b[j])
    BY <2>1 DEF Expansion
  <2>3. /\ j + Len(a) \in i + 1 .. Len(a) + Len(b) /\ (a \o b)[j + Len(a)] = b[j]
    BY <1>1, <1>3, <2>2
  <2> QED BY <2>2, <2>3
<1> QED BY <1>1, <1>2, <1>3
-----------------------------------------------------------------------------
\* The round when its first call is replaced by others, none or more.
LEMMA Replaced ==
  ASSUME NEW s \in Seq(Call), s # <<>>, NEW G \in Seq(Call)
  PROVE  LET t == G \o Tail(s) IN
         /\ t \in Seq(Call) /\ Len(s) \in Nat \ {0} /\ Len(G) \in Nat
         /\ Head(s) = s[1] /\ Head(s) \in Call
         /\ Len(t) = Len(G) + Len(s) - 1
         /\ \A i \in 1 .. Len(t) : t[i] = IF i <= Len(G) THEN G[i] ELSE s[i - Len(G) + 1]
<1>1. /\ Tail(s) \in Seq(Call) /\ Head(s) \in Call /\ Len(Tail(s)) = Len(s) - 1
      /\ \A i \in 1 .. Len(Tail(s)) : Tail(s)[i] = s[i + 1]
  BY HeadTailProperties
<1>2. Len(s) \in Nat \ {0} /\ Len(G) \in Nat /\ Head(s) = s[1]
  BY EmptySeq
<1>3. /\ G \o Tail(s) \in Seq(Call) /\ Len(G \o Tail(s)) = Len(G) + Len(Tail(s))
      /\ \A i \in 1 .. Len(G) + Len(Tail(s)) :
           (G \o Tail(s))[i] = IF i <= Len(G) THEN G[i] ELSE Tail(s)[i - Len(G)]
  BY <1>1, ConcatProperties
<1> SUFFICES ASSUME NEW i \in 1 .. Len(G \o Tail(s)), i > Len(G)
             PROVE  (G \o Tail(s))[i] = s[i - Len(G) + 1]
  BY <1>1, <1>2, <1>3
<1>4. i - Len(G) \in 1 .. Len(Tail(s))
  BY <1>1, <1>2, <1>3
<1> QED BY <1>1, <1>2, <1>3, <1>4

\* Replacing an action group by the calls it makes keeps the plan for the mutex.
LEMMA MuxPlanReplaced ==
  ASSUME NEW s \in Seq(Call), s # <<>>, NEW m, NEW h, MuxPlan(s, m, h), Head(s).op \in Group,
         NEW G, Expansion(G) \/ (G \in Seq(Call) /\ \A i \in 1 .. Len(G) : G[i].op \in Group \cup {"plate"})
  PROVE  MuxPlan(G \o Tail(s), m, h)
<1> DEFINE t == G \o Tail(s)
           n == Len(G)
<1>0. /\ G \in Seq(Call)
      /\ \A i \in 1 .. Len(G) : G[i].op # "release_mux"
      /\ \A i \in 1 .. Len(G) : Closes(G[i]) => \E j \in i + 1 .. Len(G) : Opens(G[j])
  BY DEF Expansion, Closes, Group
<1>1. /\ Len(s) \in Nat \ {0} /\ n \in Nat /\ Len(t) = n + Len(s) - 1
      /\ s[1].op \in Group
      /\ \A i \in 1 .. n : i \in 1 .. Len(t) /\ t[i] = G[i]
      /\ \A i \in 2 .. Len(s) : i + n - 1 \in n + 1 .. Len(t) /\ t[i + n - 1] = s[i]
      /\ \A i \in n + 1 .. Len(t) : i - n + 1 \in 2 .. Len(s) /\ t[i] = s[i - n + 1]
  <2>1. /\ Len(s) \in Nat \ {0} /\ n \in Nat /\ Len(t) = n + Len(s) - 1 /\ s[1].op \in Group
        /\ \A i \in 1 .. Len(t) : t[i] = IF i <= n THEN G[i] ELSE s[i - n + 1]
    BY <1>0, Replaced
  <2> QED BY <2>1
<1> HIDE DEF t, n
<1>2. s[1].op # "release_mux" /\ s[1].op # "take_mux" /\ s[1].op # "clip"
  BY <1>1 DEF Group
<1>3. m
  BY <1>1, <1>2 DEF MuxPlan
<1>4. ASSUME NEW j \in 2 .. Len(s), Keeps(s, j) PROVE Keeps(t, j + n - 1)
  <2> SUFFICES ASSUME NEW k \in 1 .. j + n - 1 PROVE t[k].op # "release_mux"
    BY DEF Keeps
  <2>1. CASE k <= n
    BY <1>0, <1>1, <2>1 DEF n
  <2>2. CASE k > n
    <3>1. k \in n + 1 .. Len(t) /\ k - n + 1 \in 1 .. j
      BY <1>1, <2>2
    <3> QED BY <1>1, <1>4, <3>1 DEF Keeps
  <2> QED BY <1>1, <2>1, <2>2
<1>5. ASSUME NEW j \in 1 .. n PROVE Keeps(t, j)
  <2> SUFFICES ASSUME NEW k \in 1 .. j PROVE t[k].op # "release_mux"
    BY DEF Keeps
  <2>1. k \in 1 .. n
    BY <1>1
  <2>2. t[k] = G[k]
    BY <1>1, <2>1
  <2> QED BY <1>0, <2>1, <2>2 DEF n
<1>6. ASSUME NEW i \in 1 .. Len(t), Closes(t[i])
      PROVE  \E j \in i + 1 .. Len(t) : Opens(t[j]) /\ Keeps(t, j)
  <2>1. CASE i <= n
    <3>1. i \in 1 .. n /\ t[i] = G[i]
      BY <1>1, <2>1
    <3>2. PICK j \in i + 1 .. Len(G) : Opens(G[j])
      BY <1>0, <1>6, <3>1 DEF n
    <3>3. j \in 1 .. n /\ j \in i + 1 .. Len(t) /\ t[j] = G[j]
      BY <1>1, <3>1, <3>2 DEF n
    <3> QED BY <1>5, <3>2, <3>3
  <2>2. CASE i > n
    <3>1. i - n + 1 \in 2 .. Len(s) /\ t[i] = s[i - n + 1]
      BY <1>1, <2>2
    <3>2. PICK j \in i - n + 2 .. Len(s) : Opens(s[j]) /\ Keeps(s, j)
      <4>1. \E j \in (i - n + 1) + 1 .. Len(s) : Opens(s[j]) /\ Keeps(s, j)
        BY <1>1, <1>6, <3>1 DEF MuxPlan
      <4> QED BY <1>1, <4>1
    <3>3. j \in 2 .. Len(s) /\ j + n - 1 \in i + 1 .. Len(t)
      <4>1. Len(s) \in Nat /\ n \in Nat /\ Len(t) = n + Len(s) - 1 /\ i \in Nat /\ j \in Int
        BY <1>1, <3>2
      <4>2. i - n + 1 >= 2 /\ j >= i - n + 2 /\ j <= Len(s)
        BY <3>1, <3>2, <4>1
      <4> QED BY <4>1, <4>2
    <3>4. t[j + n - 1] = s[j]
      BY <1>1, <3>3
    <3> QED BY <1>4, <3>2, <3>3, <3>4
  <2> QED BY <1>1, <2>1, <2>2
<1>7. ASSUME NEW i \in 1 .. Len(t), Closes(t[i]) \/ t[i].op \in Group PROVE Keeps(t, i)
  <2>1. CASE i <= n
    BY <1>1, <1>5, <2>1
  <2>2. CASE i > n
    <3>1. i - n + 1 \in 2 .. Len(s) /\ t[i] = s[i - n + 1]
      BY <1>1, <2>2
    <3>2. Keeps(s, i - n + 1)
      BY <1>1, <1>7, <3>1 DEF MuxPlan
    <3>3. Keeps(t, (i - n + 1) + n - 1)
      BY <1>4, <3>1, <3>2
    <3> QED BY <1>1, <3>3
  <2> QED BY <1>1, <2>1, <2>2
<1>8. ASSUME h PROVE \E j \in 1 .. Len(t) : Opens(t[j]) /\ Keeps(t, j)
  <2>1. PICK j \in 1 .. Len(s) : Opens(s[j]) /\ Keeps(s, j)
    BY <1>8 DEF MuxPlan
  <2>2. j # 1
    BY <1>2, <2>1 DEF Opens
  <2>3. j \in 2 .. Len(s) /\ j + n - 1 \in 1 .. Len(t) /\ t[j + n - 1] = s[j]
    BY <1>1, <2>1, <2>2
  <2> QED BY <1>4, <2>1, <2>3
<1>9. MuxPlan(t, m, h)
  BY <1>3, <1>6, <1>7, <1>8 DEF MuxPlan
<1> QED BY <1>9 DEF t

\* The round when its first call is done.
LEMMA Rest ==
  ASSUME NEW s \in Seq(Call), s # <<>>
  PROVE  /\ Tail(s) \in Seq(Call) /\ Len(s) \in Nat \ {0} /\ Len(Tail(s)) = Len(s) - 1
         /\ Head(s) = s[1] /\ Head(s) \in Call
         /\ \A i \in 1 .. Len(s) - 1 : Tail(s)[i] = s[i + 1]
<1>1. Len(s) \in Nat \ {0} /\ Head(s) = s[1]
  BY EmptySeq
<1> QED BY <1>1, HeadTailProperties

\* What a call that is done does to the plan: it takes or releases, closes or opens.
LEMMA MuxPlanRest ==
  ASSUME NEW s \in Seq(Call), s # <<>>, NEW m, NEW h, MuxPlan(s, m, h)
  PROVE  LET c == Head(s) IN
         /\ c.op \notin {"take_mux", "release_mux", "clip"} => MuxPlan(Tail(s), m, h)
         /\ c.op = "take_mux" => MuxPlan(Tail(s), TRUE, h)
         /\ c.op = "release_mux" => ~h /\ MuxPlan(Tail(s), FALSE, FALSE)
         /\ Closes(c) => MuxPlan(Tail(s), m, TRUE)
         /\ Opens(c) => MuxPlan(Tail(s), m, FALSE)
<1> DEFINE t == Tail(s)
           c == Head(s)
<1>1. /\ Len(s) \in Nat \ {0} /\ Len(t) = Len(s) - 1 /\ c = s[1]
      /\ \A i \in 2 .. Len(s) : i - 1 \in 1 .. Len(t) /\ t[i - 1] = s[i]
      /\ \A i \in 1 .. Len(t) : i + 1 \in 2 .. Len(s) /\ t[i] = s[i + 1]
  <2>1. /\ Len(s) \in Nat \ {0} /\ Len(t) = Len(s) - 1 /\ c = s[1]
        /\ \A i \in 1 .. Len(s) - 1 : t[i] = s[i + 1]
    BY Rest
  <2> QED BY <2>1
<1> HIDE DEF t, c
<1>2. ASSUME NEW j \in 2 .. Len(s), Keeps(s, j) PROVE Keeps(t, j - 1)
  <2> SUFFICES ASSUME NEW k \in 1 .. j - 1 PROVE t[k].op # "release_mux"
    BY DEF Keeps
  <2>1. k \in 1 .. Len(t) /\ k + 1 \in 1 .. j
    BY <1>1
  <2> QED BY <1>1, <1>2, <2>1 DEF Keeps
<1>3. ASSUME NEW i \in 1 .. Len(t), Closes(t[i])
      PROVE  \E j \in i + 1 .. Len(t) : Opens(t[j]) /\ Keeps(t, j)
  <2>1. i + 1 \in 2 .. Len(s) /\ t[i] = s[i + 1]
    BY <1>1
  <2>2. PICK j \in (i + 1) + 1 .. Len(s) : Opens(s[j]) /\ Keeps(s, j)
    BY <1>1, <1>3, <2>1 DEF MuxPlan
  <2>3. j \in 2 .. Len(s) /\ j - 1 \in i + 1 .. Len(t)
    BY <1>1, <2>1, <2>2
  <2> QED BY <1>1, <1>2, <2>2, <2>3
<1>4. ASSUME NEW i \in 1 .. Len(t), Closes(t[i]) \/ t[i].op \in Group
      PROVE  /\ Keeps(t, i) /\ c.op # "release_mux"
             /\ m \/ c.op = "take_mux" \/ \E k \in 1 .. i : t[k].op = "take_mux"
  <2>1. i + 1 \in 2 .. Len(s) /\ t[i] = s[i + 1]
    BY <1>1
  <2>2. Keeps(s, i + 1) /\ (m \/ \E k \in 1 .. i + 1 : s[k].op = "take_mux")
    BY <1>1, <1>4, <2>1 DEF MuxPlan
  <2>3. Keeps(t, (i + 1) - 1)
    BY <1>2, <2>1, <2>2
  <2>4. c.op # "release_mux"
    BY <1>1, <2>1, <2>2 DEF Keeps
  <2>5. ASSUME NEW k \in 1 .. i + 1, s[k].op = "take_mux"
        PROVE  c.op = "take_mux" \/ \E l \in 1 .. i : t[l].op = "take_mux"
    <3>1. CASE k = 1
      BY <1>1, <2>5, <3>1
    <3>2. CASE k # 1
      <4>1. k \in 2 .. Len(s) /\ k - 1 \in 1 .. i
        BY <1>1, <2>1, <3>2
      <4> QED BY <1>1, <2>5, <4>1
    <3> QED BY <3>1, <3>2
  <2> QED BY <2>2, <2>3, <2>4, <2>5
<1>5. ASSUME h, ~Opens(c) PROVE m /\ \E j \in 1 .. Len(t) : Opens(t[j]) /\ Keeps(t, j)
  <2>1. PICK j \in 1 .. Len(s) : Opens(s[j]) /\ Keeps(s, j)
    BY <1>5 DEF MuxPlan
  <2>2. j \in 2 .. Len(s) /\ j - 1 \in 1 .. Len(t)
    BY <1>1, <1>5, <2>1
  <2> QED BY <1>1, <1>2, <1>5, <2>1, <2>2 DEF MuxPlan
<1>6. ASSUME c.op \notin {"take_mux", "release_mux", "clip"} PROVE MuxPlan(t, m, h)
  BY <1>3, <1>4, <1>5, <1>6 DEF MuxPlan, Opens
<1>7. ASSUME c.op = "take_mux" PROVE MuxPlan(t, TRUE, h)
  BY <1>3, <1>4, <1>5, <1>7 DEF MuxPlan, Opens
<1>8. ASSUME c.op = "release_mux" PROVE ~h /\ MuxPlan(t, FALSE, FALSE)
  <2>1. ~h
    <3> SUFFICES ASSUME h PROVE FALSE
      OBVIOUS
    <3>1. PICK j \in 1 .. Len(s) : Opens(s[j]) /\ Keeps(s, j)
      BY DEF MuxPlan
    <3> QED BY <1>1, <1>8, <3>1 DEF Keeps
  <2> QED BY <1>3, <1>4, <1>8, <2>1 DEF MuxPlan
<1>9. ASSUME Closes(c) PROVE MuxPlan(t, m, TRUE)
  <2>1. m
    BY <1>1, <1>9 DEF MuxPlan, Closes
  <2>2. PICK j \in 2 .. Len(s) : Opens(s[j]) /\ Keeps(s, j)
    <3>1. \E k \in 1 + 1 .. Len(s) : Opens(s[k]) /\ Keeps(s, k)
      BY <1>1, <1>9 DEF MuxPlan
    <3> QED BY <3>1
  <2>3. \E k \in 1 .. Len(t) : Opens(t[k]) /\ Keeps(t, k)
    BY <1>1, <1>2, <2>2
  <2> QED BY <1>3, <1>4, <2>1, <2>3 DEF MuxPlan
<1>10. ASSUME Opens(c) PROVE MuxPlan(t, m, FALSE)
  BY <1>3, <1>4, <1>10 DEF MuxPlan, Opens
<1> QED BY <1>6, <1>7, <1>8, <1>9, <1>10 DEF t, c

\* Replacing an action group adds no change of NowTask.
LEMMA GotoReplaced ==
  ASSUME NEW s \in Seq(Call), s # <<>>, OneGoto(s), NEW t, Known(s, t), NEW G \in Seq(Call),
         \A i \in 1 .. Len(G) : G[i].op # "goto"
  PROVE  OneGoto(G \o Tail(s)) /\ Known(G \o Tail(s), t)
<1> DEFINE r == G \o Tail(s)
           n == Len(G)
<1>1. /\ Len(s) \in Nat \ {0} /\ n \in Nat /\ Len(r) = n + Len(s) - 1
      /\ \A i \in 1 .. Len(r) : r[i] = IF i <= n THEN G[i] ELSE s[i - n + 1]
  BY Replaced
<1>2. \A i \in 1 .. Len(r) : r[i].op = "goto" => i - n + 1 \in 1 .. Len(s) /\ r[i] = s[i - n + 1]
  BY <1>1
<1> HIDE DEF r, n
<1>3. OneGoto(r)
  <2> SUFFICES ASSUME NEW i \in 1 .. Len(r), NEW j \in 1 .. Len(r), r[i].op = "goto", r[j].op = "goto"
               PROVE  i = j
    BY DEF OneGoto
  <2>1. i - n + 1 = j - n + 1
    BY <1>2 DEF OneGoto
  <2> QED BY <1>1, <2>1
<1>4. Known(r, t)
  BY <1>2 DEF Known
<1> QED BY <1>3, <1>4 DEF r

\* What is left when the first call is done still has at most one change of NowTask.
LEMMA GotoRest ==
  ASSUME NEW s \in Seq(Call), s # <<>>, OneGoto(s), NEW t, Known(s, t)
  PROVE  /\ OneGoto(Tail(s)) /\ Known(Tail(s), t)
         /\ Head(s).op = "goto" => \A u : Known(Tail(s), u)
<1>1. /\ Len(s) \in Nat \ {0} /\ Len(Tail(s)) = Len(s) - 1 /\ Head(s) = s[1]
      /\ \A i \in 1 .. Len(s) - 1 : Tail(s)[i] = s[i + 1]
  BY Rest
<1>2. \A i \in 1 .. Len(Tail(s)) : i + 1 \in 1 .. Len(s) /\ i + 1 # 1 /\ Tail(s)[i] = s[i + 1]
  BY <1>1
<1>3. OneGoto(Tail(s))
  <2> SUFFICES ASSUME NEW i \in 1 .. Len(Tail(s)), NEW j \in 1 .. Len(Tail(s)),
                      Tail(s)[i].op = "goto", Tail(s)[j].op = "goto"
               PROVE  i = j
    BY DEF OneGoto
  <2>1. i + 1 = j + 1
    BY <1>2 DEF OneGoto
  <2> QED BY <1>1, <2>1
<1>4. Known(Tail(s), t)
  BY <1>2 DEF Known
<1>5. ASSUME Head(s).op = "goto", NEW i \in 1 .. Len(Tail(s)) PROVE Tail(s)[i].op # "goto"
  <2>1. i + 1 \in 1 .. Len(s) /\ i + 1 # 1 /\ Tail(s)[i] = s[i + 1] /\ 1 \in 1 .. Len(s)
    BY <1>1, <1>2
  <2> QED BY <1>1, <1>5, <2>1 DEF OneGoto
<1> QED BY <1>3, <1>4, <1>5 DEF Known
-----------------------------------------------------------------------------
\* The calls of a kind in two sequences after each other.
LEMMA CountConcat ==
  ASSUME NEW K, NEW a \in Seq(Call), NEW b \in Seq(Call)
  PROVE  /\ Count(K, a \o b) = Count(K, a) + Count(K, b)
         /\ Count(K, a) \in Nat /\ Count(K, b) \in Nat
<1> DEFINE A == {i \in DOMAIN a : a[i].op \in K}
           B == {i \in DOMAIN b : b[i].op \in K}
           C == {i \in DOMAIN (a \o b) : (a \o b)[i].op \in K}
           D == {i \in C : i > Len(a)}
           f == [i \in B |-> i + Len(a)]
<1>1. /\ DOMAIN a = 1 .. Len(a) /\ DOMAIN b = 1 .. Len(b) /\ Len(a) \in Nat /\ Len(b) \in Nat
      /\ DOMAIN (a \o b) = 1 .. Len(a) + Len(b)
      /\ \A i \in 1 .. Len(a) + Len(b) : (a \o b)[i] = IF i <= Len(a) THEN a[i] ELSE b[i - Len(a)]
  <2>1. /\ a \o b \in Seq(Call) /\ Len(a \o b) = Len(a) + Len(b)
        /\ \A i \in 1 .. Len(a) + Len(b) : (a \o b)[i] = IF i <= Len(a) THEN a[i] ELSE b[i - Len(a)]
    BY ConcatProperties
  <2> QED BY <2>1, LenProperties
<1>2. A \subseteq 1 .. Len(a) /\ B \subseteq 1 .. Len(b) /\ D \subseteq 1 .. Len(a) + Len(b)
  BY <1>1
<1>3. IsFiniteSet(A) /\ IsFiniteSet(B) /\ IsFiniteSet(D)
  <2>1. \A n \in Nat : IsFiniteSet(1 .. n)
    BY FS_Interval
  <2> QED BY <1>1, <1>2, <2>1, FS_Subset
<1>4. C = A \cup D /\ A \cap D = {}
  <2>1. ASSUME NEW i \in A PROVE i \in C /\ i \notin D
    BY <1>1
  <2>2. ASSUME NEW i \in C, i \notin D PROVE i \in A
    <3>1. i \in 1 .. Len(a) + Len(b) /\ i \in 1 .. Len(a) /\ (a \o b)[i].op \in K
      BY <1>1, <2>2
    <3> QED BY <1>1, <3>1
  <2> QED BY <2>1, <2>2
<1>5. Cardinality(C) = Cardinality(A) + Cardinality(D)
  <2>1. Cardinality(A \cup D) = Cardinality(A) + Cardinality(D) - Cardinality(A \cap D)
    BY <1>3, FS_Union
  <2>2. Cardinality(A) \in Nat /\ Cardinality(D) \in Nat /\ Cardinality({}) = 0
    BY <1>3, FS_CardinalityType, FS_EmptySet
  <2>3. Cardinality(C) = Cardinality(A) + Cardinality(D) - 0
    BY <1>4, <2>1, <2>2, Zenon
  <2> HIDE DEF A, C, D
  <2> QED BY <2>2, <2>3
<1>6. f \in Bijection(B, D)
  <2>1. ASSUME NEW i \in B PROVE f[i] \in D
    <3>1. i \in 1 .. Len(b) /\ i + Len(a) \in 1 .. Len(a) + Len(b) /\ i + Len(a) > Len(a)
      BY <1>1
    <3>2. (a \o b)[i + Len(a)] = b[i]
      BY <1>1, <3>1
    <3> QED BY <1>1, <3>1, <3>2
  <2>2. \A i, j \in B : f[i] = f[j] => i = j
    BY <1>1
  <2>3. ASSUME NEW i \in D PROVE \E j \in B : f[j] = i
    <3>1. i - Len(a) \in 1 .. Len(b) /\ (a \o b)[i] = b[i - Len(a)]
      BY <1>1
    <3>2. i - Len(a) \in B
      BY <1>1, <3>1
    <3>3. f[i - Len(a)] = i
      BY <1>1, <3>2
    <3> QED BY <3>2, <3>3
  <2>4. f \in [B -> D]
    BY <2>1
  <2> QED BY <2>2, <2>3, <2>4 DEF Bijection, Injection, Surjection, IsInjective
<1>7. Cardinality(B) = Cardinality(D)
  <2> HIDE DEF B, D, f
  <2> QED BY <1>3, <1>6, FS_Bijection DEF ExistsBijection
<1> QED BY <1>3, <1>5, <1>7, FS_CardinalityType DEF Count

\* Three calls of a kind, by their places.
LEMMA CountThree ==
  ASSUME NEW K, NEW s \in Seq(Call), NEW I, I \in {2 .. 4, 5 .. 7}, Len(s) >= 7 \/ I = 2 .. 4,
         Len(s) >= 4, \A i \in 1 .. Len(s) : s[i].op \in K <=> i \in I
  PROVE  Count(K, s) = 3
<1>1. DOMAIN s = 1 .. Len(s) /\ Len(s) \in Nat
  BY LenProperties
<1>2. {i \in DOMAIN s : s[i].op \in K} = I
  BY <1>1
<1>3. Count(K, s) = Cardinality(I)
  BY <1>2, Zenon DEF Count
<1>4. \E a \in {2, 5} : I = a .. a + 2
  <2>1. CASE I = 2 .. 4
    <3>1. 2 .. 4 = 2 .. 2 + 2
      OBVIOUS
    <3> QED BY <2>1, <3>1
  <2>2. CASE I = 5 .. 7
    <3>1. 5 .. 7 = 5 .. 5 + 2
      OBVIOUS
    <3> QED BY <2>2, <3>1
  <2> QED BY <2>1, <2>2
<1>5. PICK a \in {2, 5} : I = a .. a + 2
  BY <1>4
<1> DEFINE b == a + 2
<1>6. a \in Int /\ b \in Int /\ I = a .. b /\ b = a + 2
  BY <1>5
<1> HIDE DEF b
<1>7. Cardinality(a .. b) = IF a > b THEN 0 ELSE b - a + 1
  BY <1>6, FS_Interval
<1> QED BY <1>3, <1>6, <1>7

\* No call of a kind.
LEMMA CountNone ==
  ASSUME NEW K, NEW s \in Seq(Call), \A i \in 1 .. Len(s) : s[i].op \notin K
  PROVE  Count(K, s) = 0
<1>1. {i \in DOMAIN s : s[i].op \in K} = {}
  BY LenProperties
<1> QED BY <1>1, FS_EmptySet DEF Count

\* A single call.
LEMMA CountOne ==
  ASSUME NEW K, NEW c \in Call
  PROVE  /\ <<c>> \in Seq(Call)
         /\ Count(K, <<c>>) = IF c.op \in K THEN 1 ELSE 0
<1> DEFINE s == <<c>>
<1>1. s \in Seq(Call) /\ Len(s) = 1 /\ s[1] = c
  OBVIOUS
<1> HIDE DEF s
<1>2. \A i \in 1 .. Len(s) : i = 1
  BY <1>1
<1>3. CASE c.op \in K
  <2>1. {i \in DOMAIN s : s[i].op \in K} = {1}
    BY <1>1, <1>2, <1>3, LenProperties
  <2>2. Count(K, s) = 1
    BY <2>1, FS_Singleton DEF Count
  <2> QED BY <1>1, <1>3, <2>2 DEF s
<1>4. CASE c.op \notin K
  <2>1. Count(K, s) = 0
    BY <1>1, <1>2, <1>4, CountNone
  <2> QED BY <1>1, <1>4, <2>1 DEF s
<1> QED BY <1>3, <1>4

\* The first call and the rest.
LEMMA CountRest ==
  ASSUME NEW K, NEW s \in Seq(Call), s # <<>>
  PROVE  /\ Count(K, s) = Count(K, Tail(s)) + (IF Head(s).op \in K THEN 1 ELSE 0)
         /\ Count(K, Tail(s)) \in Nat
<1>1. s = <<Head(s)>> \o Tail(s) /\ Head(s) \in Call /\ Tail(s) \in Seq(Call)
  <2>1. /\ Tail(s) \in Seq(Call) /\ Len(s) \in Nat \ {0} /\ Len(Tail(s)) = Len(s) - 1
        /\ Head(s) = s[1] /\ Head(s) \in Call
        /\ \A i \in 1 .. Len(s) - 1 : Tail(s)[i] = s[i + 1]
    BY Rest
  <2>2. <<Head(s)>> \in Seq(Call) /\ Len(<<Head(s)>>) = 1 /\ <<Head(s)>>[1] = Head(s)
    BY <2>1
  <2>3. /\ <<Head(s)>> \o Tail(s) \in Seq(Call) /\ Len(<<Head(s)>> \o Tail(s)) = Len(s)
        /\ \A i \in 1 .. Len(s) : (<<Head(s)>> \o Tail(s))[i] = IF i <= 1 THEN <<Head(s)>>[i] ELSE Tail(s)[i - 1]
    <3>1. /\ <<Head(s)>> \o Tail(s) \in Seq(Call) /\ Len(<<Head(s)>> \o Tail(s)) = Len(<<Head(s)>>) + Len(Tail(s))
          /\ \A i \in 1 .. Len(<<Head(s)>>) + Len(Tail(s)) : (<<Head(s)>> \o Tail(s))[i] =
               IF i <= Len(<<Head(s)>>) THEN <<Head(s)>>[i] ELSE Tail(s)[i - Len(<<Head(s)>>)]
      BY <2>1, <2>2, ConcatProperties
    <3> QED BY <2>1, <2>2, <3>1
  <2>4. \A i \in 1 .. Len(s) : (<<Head(s)>> \o Tail(s))[i] = s[i]
    BY <2>1, <2>2, <2>3
  <2> QED BY <2>1, <2>3, <2>4, SeqEqual
<1> DEFINE h == <<Head(s)>>
           t == Tail(s)
<1>2. Count(K, h \o t) = Count(K, h) + Count(K, t) /\ Count(K, t) \in Nat
  BY <1>1, CountOne, CountConcat
<1>3. Count(K, h) = IF Head(s).op \in K THEN 1 ELSE 0
  BY <1>1, CountOne
<1>4. Count(K, s) = Count(K, h) + Count(K, t)
  BY <1>1, <1>2, Zenon
<1> HIDE DEF h
<1> QED BY <1>2, <1>3, <1>4

\* The first call replaced by G.
LEMMA CountReplaced ==
  ASSUME NEW K, NEW s \in Seq(Call), s # <<>>, NEW G \in Seq(Call)
  PROVE  /\ Count(K, G \o Tail(s)) = Count(K, G) + Count(K, s) - (IF Head(s).op \in K THEN 1 ELSE 0)
         /\ Count(K, G) \in Nat /\ Count(K, s) \in Nat
<1>1. Count(K, G \o Tail(s)) = Count(K, G) + Count(K, Tail(s)) /\ Count(K, G) \in Nat
  BY Rest, CountConcat
<1> QED BY <1>1, CountRest
-----------------------------------------------------------------------------
(***************************************************************************)
(* The rounds.                                                             *)
(***************************************************************************)
Round(s, t) ==
  /\ s \in Seq(Call)
  /\ \A i \in 1 .. Len(s) : ~Closes(s[i])
  /\ \A i \in 1 .. Len(s) : s[i].op \in Group => s[1].op = "take_mux" /\ Keeps(s, i)
  /\ OneGoto(s) /\ Known(s, t)
  /\ Count({"put"}, s) \in {0, 3} /\ Count({"ground_take"}, s) \in {0, 3} /\ Count(Takes, s) \in {0, 3}

\* The calls of s by their places, for the rounds with action groups.
Places(s, n, raws, puts, takes) ==
  /\ s \in Seq(Call) /\ Len(s) = n
  /\ s[1] = MutexTake
  /\ \A i \in 1 .. n :
       /\ ~Closes(s[i])
       /\ s[i].op \in Takes <=> i \in raws
       /\ s[i].op = "put" <=> i \in puts
       /\ s[i].op = "ground_take" <=> i \in takes
       /\ s[i].op = "release_mux" => i > 7 \/ (i > 4 /\ takes = {})
       /\ s[i].op = "goto" => i = n

\* Where the action groups stand in the round of TakeRaw1 and TakeRaw2.
LEMMA TakeRawPlaces ==
  ASSUME NEW d \in [1 .. 3 -> Color]
  PROVE  /\ Places(TakeRawThree(d), 13, 2 .. 4, {}, {})
         /\ TakeRawThree(d)[13] = CalibratThenOn
<1>1. /\ d[1] \in Color /\ d[2] \in Color /\ d[3] \in Color /\ Color \subseteq Maybe
      /\ "Vision" \in {"Reset", "Vision"} /\ "Avoid" \in {"Grasp", "Release", "Avoid"}
      /\ "Aim" \in LiftPos
  BY DEF Maybe, LiftPos
<1>2. TakeRawThree(d) \in Seq(Call)
  <2>1. /\ MutexTake \in Call /\ Delay \in Call /\ MutexRelease \in Call /\ CalibratThenOn \in Call
        /\ MotorMotion_Rotate("Vision") \in Call /\ ArmClipTakeState("Avoid") \in Call
        /\ MotorMotion_Lift("Aim") \in Call /\ MaterialPosition(d[1]) \in Call
    BY <1>1, Calls1
  <2>2. /\ IdentifyColorTake(TRUE, d[1]) \in Call /\ IdentifyColorTake(FALSE, d[2]) \in Call
        /\ IdentifyColorTake(FALSE, d[3]) \in Call
    BY <1>1, Calls2
  <2>3. \A x, y, z \in Call :
          <<MutexTake, x, y, z, Delay, Delay, Delay, MotorMotion_Rotate("Vision"),
            ArmClipTakeState("Avoid"), MotorMotion_Lift("Aim"), MaterialPosition(d[1]),
            MutexRelease, CalibratThenOn>> \in Seq(Call)
    BY <2>1
  <2> QED BY <2>2, <2>3, Zenon DEF TakeRawThree
<1> QED BY <1>2 DEF Places, TakeRawThree, MutexTake, IdentifyColorTake, Delay, MotorMotion_Rotate,
     ArmClipTakeState, MotorMotion_Lift, MaterialPosition, MutexRelease, CalibratThenOn, Closes, Takes

\* Where they stand in the round of TPRough1 and TPRough2.
LEMMA PutTakePlaces ==
  ASSUME NEW d \in [1 .. 3 -> Color], NEW h \in LiftPos
  PROVE  /\ Places(PutTakeThree(d, h), 11, {}, 2 .. 4, 5 .. 7)
         /\ PutTakeThree(d, h)[11] = CalibratThenOn
<1>1. /\ d[1] \in Color /\ d[2] \in Color /\ d[3] \in Color /\ Color \subseteq Maybe
      /\ "Normal" \in {"Normal", "StackUp"} /\ "Avoid" \in {"Grasp", "Release", "Avoid"}
  BY DEF Maybe
<1>2. PutTakeThree(d, h) \in Seq(Call)
  <2>1. /\ MutexTake \in Call /\ MutexRelease \in Call /\ CalibratThenOn \in Call
        /\ ArmClipTakeState("Avoid") \in Call /\ MotorMotion_Lift(h) \in Call
    BY <1>1, Calls1
  <2>2. /\ Ground_PutAction("Normal", d[2], TRUE) \in Call
        /\ Ground_PutAction("Normal", d[3], TRUE) \in Call
        /\ Ground_PutAction("Normal", d[1], FALSE) \in Call
        /\ Ground_TakeAction(d[1]) \in Call /\ Ground_TakeAction(d[2]) \in Call
        /\ Ground_TakeAction(d[3]) \in Call
    BY <1>1, Calls2
  <2>3. \A x, y, z \in Call :
          <<MutexTake, x, y, z, Ground_TakeAction(d[2]), Ground_TakeAction(d[3]),
            Ground_TakeAction(d[1]), ArmClipTakeState("Avoid"), MotorMotion_Lift(h), MutexRelease,
            CalibratThenOn>> \in Seq(Call)
    BY <2>1, <2>2
  <2> QED BY <2>2, <2>3, Zenon DEF PutTakeThree
<1> QED BY <1>2 DEF Places, PutTakeThree, MutexTake, Ground_PutAction, Ground_TakeAction,
     ArmClipTakeState, MotorMotion_Lift, MutexRelease, CalibratThenOn, Closes, Takes

\* Where they stand in the rounds of PutStag1 and PutStag2.
LEMMA PutStagPlaces ==
  ASSUME codeS \in [1 .. 2 -> [1 .. 3 -> Color]]
  PROVE  /\ Places(Body("PutStag1"), 7, {}, 2 .. 4, {}) /\ Body("PutStag1")[7] = CalibratThenOn
         /\ Places(Body("PutStag2"), 6, {}, 2 .. 4, {}) /\ Body("PutStag2")[6] = Goto("Restart")
<1>1. /\ Code1[2] \in Maybe /\ Code1[3] \in Maybe /\ Code2[1] \in Maybe
      /\ Code2[2] \in Maybe /\ Code2[3] \in Maybe /\ None \in Maybe
  BY DEF Maybe, Code1, Code2
<1>2. /\ MutexTake \in Call /\ MutexRelease \in Call /\ CalibratThenOn \in Call
      /\ MotorMotion_Lift("Aim") \in Call /\ Goto("Restart") \in Call
  BY Calls1 DEF LiftPos, Task
<1>3. /\ Ground_PutAction("Normal", Code1[2], TRUE) \in Call
      /\ Ground_PutAction("Normal", Code1[3], TRUE) \in Call
      /\ Ground_PutAction("Normal", Code2[1], FALSE) \in Call
      /\ Ground_PutAction("StackUp", Code2[2], TRUE) \in Call
      /\ Ground_PutAction("StackUp", Code2[3], TRUE) \in Call
      /\ Ground_PutAction("StackUp", None, TRUE) \in Call
  BY <1>1, Calls2
<1> DEFINE s1 == <<MutexTake, Ground_PutAction("Normal", Code1[2], TRUE),
                   Ground_PutAction("Normal", Code1[3], TRUE),
                   Ground_PutAction("Normal", Code2[1], FALSE),
                   MotorMotion_Lift("Aim"), MutexRelease, CalibratThenOn>>
           s2 == <<MutexTake, Ground_PutAction("StackUp", Code2[2], TRUE),
                   Ground_PutAction("StackUp", Code2[3], TRUE),
                   Ground_PutAction("StackUp", None, TRUE), MutexRelease, Goto("Restart")>>
<1>4. Body("PutStag1") = s1 /\ Body("PutStag2") = s2
  BY DEF Body
<1>5. s1 \in Seq(Call)
  <2>1. \A x, y, z \in Call :
          <<MutexTake, x, y, z, MotorMotion_Lift("Aim"), MutexRelease, CalibratThenOn>> \in Seq(Call)
    BY <1>2
  <2> QED BY <1>3, <2>1, Zenon
<1>6. s2 \in Seq(Call)
  <2>1. \A x, y, z \in Call : <<MutexTake, x, y, z, MutexRelease, Goto("Restart")>> \in Seq(Call)
    BY <1>2
  <2> QED BY <1>3, <2>1, Zenon
<1>7. Places(s1, 7, {}, 2 .. 4, {}) /\ s1[7] = CalibratThenOn
  BY <1>5 DEF Places, MutexTake, Ground_PutAction, MotorMotion_Lift, MutexRelease, CalibratThenOn,
       Closes, Takes
<1>8. Places(s2, 6, {}, 2 .. 4, {}) /\ s2[6] = Goto("Restart")
  BY <1>6 DEF Places, MutexTake, Ground_PutAction, MutexRelease, Goto, Closes, Takes
<1> HIDE DEF s1, s2
<1> QED BY <1>4, <1>7, <1>8

\* With the action groups in these places, and one call that leads on at the end, it is a round.
LEMMA PlacesRound ==
  ASSUME NEW s, NEW n \in Nat, NEW raws, NEW puts, NEW takes, Places(s, n, raws, puts, takes), n > 4,
         raws \in {{}, 2 .. 4}, puts \in {{}, 2 .. 4}, takes = {} \/ (takes = 5 .. 7 /\ n > 7),
         NEW t, s[n] = CalibratThenOn => t \in DOMAIN AfterCalibrat,
         s[n] = CalibratThenOn \/ s[n] = Goto("Restart")
  PROVE  Round(s, t)
<1>1. s \in Seq(Call) /\ Len(s) = n
  BY DEF Places
<1>2. \A i \in 1 .. Len(s) : ~Closes(s[i])
  BY <1>1 DEF Places
<1>3. ASSUME NEW i \in 1 .. Len(s), s[i].op \in Group PROVE s[1].op = "take_mux" /\ Keeps(s, i)
  <2>1. i \in raws \/ i \in puts \/ i \in takes
    BY <1>1, <1>3 DEF Places, Group, Takes
  <2>2. i <= 7 /\ (takes = {} => i <= 4)
    BY <2>1
  <2>3. ASSUME NEW k \in 1 .. i PROVE s[k].op # "release_mux"
    <3>1. k \in 1 .. n /\ k <= 7 /\ (takes = {} => k <= 4)
      BY <1>1, <2>2
    <3> QED BY <3>1 DEF Places
  <2> QED BY <2>3 DEF Places, Keeps, MutexTake
<1>4. OneGoto(s)
  BY <1>1 DEF Places, OneGoto
<1>5. Known(s, t)
  <2> SUFFICES ASSUME NEW i \in 1 .. Len(s), s[i].op = "goto", s[i].task = "Calibrat"
               PROVE  s[i].keep /\ t \in DOMAIN AfterCalibrat
    BY DEF Known
  <2>1. i = n
    BY <1>1 DEF Places
  <2>2. s[n] # Goto("Restart")
    BY <2>1 DEF Goto
  <2> QED BY <2>1, <2>2 DEF CalibratThenOn
<1>6. Count(Takes, s) \in {0, 3}
  <2>1. CASE raws = {}
    <3>1. Count(Takes, s) = 0
      BY <1>1, <2>1, CountNone DEF Places
    <3> QED BY <3>1
  <2>2. CASE raws = 2 .. 4
    <3>1. \A i \in 1 .. Len(s) : s[i].op \in Takes <=> i \in raws
      BY <1>1 DEF Places
    <3>2. Len(s) >= 4 /\ raws \in {2 .. 4, 5 .. 7}
      BY <1>1, <2>2
    <3>3. Count(Takes, s) = 3
      BY <1>1, <2>2, <3>1, <3>2, CountThree
    <3> QED BY <3>3
  <2> QED BY <2>1, <2>2
<1>7. Count({"put"}, s) \in {0, 3}
  <2>1. CASE puts = {}
    <3>1. Count({"put"}, s) = 0
      BY <1>1, <2>1, CountNone DEF Places
    <3> QED BY <3>1
  <2>2. CASE puts = 2 .. 4
    <3>1. \A i \in 1 .. Len(s) : s[i].op \in {"put"} <=> i \in puts
      BY <1>1 DEF Places
    <3>2. Len(s) >= 4 /\ puts \in {2 .. 4, 5 .. 7}
      BY <1>1, <2>2
    <3>3. Count({"put"}, s) = 3
      BY <1>1, <2>2, <3>1, <3>2, CountThree
    <3> QED BY <3>3
  <2> QED BY <2>1, <2>2
<1>8. Count({"ground_take"}, s) \in {0, 3}
  <2>1. CASE takes = {}
    <3>1. Count({"ground_take"}, s) = 0
      BY <1>1, <2>1, CountNone DEF Places
    <3> QED BY <3>1
  <2>2. CASE takes = 5 .. 7
    <3>1. \A i \in 1 .. Len(s) : s[i].op \in {"ground_take"} <=> i \in takes
      BY <1>1 DEF Places
    <3>2. Len(s) >= 7 /\ Len(s) >= 4 /\ takes \in {2 .. 4, 5 .. 7}
      BY <1>1, <2>2
    <3>3. Count({"ground_take"}, s) = 3
      BY <1>1, <2>2, <3>1, <3>2, CountThree
    <3> QED BY <3>3
  <2> QED BY <2>1, <2>2
<1> QED BY <1>1, <1>2, <1>3, <1>4, <1>5, <1>6, <1>7, <1>8 DEF Round

\* A round without action groups.
LEMMA PlainRound ==
  ASSUME NEW s \in Seq(Call), NEW t, OneGoto(s), Known(s, t),
         \A i \in 1 .. Len(s) : s[i].op \notin Group /\ ~Closes(s[i])
  PROVE  Round(s, t)
<1>1. Count({"put"}, s) = 0
  BY CountNone DEF Group
<1>2. Count({"ground_take"}, s) = 0
  BY CountNone DEF Group
<1>3. Count(Takes, s) = 0
  BY CountNone DEF Group, Takes
<1> QED BY <1>1, <1>2, <1>3 DEF Round

Quiet(s) ==
  s \in Seq(Call) /\ \A i \in 1 .. Len(s) : s[i].op \in {"lift", "rotate", "plate", "order", "wait"}

\* Calls that move no object, after each other.
LEMMA QuietConcat ==
  ASSUME NEW a, NEW b, Quiet(a), Quiet(b)
  PROVE  Quiet(a \o b)
<1>1. /\ a \o b \in Seq(Call) /\ Len(a \o b) = Len(a) + Len(b) /\ Len(a) \in Nat /\ Len(b) \in Nat
      /\ \A i \in 1 .. Len(a) + Len(b) : (a \o b)[i] = IF i <= Len(a) THEN a[i] ELSE b[i - Len(a)]
  BY ConcatProperties DEF Quiet
<1> SUFFICES ASSUME NEW i \in 1 .. Len(a) + Len(b)
             PROVE  (a \o b)[i].op \in {"lift", "rotate", "plate", "order", "wait"}
  BY <1>1 DEF Quiet
<1>2. CASE i <= Len(a)
  BY <1>1, <1>2 DEF Quiet
<1>3. CASE i > Len(a)
  <2>1. i - Len(a) \in 1 .. Len(b) /\ (a \o b)[i] = b[i - Len(a)]
    BY <1>1, <1>3
  <2> QED BY <2>1 DEF Quiet
<1> QED BY <1>1, <1>2, <1>3

\* They are what an action group may be replaced by.
LEMMA QuietExpansion ==
  ASSUME NEW s, Quiet(s) PROVE Expansion(s)
BY DEF Quiet, Expansion, Closes

\* SendRingToCar moves no object.
LEMMA SendRingQuiet ==
  ASSUME NEW area \in {"Rough", "Staging"}, NEW w \in BOOLEAN, NEW c \in Maybe, NEW init \in BOOLEAN
  PROVE  Quiet(SendRingToCar(area, w, c, init))
<1>1. Ring(area, c) \in Place
  BY DEF Ring, Place
<1>2. Quiet(<<SendOrderToCar(Ring(area, c))>>)
  <2>1. SendOrderToCar(Ring(area, c)) \in Call
    BY <1>1, Calls1
  <2> QED BY <2>1 DEF Quiet, SendOrderToCar
<1>3. Quiet(<<MotorMotion_Lift("Reset"), MotorMotion_Rotate("Reset")>>)
  <2>1. MotorMotion_Lift("Reset") \in Call /\ MotorMotion_Rotate("Reset") \in Call
    BY Calls1 DEF LiftPos
  <2> QED BY <2>1 DEF Quiet, MotorMotion_Lift, MotorMotion_Rotate
<1>4. Quiet(<<WaitArrive>>)
  BY Calls1 DEF Quiet, WaitArrive
<1>5. Quiet(<<>>)
  BY DEF Quiet
<1> DEFINE A == IF init THEN <<MotorMotion_Lift("Reset"), MotorMotion_Rotate("Reset")>> ELSE <<>>
           B == IF w THEN <<WaitArrive>> ELSE <<>>
<1>6. Quiet(A) /\ Quiet(B)
  BY <1>3, <1>4, <1>5
<1> HIDE DEF A, B
<1>7. Quiet(<<SendOrderToCar(Ring(area, c))>> \o A)
  BY <1>2, <1>6, QuietConcat
<1>8. Quiet((<<SendOrderToCar(Ring(area, c))>> \o A) \o B)
  BY <1>6, <1>7, QuietConcat
<1> QED BY <1>8, Zenon DEF SendRingToCar, A, B

\* A quiet part and a call that leads on.
LEMMA QuietRound ==
  ASSUME NEW s, Quiet(s), NEW u \in Task, u # "Calibrat", NEW t
  PROVE  Round(s \o <<Goto(u)>>, t)
<1> DEFINE g == <<Goto(u)>>
           r == s \o g
<1>1. g \in Seq(Call) /\ Len(g) = 1 /\ g[1] = Goto(u)
  BY Calls1
<1>2. /\ r \in Seq(Call) /\ Len(r) = Len(s) + 1 /\ Len(s) \in Nat
      /\ \A i \in 1 .. Len(r) : r[i] = IF i <= Len(s) THEN s[i] ELSE g[i - Len(s)]
  <2>1. s \in Seq(Call) /\ Len(s) \in Nat
    BY LenProperties DEF Quiet
  <2> HIDE DEF g
  <2>2. /\ s \o g \in Seq(Call) /\ Len(s \o g) = Len(s) + Len(g)
        /\ \A i \in 1 .. Len(s) + Len(g) : (s \o g)[i] = IF i <= Len(s) THEN s[i] ELSE g[i - Len(s)]
    BY <1>1, <2>1, ConcatProperties
  <2> QED BY <1>1, <2>1, <2>2
<1>3. \A i \in 1 .. Len(r) : (i <= Len(s) /\ r[i] = s[i] /\ i \in 1 .. Len(s)) \/ (i = Len(r) /\ r[i] = Goto(u))
  <2> HIDE DEF g, r
  <2> QED BY <1>1, <1>2
<1> HIDE DEF r, g
<1>4. \A i \in 1 .. Len(r) : r[i].op \notin Group /\ ~Closes(r[i]) /\ (r[i].op = "goto" => i = Len(r) /\ r[i].task = u)
  BY <1>3 DEF Quiet, Goto, Group, Closes
<1>5. OneGoto(r) /\ Known(r, t)
  BY <1>4 DEF OneGoto, Known
<1>6. Round(r, t)
  BY <1>2, <1>4, <1>5, PlainRound
<1> QED BY <1>6 DEF r, g

\* A round ends in a rt_thread_delay.
LEMMA RoundDelay ==
  ASSUME NEW s, NEW t, Round(s, t)
  PROVE  Round(s \o <<Delay>>, t)
<1> DEFINE g == <<Delay>>
           r == s \o g
<1>1. g \in Seq(Call) /\ Len(g) = 1 /\ g[1].op = "delay"
  BY Calls1 DEF Delay
<1>2. /\ r \in Seq(Call) /\ Len(r) = Len(s) + 1 /\ Len(s) \in Nat
      /\ \A i \in 1 .. Len(r) : r[i] = IF i <= Len(s) THEN s[i] ELSE g[i - Len(s)]
  <2>1. s \in Seq(Call) /\ Len(s) \in Nat
    BY LenProperties DEF Round
  <2> HIDE DEF g
  <2>2. /\ s \o g \in Seq(Call) /\ Len(s \o g) = Len(s) + Len(g)
        /\ \A i \in 1 .. Len(s) + Len(g) : (s \o g)[i] = IF i <= Len(s) THEN s[i] ELSE g[i - Len(s)]
    BY <1>1, <2>1, ConcatProperties
  <2> QED BY <1>1, <2>1, <2>2
<1>3. \A K : "delay" \notin K => Count(K, r) = Count(K, s) + 0
  <2> SUFFICES ASSUME NEW K, "delay" \notin K PROVE Count(K, r) = Count(K, s) + 0
    OBVIOUS
  <2>1. Delay \in Call /\ Delay.op = "delay"
    BY Calls1 DEF Delay
  <2>2. Count(K, g) = 0
    BY <2>1, CountOne
  <2>3. s \in Seq(Call)
    BY DEF Round
  <2>4. Count(K, r) = Count(K, s) + Count(K, g) /\ Count(K, s) \in Nat
    BY <1>1, <2>3, CountConcat
  <2> HIDE DEF g, r
  <2> QED BY <2>2, <2>4
<1>4. \A i \in 1 .. Len(r) : (i <= Len(s) /\ r[i] = s[i] /\ i \in 1 .. Len(s)) \/ (i = Len(r) /\ r[i].op = "delay")
  <2> HIDE DEF g, r
  <2> QED BY <1>1, <1>2
<1> HIDE DEF r, g
<1>5. Count({"put"}, r) \in {0, 3} /\ Count({"ground_take"}, r) \in {0, 3} /\ Count(Takes, r) \in {0, 3}
  BY <1>3 DEF Round, Takes
<1>6. \A i \in 1 .. Len(r) : ~Closes(r[i])
  BY <1>4 DEF Round, Closes
<1>7. ASSUME NEW i \in 1 .. Len(r), r[i].op \in Group PROVE r[1].op = "take_mux" /\ Keeps(r, i)
  <2>1. i \in 1 .. Len(s) /\ r[i] = s[i]
    BY <1>4, <1>7 DEF Group
  <2>2. s[1].op = "take_mux" /\ Keeps(s, i) /\ r[1] = s[1]
    BY <1>2, <1>7, <2>1 DEF Round
  <2>3. \A k \in 1 .. i : r[k] = s[k]
    BY <1>2, <2>1
  <2> QED BY <2>2, <2>3 DEF Keeps
<1>8. OneGoto(r)
  BY <1>4 DEF Round, OneGoto
<1>9. Known(r, t)
  BY <1>4 DEF Round, Known
<1>10. Round(r, t)
  BY <1>2, <1>5, <1>6, <1>7, <1>8, <1>9 DEF Round
<1> QED BY <1>10 DEF r, g

\* A round that begins finds the clip empty, and whatever it takes it takes under the mutex.
LEMMA RoundMuxPlan ==
  ASSUME NEW s, NEW t, Round(s, t), NEW m
  PROVE  MuxPlan(s, m, FALSE)
<1>1. ASSUME NEW i \in 1 .. Len(s), s[i].op \in Group PROVE Keeps(s, i) /\ \E k \in 1 .. i : s[k].op = "take_mux"
  <2>1. 1 \in 1 .. i /\ s[1].op = "take_mux" /\ Keeps(s, i)
    BY <1>1 DEF Round
  <2> QED BY <2>1
<1> QED BY <1>1 DEF MuxPlan, Round

\* The six digits of a task code are colours.
LEMMA CodeDigits ==
  ASSUME codeS \in Code
  PROVE  /\ codeS \in [1 .. 2 -> [1 .. 3 -> Color]]
         /\ Code1 \in [1 .. 3 -> Color] /\ Code2 \in [1 .. 3 -> Color]
<1>1. codeS \in [1 .. 2 -> [1 .. 3 -> Color]]
  BY CodeAssumption
<1> QED BY <1>1 DEF Code1, Code2

\* Where calibration goes on from and to.
LEMMA AfterKnown ==
  /\ DOMAIN AfterCalibrat = {"TakeRaw1", "TPRough1", "PutStag1", "TakeRaw2", "TPRough2"}
  /\ \A t \in DOMAIN AfterCalibrat : AfterCalibrat[t] \in Task \ {"Calibrat"}
<1>1. DOMAIN AfterCalibrat = {"TakeRaw1", "TPRough1", "PutStag1", "TakeRaw2", "TPRough2"}
  BY DEF AfterCalibrat
<1>2. /\ AfterCalibrat["TakeRaw1"] = "GoRough" /\ AfterCalibrat["TPRough1"] = "GoStaging"
      /\ AfterCalibrat["PutStag1"] = "PassRough" /\ AfterCalibrat["TakeRaw2"] = "GoRough2"
      /\ AfterCalibrat["TPRough2"] = "GoStag2"
  BY DEF AfterCalibrat
<1> QED BY <1>1, <1>2 DEF Task

\* The cases of the switch that have action groups.
LEMMA GroupRounds ==
  ASSUME codeS \in Code
  PROVE  \A t \in {"TakeRaw1", "TPRough1", "PutStag1", "TakeRaw2", "TPRough2", "PutStag2"} :
           Round(Body(t), t)
<1>1. /\ "TakeRaw1" \in DOMAIN AfterCalibrat /\ "TPRough1" \in DOMAIN AfterCalibrat
      /\ "PutStag1" \in DOMAIN AfterCalibrat /\ "TakeRaw2" \in DOMAIN AfterCalibrat
      /\ "TPRough2" \in DOMAIN AfterCalibrat
  BY AfterKnown
<1>2. /\ Body("TakeRaw1") = TakeRawThree(Code1) /\ Body("TakeRaw2") = TakeRawThree(Code2)
      /\ Body("TPRough1") = PutTakeThree(Code1, "Aim") /\ Body("TPRough2") = PutTakeThree(Code2, "Pile")
  BY DEF Body
<1>3. Places(Body("TakeRaw1"), 13, 2 .. 4, {}, {}) /\ Body("TakeRaw1")[13] = CalibratThenOn
  BY <1>2, CodeDigits, TakeRawPlaces
<1>4. Places(Body("TakeRaw2"), 13, 2 .. 4, {}, {}) /\ Body("TakeRaw2")[13] = CalibratThenOn
  BY <1>2, CodeDigits, TakeRawPlaces
<1>5. "Aim" \in LiftPos /\ "Pile" \in LiftPos
  BY DEF LiftPos
<1>6. Places(Body("TPRough1"), 11, {}, 2 .. 4, 5 .. 7) /\ Body("TPRough1")[11] = CalibratThenOn
  BY <1>2, <1>5, CodeDigits, PutTakePlaces
<1>7. Places(Body("TPRough2"), 11, {}, 2 .. 4, 5 .. 7) /\ Body("TPRough2")[11] = CalibratThenOn
  BY <1>2, <1>5, CodeDigits, PutTakePlaces
<1>8. /\ Places(Body("PutStag1"), 7, {}, 2 .. 4, {}) /\ Body("PutStag1")[7] = CalibratThenOn
      /\ Places(Body("PutStag2"), 6, {}, 2 .. 4, {}) /\ Body("PutStag2")[6] = Goto("Restart")
  BY CodeDigits, PutStagPlaces
<1>9. Goto("Restart") # CalibratThenOn
  BY DEF Goto, CalibratThenOn
<1>10. Round(Body("TakeRaw1"), "TakeRaw1") /\ Round(Body("TakeRaw2"), "TakeRaw2")
  BY <1>1, <1>3, <1>4, PlacesRound
<1>11. Round(Body("TPRough1"), "TPRough1") /\ Round(Body("TPRough2"), "TPRough2")
  BY <1>1, <1>6, <1>7, PlacesRound
<1>12. Round(Body("PutStag1"), "PutStag1")
  BY <1>1, <1>8, PlacesRound
<1>13. Round(Body("PutStag2"), "PutStag2")
  BY <1>8, <1>9, PlacesRound
<1> QED BY <1>10, <1>11, <1>12, <1>13

\* The cases that send the chassis to the staging area.
LEMMA GoStagRounds ==
  ASSUME codeS \in Code
  PROVE  Round(Body("GoStaging"), "GoStaging") /\ Round(Body("GoStag2"), "GoStag2")
<1>1. Code1[1] \in Maybe /\ Code2[1] \in Maybe
  BY CodeDigits DEF Maybe
<1>2. /\ Quiet(SendRingToCar("Staging", TRUE, Code1[1], TRUE))
      /\ Quiet(SendRingToCar("Staging", TRUE, Code2[1], TRUE))
  <2>1. TRUE \in BOOLEAN /\ "Staging" \in {"Rough", "Staging"}
    OBVIOUS
  <2> QED BY <1>1, <2>1, SendRingQuiet
<1>3. "PutStag1" \in Task /\ "PutStag2" \in Task
  BY DEF Task
<1>4. /\ Round(SendRingToCar("Staging", TRUE, Code1[1], TRUE) \o <<Goto("PutStag1")>>, "GoStaging")
      /\ Round(SendRingToCar("Staging", TRUE, Code2[1], TRUE) \o <<Goto("PutStag2")>>, "GoStag2")
  BY <1>2, <1>3, QuietRound
<1>5. /\ Body("GoStaging") = SendRingToCar("Staging", TRUE, Code1[1], TRUE) \o <<Goto("PutStag1")>>
      /\ Body("GoStag2") = SendRingToCar("Staging", TRUE, Code2[1], TRUE) \o <<Goto("PutStag2")>>
  BY DEF Body
<1> QED BY <1>4, <1>5

\* The cases without action groups.
LEMMA PlainRounds ==
  ASSUME oldTask \in Task
  PROVE  \A t \in {"TaskStart", "ScanQR", "GoRough", "PassRough", "GoRough2", "Restart", "Calibrat"} :
           Round(Body(t), t)
<1>1. /\ SendOrderToCar(Raw) \in Call /\ MutexTake \in Call /\ MutexRelease \in Call /\ Stop \in Call
      /\ ArmClipTakeState("Avoid") \in Call
      /\ MotorMotion_Rotate("Vision") \in Call /\ MotorMotion_Rotate("Reset") \in Call
      /\ MotorMotion_Lift("Raw") \in Call /\ MotorMotion_Lift("Reset") \in Call
      /\ \A u \in Task : Goto(u) \in Call
  <2>1. Raw \in Place
    BY DEF Raw, Place, Maybe
  <2> QED BY <2>1, Calls1 DEF LiftPos
<1>2. /\ Goto("ScanQR") \in Call /\ Goto("TakeRaw1") \in Call /\ Goto("TPRough1") \in Call
      /\ Goto("TakeRaw2") \in Call /\ Goto("TPRough2") \in Call /\ Goto("TaskStart") \in Call
  BY <1>1 DEF Task
<1>3. Round(Body("TaskStart"), "TaskStart")
  <2> DEFINE s == <<SendOrderToCar(Raw), Goto("ScanQR")>>
  <2>1. s \in Seq(Call)
    BY <1>1, <1>2
  <2>2. /\ OneGoto(s) /\ Known(s, "TaskStart")
        /\ \A i \in 1 .. Len(s) : s[i].op \notin Group /\ ~Closes(s[i])
    BY DEF OneGoto, Known, SendOrderToCar, Goto, Group, Closes
  <2>3. Body("TaskStart") = s
    BY DEF Body
  <2> HIDE DEF s
  <2> QED BY <2>1, <2>2, <2>3, PlainRound
<1>4. Round(Body("ScanQR"), "ScanQR")
  <2> DEFINE s == <<MutexTake, ArmClipTakeState("Avoid"), MotorMotion_Rotate("Vision"),
                    MotorMotion_Lift("Raw"), MutexRelease, Goto("TakeRaw1")>>
  <2>1. s \in Seq(Call)
    BY <1>1, <1>2
  <2>2. /\ OneGoto(s) /\ Known(s, "ScanQR")
        /\ \A i \in 1 .. Len(s) : s[i].op \notin Group /\ ~Closes(s[i])
    BY DEF OneGoto, Known, MutexTake, ArmClipTakeState, MotorMotion_Rotate, MotorMotion_Lift,
         MutexRelease, Goto, Group, Closes
  <2>3. Body("ScanQR") = s
    BY DEF Body
  <2> HIDE DEF s
  <2> QED BY <2>1, <2>2, <2>3, PlainRound
<1>5. ASSUME NEW u \in {"TPRough1", "TPRough2"}, NEW t PROVE Round(ResetArm(u), t)
  <2> DEFINE s == ResetArm(u)
  <2>1. s \in Seq(Call)
    BY <1>1, <1>2 DEF ResetArm
  <2>2. /\ OneGoto(s) /\ Known(s, t)
        /\ \A i \in 1 .. Len(s) : s[i].op \notin Group /\ ~Closes(s[i])
    BY DEF ResetArm, OneGoto, Known, MutexTake, MotorMotion_Rotate, MotorMotion_Lift,
         MutexRelease, Goto, Group, Closes
  <2> HIDE DEF s
  <2>3. Round(s, t)
    BY <2>1, <2>2, PlainRound
  <2> QED BY <2>3 DEF s
<1>6. Round(Body("GoRough"), "GoRough") /\ Round(Body("GoRough2"), "GoRough2")
  <2>1. Body("GoRough") = ResetArm("TPRough1") /\ Body("GoRough2") = ResetArm("TPRough2")
    BY DEF Body
  <2> QED BY <1>5, <2>1
<1>7. Round(Body("PassRough"), "PassRough")
  <2> DEFINE s == <<MutexTake, SendOrderToCar(Raw), MotorMotion_Lift("Raw"), MutexRelease,
                    Goto("TakeRaw2")>>
  <2>1. s \in Seq(Call)
    BY <1>1, <1>2
  <2>2. /\ OneGoto(s) /\ Known(s, "PassRough")
        /\ \A i \in 1 .. Len(s) : s[i].op \notin Group /\ ~Closes(s[i])
    BY DEF OneGoto, Known, MutexTake, SendOrderToCar, MotorMotion_Lift, MutexRelease, Goto, Group,
         Closes
  <2>3. Body("PassRough") = s
    BY DEF Body
  <2> HIDE DEF s
  <2> QED BY <2>1, <2>2, <2>3, PlainRound
<1>8. Round(Body("Restart"), "Restart")
  <2> DEFINE s == <<Goto("TaskStart"), Stop>>
  <2>1. s \in Seq(Call)
    BY <1>1, <1>2
  <2>2. /\ OneGoto(s) /\ Known(s, "Restart")
        /\ \A i \in 1 .. Len(s) : s[i].op \notin Group /\ ~Closes(s[i])
    BY DEF OneGoto, Known, Goto, Stop, Group, Closes
  <2>3. Body("Restart") = s
    BY DEF Body
  <2> HIDE DEF s
  <2> QED BY <2>1, <2>2, <2>3, PlainRound
<1>9. ASSUME NEW u \in Task \ {"Calibrat"}, NEW t PROVE Round(<<Goto(u)>>, t)
  <2> DEFINE s == <<Goto(u)>>
  <2>1. s \in Seq(Call)
    BY <1>1
  <2>2. /\ OneGoto(s) /\ Known(s, t)
        /\ \A i \in 1 .. Len(s) : s[i].op \notin Group /\ ~Closes(s[i])
    BY DEF OneGoto, Known, Goto, Group, Closes
  <2> HIDE DEF s
  <2>3. Round(s, t)
    BY <2>1, <2>2, PlainRound
  <2> QED BY <2>3 DEF s
<1>10. Round(Body("Calibrat"), "Calibrat")
  <2>1. CASE oldTask \in DOMAIN AfterCalibrat
    <3>1. Body("Calibrat") = <<Goto(AfterCalibrat[oldTask])>>
      BY <2>1 DEF Body
    <3> QED BY <1>9, <2>1, <3>1, AfterKnown
  <2>2. CASE oldTask \notin DOMAIN AfterCalibrat
    <3>1. Body("Calibrat") = <<>>
      BY <2>2 DEF Body
    <3> DEFINE s == <<>>
    <3>2. /\ s \in Seq(Call) /\ OneGoto(s) /\ Known(s, "Calibrat")
          /\ \A i \in 1 .. Len(s) : s[i].op \notin Group /\ ~Closes(s[i])
      BY DEF OneGoto, Known
    <3> HIDE DEF s
    <3>3. Round(s, "Calibrat")
      BY <3>2, PlainRound
    <3> QED BY <3>1, <3>3 DEF s
  <2> QED BY <2>1, <2>2
<1> QED BY <1>3, <1>4, <1>6, <1>7, <1>8, <1>10

\* Every case of the switch of MainCtrl_thread_entry is a round.
LEMMA BodyRound ==
  ASSUME NEW t \in Task, oldTask \in Task, codeS \in Code \/ t \in {"TaskStart", "ScanQR"}
  PROVE  Round(Body(t), t)
<1>1. CASE t \in {"TaskStart", "ScanQR", "GoRough", "PassRough", "GoRough2", "Restart", "Calibrat"}
  BY <1>1, PlainRounds
<1>2. CASE t \notin {"TaskStart", "ScanQR", "GoRough", "PassRough", "GoRough2", "Restart", "Calibrat"}
  <2>1. codeS \in Code /\ t \in {"TakeRaw1", "TPRough1", "PutStag1", "TakeRaw2", "TPRough2", "PutStag2",
                                "GoStaging", "GoStag2"}
    BY <1>2 DEF Task
  <2> QED BY <2>1, GroupRounds, GoStagRounds
<1> QED BY <1>1, <1>2
-----------------------------------------------------------------------------
(***************************************************************************)
(* The action groups open what they close.                                 *)
(***************************************************************************)
LEMMA ArmCalls ==
  /\ \A pos \in LiftPos : MotorMotion_Lift(pos) \in Call /\ Quiet(<<MotorMotion_Lift(pos)>>)
  /\ \A pos \in {"Reset", "Vision"} : MotorMotion_Rotate(pos) \in Call /\ Quiet(<<MotorMotion_Rotate(pos)>>)
  /\ \A d \in Place : SendOrderToCar(d) \in Call /\ Quiet(<<SendOrderToCar(d)>>)
  /\ \A c \in Maybe : MaterialPosition(c) \in Call /\ Quiet(<<MaterialPosition(c)>>)
  /\ Quiet(<<>>)
<1>1. ASSUME NEW c \in Call, c.op \in {"lift", "rotate", "plate", "order", "wait"} PROVE Quiet(<<c>>)
  BY <1>1 DEF Quiet
<1>2. Quiet(<<>>)
  BY DEF Quiet
<1>3. ASSUME NEW pos \in LiftPos PROVE MotorMotion_Lift(pos) \in Call /\ Quiet(<<MotorMotion_Lift(pos)>>)
  BY <1>1, Calls1 DEF MotorMotion_Lift
<1>4. ASSUME NEW pos \in {"Reset", "Vision"}
      PROVE  MotorMotion_Rotate(pos) \in Call /\ Quiet(<<MotorMotion_Rotate(pos)>>)
  <2>1. MotorMotion_Rotate(pos) \in Call
    BY Calls1
  <2> QED BY <1>1, <2>1 DEF MotorMotion_Rotate
<1>5. ASSUME NEW d \in Place PROVE SendOrderToCar(d) \in Call /\ Quiet(<<SendOrderToCar(d)>>)
  BY <1>1, Calls1 DEF SendOrderToCar
<1>6. ASSUME NEW c \in Maybe PROVE MaterialPosition(c) \in Call /\ Quiet(<<MaterialPosition(c)>>)
  BY <1>1, Calls1 DEF MaterialPosition
<1> QED BY <1>2, <1>3, <1>4, <1>5, <1>6

\* Ground_PutAction opens the clip that it closes.
LEMMA PutExpansion ==
  ASSUME NEW how, NEW c \in Maybe, NEW rotate \in BOOLEAN
  PROVE  Expansion(PutCalls(how, c, rotate))
<1> DEFINE area == IF nowTask \in {"TPRough1", "TPRough2"} THEN "Rough" ELSE "Staging"
           height == IF how = "Normal" THEN "Places" ELSE "Stack"
           first == <<MotorMotion_Lift("Stuff"), ArmClipTakeState("Grasp"), MotorMotion_Lift("Reset"),
                      MotorMotion_Rotate("Vision"), MotorMotion_Lift(height),
                      ArmClipTakeState("Avoid"), MaterialPosition(c)>>
           pile == IF nowTask = "PutStag2" THEN <<MotorMotion_Lift("Pile")>> ELSE <<>>
           next1 == pile \o SendRingToCar(area, TRUE, c, FALSE) \o <<MotorMotion_Lift("Reset")>>
           next2 == CASE nowTask = "PutStag1" -> <<SendOrderToCar(Ring("Rough", "red"))>>
                      [] nowTask = "PutStag2" -> <<SendOrderToCar(Start), MotorMotion_Lift("Reset")>>
                      [] OTHER -> SendRingToCar("Rough", TRUE, c, FALSE)
           onward == IF putCount + 1 < 3 THEN next1 ELSE next2
           last == IF rotate THEN <<MotorMotion_Rotate("Reset")>> ELSE <<>>
<1>1. /\ MotorMotion_Lift("Stuff") \in Call /\ ArmClipTakeState("Grasp") \in Call
      /\ MotorMotion_Lift("Reset") \in Call /\ MotorMotion_Rotate("Vision") \in Call
      /\ MotorMotion_Lift(height) \in Call /\ ArmClipTakeState("Avoid") \in Call
      /\ MaterialPosition(c) \in Call
  BY Calls1 DEF LiftPos
<1>2. Expansion(first)
  <2>1. first \in Seq(Call)
    BY <1>1
  <2>2. /\ Len(first) = 7
        /\ \A i \in 1 .. 7 : first[i].op \in {"lift", "rotate", "clip", "plate"} /\ (Closes(first[i]) => i = 2)
        /\ Opens(first[6])
    BY DEF MotorMotion_Lift, MotorMotion_Rotate, ArmClipTakeState, MaterialPosition, Closes, Opens
  <2> HIDE DEF first
  <2> QED BY <2>1, <2>2 DEF Expansion
<1>3. /\ Quiet(<<MotorMotion_Lift("Pile")>>) /\ Quiet(<<MotorMotion_Lift("Reset")>>) /\ Quiet(<<>>)
      /\ Quiet(<<MotorMotion_Rotate("Reset")>>)
  BY ArmCalls DEF LiftPos
<1>4. Quiet(SendRingToCar(area, TRUE, c, FALSE)) /\ Quiet(SendRingToCar("Rough", TRUE, c, FALSE))
  <2>1. area \in {"Rough", "Staging"} /\ "Rough" \in {"Rough", "Staging"} /\ TRUE \in BOOLEAN /\ FALSE \in BOOLEAN
    OBVIOUS
  <2> HIDE DEF area
  <2> QED BY <2>1, SendRingQuiet
<1>5. Quiet(next1)
  <2>1. Quiet(pile)
    BY <1>3
  <2> HIDE DEF pile, area
  <2>2. Quiet(pile \o SendRingToCar(area, TRUE, c, FALSE))
    BY <1>4, <2>1, QuietConcat
  <2> QED BY <1>3, <2>2, QuietConcat
<1>6. Quiet(next2)
  <2>1. Ring("Rough", "red") \in Place /\ Start \in Place
    BY DEF Ring, Start, Place, Maybe, Color
  <2>2. Quiet(<<SendOrderToCar(Ring("Rough", "red"))>>)
    BY <2>1, ArmCalls
  <2>3. Quiet(<<SendOrderToCar(Start), MotorMotion_Lift("Reset")>>)
    <3>1. SendOrderToCar(Start) \in Call
      BY <2>1, ArmCalls
    <3> QED BY <1>1, <3>1 DEF Quiet, SendOrderToCar, MotorMotion_Lift
  <2> QED BY <1>4, <2>2, <2>3
<1>7. Quiet(onward)
  <2> HIDE DEF next1, next2
  <2> QED BY <1>5, <1>6
<1>8. Quiet(last)
  BY <1>3
<1>9. PutCalls(how, c, rotate) = (first \o onward) \o last
  BY Zenon DEF PutCalls
<1> HIDE DEF first, onward, last
<1>10. Expansion(first \o onward)
  BY <1>2, <1>7, QuietExpansion, Expansions
<1>11. Expansion((first \o onward) \o last)
  BY <1>8, <1>10, QuietExpansion, Expansions
<1> QED BY <1>9, <1>11

\* Ground_TakeAction does.
LEMMA GroundTakeExpansion ==
  ASSUME NEW c \in Color
  PROVE  Expansion(GroundTakeCalls(c))
<1> DEFINE area == IF takeCount + 1 < 3 THEN "Rough" ELSE "Staging"
           first == <<ArmClipTakeState("Avoid"), MotorMotion_Lift("Grab"), ArmClipTakeState("Grasp"),
                      MotorMotion_Lift("Reset"), MotorMotion_Rotate("Reset"), MotorMotion_Lift("Stuff"),
                      ArmClipTakeState("Release")>>
           ring == SendRingToCar(area, FALSE, c, FALSE)
           last == <<MaterialPosition(c), MotorMotion_Rotate("Vision")>>
<1>1. /\ ArmClipTakeState("Avoid") \in Call /\ MotorMotion_Lift("Grab") \in Call
      /\ ArmClipTakeState("Grasp") \in Call /\ MotorMotion_Lift("Reset") \in Call
      /\ MotorMotion_Rotate("Reset") \in Call /\ MotorMotion_Lift("Stuff") \in Call
      /\ ArmClipTakeState("Release") \in Call /\ MotorMotion_Rotate("Vision") \in Call
      /\ c \in Maybe /\ MaterialPosition(c) \in Call
  BY Calls1 DEF LiftPos, Maybe
<1>2. Expansion(first)
  <2>1. first \in Seq(Call)
    BY <1>1
  <2>2. /\ Len(first) = 7
        /\ \A i \in 1 .. 7 : first[i].op \in {"lift", "rotate", "clip"} /\ (Closes(first[i]) => i = 3)
        /\ Opens(first[7])
    BY DEF MotorMotion_Lift, MotorMotion_Rotate, ArmClipTakeState, Closes, Opens
  <2> HIDE DEF first
  <2> QED BY <2>1, <2>2 DEF Expansion
<1>3. Quiet(ring)
  <2>1. area \in {"Rough", "Staging"} /\ FALSE \in BOOLEAN
    OBVIOUS
  <2> HIDE DEF area
  <2> QED BY <1>1, <2>1, SendRingQuiet
<1>4. Quiet(last)
  BY <1>1 DEF Quiet, MaterialPosition, MotorMotion_Rotate
<1>5. GroundTakeCalls(c) = (first \o ring) \o last
  BY Zenon DEF GroundTakeCalls
<1> HIDE DEF first, ring, last
<1>6. Expansion(first \o ring)
  BY <1>2, <1>3, QuietExpansion, Expansions
<1>7. Expansion((first \o ring) \o last)
  BY <1>4, <1>6, QuietExpansion, Expansions
<1> QED BY <1>5, <1>7

\* TakeRawMaterial does.
LEMMA TakeRawExpansion ==
  ASSUME codeS \in Code
  PROVE  Expansion(TakeRawCalls)
<1> DEFINE color == IF nowTask = "TakeRaw1" THEN Code1[1] ELSE Code2[1]
           first == <<MotorMotion_Lift("RawArea"), ArmClipTakeState("Grasp"), MotorMotion_Lift("Reset"),
                      MotorMotion_Rotate("Reset"), MotorMotion_Lift("Stuff"), ArmClipTakeState("Release")>>
           ring == SendRingToCar("Rough", FALSE, color, FALSE)
           back == <<MotorMotion_Rotate("Vision"), MotorMotion_Lift("RawArea")>>
           last == IF actionCount + 1 >= 3 THEN ring ELSE back
<1>1. /\ MotorMotion_Lift("RawArea") \in Call /\ ArmClipTakeState("Grasp") \in Call
      /\ MotorMotion_Lift("Reset") \in Call /\ MotorMotion_Rotate("Reset") \in Call
      /\ MotorMotion_Lift("Stuff") \in Call /\ ArmClipTakeState("Release") \in Call
      /\ MotorMotion_Rotate("Vision") \in Call
  BY Calls1 DEF LiftPos
<1>2. Expansion(first)
  <2>1. first \in Seq(Call)
    BY <1>1
  <2>2. /\ Len(first) = 6
        /\ \A i \in 1 .. 6 : first[i].op \in {"lift", "rotate", "clip"} /\ (Closes(first[i]) => i = 2)
        /\ Opens(first[6])
    BY DEF MotorMotion_Lift, MotorMotion_Rotate, ArmClipTakeState, Closes, Opens
  <2> HIDE DEF first
  <2> QED BY <2>1, <2>2 DEF Expansion
<1>3. Quiet(ring)
  <2>1. color \in Maybe /\ FALSE \in BOOLEAN /\ "Rough" \in {"Rough", "Staging"}
    BY CodeDigits DEF Maybe
  <2> HIDE DEF color
  <2> QED BY <2>1, SendRingQuiet
<1>4. Quiet(back)
  BY <1>1 DEF Quiet, MotorMotion_Rotate, MotorMotion_Lift
<1>5. Quiet(last)
  <2> HIDE DEF ring, back
  <2> QED BY <1>3, <1>4
<1>6. TakeRawCalls = first \o last
  BY Zenon DEF TakeRawCalls
<1> HIDE DEF first, last
<1>7. Expansion(first \o last)
  BY <1>2, <1>5, QuietExpansion, Expansions
<1> QED BY <1>6, <1>7
-----------------------------------------------------------------------------
Types == TypeOK /\ todo \in Seq(Call) /\ at \in [Object -> Spot] /\ place \in Place

\* Until a code is there, only the first two tasks are.
CodeInv ==
  codeS = NoCode =>
    /\ nowTask \in {"TaskStart", "ScanQR"}
    /\ \A i \in 1 .. Len(todo) : /\ todo[i].op \in {"order", "goto", "delay"}
                                 /\ todo[i].op = "goto" => todo[i].task = "ScanQR"

GotoInv == OneGoto(todo) /\ Known(todo, nowTask) /\ CalibratKnows

CountInv == Three(putCount, {"put"}) /\ Three(takeCount, {"ground_take"}) /\ Three(actionCount, Takes)

MuxInv == MuxPlan(todo, mux, Held)

Inv == Types /\ CodeInv /\ GotoInv /\ CountInv /\ MuxInv
-----------------------------------------------------------------------------
\* The invariant holds at the start.
LEMMA InitInv == Init => Inv
<1> SUFFICES ASSUME Init PROVE Inv
  OBVIOUS
<1>1. todo = <<>> /\ todo \in Seq(Call) /\ Len(todo) = 0
  BY DEF Init
<1>2. ASSUME NEW K PROVE Count(K, todo) = 0
  <2>1. \A i \in 1 .. Len(todo) : todo[i].op \notin K
    BY <1>1
  <2> QED BY <1>1, <2>1, CountNone
<1>3. \A o \in Object : at[o] = Raw /\ Raw # InClip
  BY DEF Init, Raw, InClip
<1>4. Types
  <2>1. TypeOK
    <3>1. taskStart \in BOOLEAN /\ mux \in BOOLEAN /\ arrived \in BOOLEAN /\ wanted \in BOOLEAN
      BY DEF Init
    <3>2. putCount \in 0 .. 2 /\ takeCount \in 0 .. 2 /\ actionCount \in 0 .. 2
      BY DEF Init
    <3>3. nowTask \in Task /\ oldTask \in Task /\ plate \in Color
      BY DEF Init, Task, Color
    <3>4. codeS \in Code \cup {NoCode} /\ carSta \in Byte \cup {None} /\ oldValue \in Color \cup {None}
          /\ seen \in Color \cup {None}
      BY DEF Init
    <3>5. /\ lift \in {"Reset", "Raw", "RawArea", "Stuff", "Aim", "Grab", "Places", "Stack", "Pile"}
          /\ rot \in {"Reset", "Vision"} /\ clip \in {"Grasp", "Release", "Avoid"}
      BY DEF Init
    <3> QED BY <1>3, <3>1, <3>2, <3>3, <3>4, <3>5 DEF TypeOK
  <2>2. Raw \in Spot /\ Start \in Place
    BY DEF Raw, Start, Spot, Place, Maybe
  <2> QED BY <1>1, <2>1, <2>2 DEF Types, Init
<1>5. CodeInv
  BY <1>1 DEF CodeInv, Init
<1>6. GotoInv
  BY <1>1 DEF GotoInv, OneGoto, Known, CalibratKnows, Init
<1>7. CountInv
  BY <1>2 DEF CountInv, Three, Init
<1>8. MuxInv
  BY <1>1, <1>3 DEF MuxInv, MuxPlan, Held
<1> QED BY <1>4, <1>5, <1>6, <1>7, <1>8 DEF Inv

(***************************************************************************)
(* What the invariant says of todo when its first call is done, and when   *)
(* an action group is replaced.                                            *)
(***************************************************************************)
LEMMA DoneKeeps ==
  ASSUME Inv, todo # <<>>, todo' = Tail(todo), Head(todo).op \notin Group,
         UNCHANGED <<codeS, putCount, takeCount, actionCount>>
  PROVE  /\ todo' \in Seq(Call) /\ CountInv' /\ OneGoto(todo') /\ Known(todo', nowTask)
         /\ nowTask' \in {nowTask, "ScanQR"} => CodeInv'
<1>1. todo \in Seq(Call) /\ OneGoto(todo) /\ Known(todo, nowTask)
  BY DEF Inv, Types, GotoInv
<1>2. todo' \in Seq(Call) /\ OneGoto(todo') /\ Known(todo', nowTask)
  BY <1>1, GotoRest, Rest
<1>3. \A K : K \subseteq Group => Count(K, todo') = Count(K, todo)
  <2> SUFFICES ASSUME NEW K, K \subseteq Group PROVE Count(K, todo') = Count(K, todo)
    OBVIOUS
  <2>1. Count(K, todo) = Count(K, Tail(todo)) + 0 /\ Count(K, Tail(todo)) \in Nat
    BY <1>1, CountRest
  <2> QED BY <2>1
<1>4. CountInv'
  <2>1. {"put"} \subseteq Group /\ {"ground_take"} \subseteq Group /\ Takes \subseteq Group
    BY DEF Group, Takes
  <2>2. /\ Count({"put"}, todo') = Count({"put"}, todo)
        /\ Count({"ground_take"}, todo') = Count({"ground_take"}, todo)
        /\ Count(Takes, todo') = Count(Takes, todo)
    BY <1>3, <2>1
  <2> QED BY <2>2 DEF Inv, CountInv, Three
<1>5. ASSUME nowTask' \in {nowTask, "ScanQR"} PROVE CodeInv'
  <2> SUFFICES ASSUME codeS = NoCode
               PROVE  /\ nowTask' \in {"TaskStart", "ScanQR"}
                      /\ \A i \in 1 .. Len(todo') : /\ todo'[i].op \in {"order", "goto", "delay"}
                                                    /\ todo'[i].op = "goto" => todo'[i].task = "ScanQR"
    BY DEF CodeInv
  <2>1. \A i \in 1 .. Len(todo') : i + 1 \in 1 .. Len(todo) /\ todo'[i] = todo[i + 1]
    <3>1. /\ Len(todo) \in Nat \ {0} /\ Len(todo') = Len(todo) - 1
          /\ \A i \in 1 .. Len(todo) - 1 : todo'[i] = todo[i + 1]
      BY <1>1, Rest
    <3> QED BY <3>1
  <2> QED BY <1>5, <2>1 DEF Inv, CodeInv
<1> QED BY <1>2, <1>4, <1>5

\* An action group is only begun when a task code has been scanned.
LEMMA GroupHasCode ==
  ASSUME Inv, todo # <<>>, Head(todo).op \in Group
  PROVE  codeS \in Code /\ codeS # NoCode
<1>1. Head(todo) = todo[1] /\ 1 \in 1 .. Len(todo)
  BY Rest DEF Inv, Types
<1> QED BY <1>1 DEF Inv, CodeInv, Types, TypeOK, Group

\* What the invariant says when an action group is replaced by the calls it makes.
LEMMA GroupKeeps ==
  ASSUME Inv, todo # <<>>, Head(todo).op \in Group, NEW G, todo' = G \o Tail(todo),
         Expansion(G) \/ (G \in Seq(Call) /\ \A i \in 1 .. Len(G) : G[i].op \in Group \cup {"plate"}),
         UNCHANGED <<nowTask, oldTask, codeS, mux, at>>
  PROVE  /\ todo' \in Seq(Call) /\ CodeInv' /\ GotoInv' /\ MuxInv'
         /\ \A K : Count(K, todo') = Count(K, G) + Count(K, todo) - (IF Head(todo).op \in K THEN 1 ELSE 0)
<1>1. todo \in Seq(Call) /\ OneGoto(todo) /\ Known(todo, nowTask)
  BY DEF Inv, Types, GotoInv
<1>2. G \in Seq(Call) /\ \A i \in 1 .. Len(G) : G[i].op # "goto"
  BY DEF Expansion, Group
<1>3. todo' \in Seq(Call)
  BY <1>1, <1>2, Replaced
<1>4. CodeInv'
  BY GroupHasCode DEF CodeInv
<1>5. GotoInv'
  <2>1. OneGoto(todo') /\ Known(todo', nowTask)
    BY <1>1, <1>2, GotoReplaced
  <2> QED BY <2>1 DEF Inv, GotoInv, CalibratKnows
<1>6. MuxInv'
  <2>1. MuxPlan(todo', mux, Held)
    BY <1>1, MuxPlanReplaced DEF Inv, MuxInv
  <2> QED BY <2>1 DEF MuxInv, Held
<1>7. \A K : Count(K, todo') = Count(K, G) + Count(K, todo) - (IF Head(todo).op \in K THEN 1 ELSE 0)
  BY <1>1, <1>2, CountReplaced
<1> QED BY <1>3, <1>4, <1>5, <1>6, <1>7
-----------------------------------------------------------------------------
(***************************************************************************)
(* The actions.                                                            *)
(***************************************************************************)
HeldOnce == \A o, p \in Object : at[o] = InClip /\ at[p] = InClip => o = p

\* A call that is done keeps the invariant when it keeps the types and the plan for the mutex.
LEMMA DoneInv ==
  ASSUME Inv, todo # <<>>, todo' = Tail(todo), Head(todo).op \notin Group,
         UNCHANGED <<nowTask, oldTask, codeS, putCount, takeCount, actionCount>>,
         TypeOK', at' \in [Object -> Spot], place' \in Place, MuxInv'
  PROVE  Inv'
<1>1. todo' \in Seq(Call) /\ CountInv' /\ OneGoto(todo') /\ Known(todo', nowTask) /\ CodeInv'
  BY DoneKeeps
<1> QED BY <1>1 DEF Inv, Types, GotoInv, CalibratKnows

\* A call that moves neither the mutex nor an object.
LEMMA PlainStep ==
  ASSUME Inv, todo # <<>>, todo' = Tail(todo),
         Head(todo).op \in {"lift", "rotate", "plate", "order", "wait", "delay", "stop"},
         UNCHANGED <<nowTask, oldTask, codeS, putCount, takeCount, actionCount, mux>>,
         TypeOK', at' \in [Object -> Spot], place' \in Place, Held' => Held
  PROVE  Inv'
<1>1. todo \in Seq(Call) /\ MuxPlan(todo, mux, Held)
  BY DEF Inv, Types, MuxInv
<1>2. Head(todo).op \notin {"take_mux", "release_mux", "clip"} /\ Head(todo).op \notin Group
  BY DEF Group
<1>3. MuxPlan(todo', mux, Held)
  BY <1>1, <1>2, MuxPlanRest
<1>4. MuxInv'
  BY <1>3 DEF MuxInv, MuxPlan
<1> QED BY <1>2, <1>4, DoneInv

\* The calls that move a motor or the plate, wait, or stop.
LEMMA StepArm ==
  ASSUME Inv, LiftStep \/ RotateStep \/ PlateStep \/ WaitStep \/ DelayStep \/ StopStep
  PROVE  Inv'
<1>1. Head(todo) \in Call /\ Types
  <2>1. todo # <<>>
    BY DEF LiftStep, RotateStep, PlateStep, WaitStep, DelayStep, StopStep, Calls
  <2> QED BY <2>1, Rest DEF Inv, Types
<1>2. CASE LiftStep
  <2>1. lift' \in LiftPos
    BY <1>1, <1>2, Arguments DEF LiftStep, Calls
  <2>2. TypeOK'
    BY <1>1, <1>2, <2>1 DEF LiftStep, Types, TypeOK, LiftPos, system, count, world, car
  <2> QED BY <1>1, <1>2, <2>2, PlainStep DEF LiftStep, Calls, Done, Types, Held, system, count,
     world, car
<1>3. CASE RotateStep
  <2>1. rot' \in {"Reset", "Vision"}
    BY <1>1, <1>3, Arguments DEF RotateStep, Calls
  <2>2. TypeOK'
    BY <1>1, <1>3, <2>1 DEF RotateStep, Types, TypeOK, system, count, world, car
  <2> QED BY <1>1, <1>3, <2>2, PlainStep DEF RotateStep, Calls, Done, Types, Held, system,
     count, world, car
<1>4. CASE PlateStep
  <2>1. plate' \in Color
    BY <1>1, <1>4 DEF PlateStep, Types, TypeOK
  <2>2. TypeOK'
    BY <1>1, <1>4, <2>1 DEF PlateStep, Types, TypeOK, system, count, world, car
  <2> QED BY <1>1, <1>4, <2>2, PlainStep DEF PlateStep, Calls, Done, Types, Held, system, count,
     world, car
<1>5. CASE WaitStep
  <2>1. TypeOK'
    BY <1>1, <1>5 DEF WaitStep, Types, TypeOK, system, count, arm, world
  <2> QED BY <1>1, <1>5, <2>1, PlainStep DEF WaitStep, Calls, Done, Types, Held, system, count,
     world
<1>6. CASE DelayStep
  <2>1. TypeOK'
    BY <1>1, <1>6 DEF DelayStep, Types, TypeOK, system, count, arm, world, car
  <2> QED BY <1>1, <1>6, <2>1, PlainStep DEF DelayStep, Calls, Done, Types, Held, system, count,
     world, car
<1>7. CASE StopStep
  <2>1. wanted' \in BOOLEAN /\ taskStart' \in BOOLEAN
    BY <1>1, <1>7 DEF StopStep, Types, TypeOK
  <2>2. TypeOK'
    BY <1>1, <1>7, <2>1 DEF StopStep, Types, TypeOK, count, arm, world, car
  <2> QED BY <1>1, <1>7, <2>2, PlainStep DEF StopStep, Calls, Done, Types, Held, count, world, car
<1> QED BY <1>2, <1>3, <1>4, <1>5, <1>6, <1>7

\* An order to the chassis.
LEMMA StepOrder ==
  ASSUME Inv, OrderStep
  PROVE  Inv'
<1>1. Head(todo) \in Call /\ Types /\ todo # <<>> /\ Head(todo).op = "order"
  <2>1. todo # <<>>
    BY DEF OrderStep, Calls
  <2> QED BY <2>1, Rest DEF Inv, Types, OrderStep, Calls
<1>2. place' \in Place
  BY <1>1, Arguments DEF OrderStep
<1>3. at' \in [Object -> Spot] /\ (Held' => Held) /\ HeldOnce'
  <2>1. CASE nowTask = "TaskStart"
    <3>1. at' = [o \in Object |-> Raw] /\ Raw \in Spot /\ Raw # InClip
      BY <2>1 DEF OrderStep, Raw, InClip, Spot, Maybe
    <3> QED BY <3>1 DEF Held, HeldOnce
  <2>2. CASE nowTask # "TaskStart"
    BY <1>1, <2>2 DEF OrderStep, Held, HeldOnce, Types, TypeOK
  <2> QED BY <2>1, <2>2
<1>4. TypeOK'
  <2>1. arrived' \in BOOLEAN
    BY DEF OrderStep
  <2>2. UNCHANGED <<nowTask, oldTask, codeS, taskStart, carSta, putCount, takeCount, actionCount,
                    oldValue, mux, lift, rot, clip, plate, seen, wanted>>
    BY DEF OrderStep, system, count, arm
  <2> QED BY <1>1, <1>3, <2>1, <2>2 DEF Types, TypeOK, HeldOnce
<1> QED BY <1>1, <1>2, <1>3, <1>4, PlainStep DEF OrderStep, Done, system, count

\* Taking and releasing Action_mux.
LEMMA StepMux ==
  ASSUME Inv, MuxStep
  PROVE  Inv'
<1>1. /\ todo # <<>> /\ todo \in Seq(Call) /\ MuxPlan(todo, mux, Held) /\ todo' = Tail(todo)
      /\ Head(todo).op \in {"take_mux", "release_mux"} /\ mux' = (Head(todo).op = "take_mux")
  BY DEF Inv, Types, MuxInv, MuxStep, Calls, Done
<1>2. TypeOK'
  <2>1. mux' \in BOOLEAN
    BY <1>1
  <2> QED BY <2>1 DEF Inv, Types, MuxStep, TypeOK, system, count, arm, world, car
<1>3. Held' = Held
  BY DEF MuxStep, Held, world
<1>4. ASSUME Head(todo).op = "take_mux" PROVE MuxInv'
  <2>1. MuxPlan(todo', TRUE, Held)
    BY <1>1, <1>4, MuxPlanRest
  <2>2. mux'
    BY <1>1, <1>4
  <2> QED BY <1>3, <2>1, <2>2 DEF MuxInv, MuxPlan
<1>5. ASSUME Head(todo).op = "release_mux" PROVE MuxInv'
  <2>1. ~Held /\ MuxPlan(todo', FALSE, FALSE)
    BY <1>1, <1>5, MuxPlanRest
  <2> QED BY <1>3, <2>1 DEF MuxInv, MuxPlan
<1>6. MuxInv'
  BY <1>1, <1>4, <1>5
<1> QED BY <1>1, <1>2, <1>6, DoneInv DEF MuxStep, Inv, Types, Group, system, count, world, car

\* What the open clip is over is not the clip.
LEMMA UnderSpot ==
  ASSUME Types
  PROVE  /\ Under \in Spot /\ Under # InClip
         /\ Lands \in Spot /\ Lands # InClip
<1>1. /\ OnPlate(plate) \in Spot /\ OnPlate(plate) # InClip
      /\ Raw \in Spot /\ Raw # InClip /\ Floor \in Spot /\ Floor # InClip
  BY DEF Types, TypeOK, OnPlate, Raw, Floor, InClip, Spot, Maybe
<1>2. place \in Spot /\ place # InClip
  BY DEF Types, Place, Spot, InClip
<1>3. Under \in {OnPlate(plate), Raw, place, Floor}
  BY DEF Under
<1>4. Under \in Spot /\ Under # InClip
  BY <1>1, <1>2, <1>3
<1>5. Lands \in {Under, Floor}
  BY DEF Lands
<1> QED BY <1>1, <1>4, <1>5

\* The clip closes or opens.
LEMMA StepClip ==
  ASSUME Inv, ClipStep
  PROVE  Inv'
<1>1. /\ todo # <<>> /\ todo \in Seq(Call) /\ MuxPlan(todo, mux, Held) /\ todo' = Tail(todo)
      /\ Head(todo).op = "clip" /\ clip' = Head(todo).state /\ Types
  BY DEF Inv, Types, MuxInv, ClipStep, Calls, Done
<1>2. clip' \in {"Grasp", "Release", "Avoid"}
  <2>1. Head(todo) \in Call
    BY <1>1, Rest
  <2> QED BY <1>1, <2>1, Arguments
<1>3. ASSUME clip' = "Grasp"
      PROVE  at' \in [Object -> Spot] /\ HeldOnce' /\ MuxInv'
  <2>1. at' \in [Object -> Spot] /\ HeldOnce'
    <3>1. CASE UNCHANGED at
      BY <1>1, <3>1 DEF Types, TypeOK, HeldOnce
    <3>2. CASE /\ \A p \in Object : at[p] # InClip
               /\ \E o \in Object : at' = [at EXCEPT ![o] = InClip]
      <4>1. InClip \in Spot
        BY DEF InClip, Spot, Maybe
      <4>2. PICK o \in Object : at' = [at EXCEPT ![o] = InClip]
        BY <3>2
      <4>3. at' \in [Object -> Spot] /\ \A p \in Object : at'[p] = IF p = o THEN InClip ELSE at[p]
        BY <1>1, <4>1, <4>2 DEF Types
      <4> QED BY <3>2, <4>3 DEF HeldOnce
    <3> QED BY <1>3, <3>1, <3>2 DEF ClipStep
  <2>2. MuxPlan(todo', mux, TRUE)
    BY <1>1, <1>3, MuxPlanRest DEF Closes
  <2>3. mux' = mux
    BY DEF ClipStep
  <2> QED BY <2>1, <2>2, <2>3 DEF MuxInv, MuxPlan
<1>4. ASSUME clip' # "Grasp"
      PROVE  at' \in [Object -> Spot] /\ HeldOnce' /\ MuxInv'
  <2>1. at' = [o \in Object |-> IF at[o] = InClip THEN Lands ELSE at[o]]
    BY <1>4 DEF ClipStep
  <2>2. at' \in [Object -> Spot] /\ ~Held' /\ HeldOnce'
    BY <1>1, <2>1, UnderSpot DEF Types, Held, HeldOnce
  <2>3. MuxPlan(todo', mux, FALSE)
    BY <1>1, <1>4, MuxPlanRest DEF Opens
  <2>4. mux' = mux
    BY DEF ClipStep
  <2> QED BY <2>2, <2>3, <2>4 DEF MuxInv, MuxPlan
<1>5. at' \in [Object -> Spot] /\ HeldOnce' /\ MuxInv'
  BY <1>3, <1>4
<1>6. UNCHANGED <<nowTask, oldTask, codeS, taskStart, carSta, putCount, takeCount, actionCount,
                  oldValue, mux, lift, rot, plate, seen, wanted, place, arrived>>
  BY DEF ClipStep, system, count, car
<1>7. TypeOK'
  BY <1>1, <1>2, <1>5, <1>6 DEF Types, TypeOK, HeldOnce
<1>8. Head(todo).op \notin Group
  BY <1>1 DEF Group
<1> QED BY <1>1, <1>5, <1>6, <1>7, <1>8, DoneInv DEF Types

\* NowTask changes.
LEMMA StepGoto ==
  ASSUME Inv, GotoStep
  PROVE  Inv'
<1>1. /\ todo # <<>> /\ todo \in Seq(Call) /\ todo' = Tail(todo) /\ Head(todo).op = "goto" /\ Types
      /\ OneGoto(todo) /\ Known(todo, nowTask) /\ nowTask' = Head(todo).task
      /\ oldTask' = IF Head(todo).keep THEN nowTask ELSE oldTask
      /\ UNCHANGED <<codeS, taskStart, carSta, putCount, takeCount, actionCount, oldValue, mux,
                     lift, rot, clip, plate, at, legs, seen, place, arrived, wanted>>
  BY DEF Inv, Types, GotoInv, GotoStep, Calls, Done, count, arm, world, car
<1>2. Head(todo) \in Call /\ Head(todo) = todo[1] /\ 1 \in 1 .. Len(todo)
  BY <1>1, Rest
<1>3. Head(todo).task \in Task
  BY <1>1, <1>2, Arguments
<1>4. TypeOK'
  <2>1. nowTask' \in Task /\ oldTask' \in Task
    BY <1>1, <1>3 DEF Types, TypeOK
  <2> QED BY <1>1, <2>1 DEF Types, TypeOK
<1>5. Head(todo).op \notin Group /\ Head(todo).op \notin {"take_mux", "release_mux", "clip"}
  BY <1>1 DEF Group
<1>6. todo' \in Seq(Call) /\ CountInv' /\ OneGoto(todo')
  BY <1>1, <1>5, DoneKeeps
<1>7. CodeInv'
  <2>1. CASE codeS = NoCode
    <3>1. nowTask' = "ScanQR"
      BY <1>1, <1>2, <2>1 DEF Inv, CodeInv
    <3> QED BY <1>1, <1>5, <3>1, DoneKeeps
  <2>2. CASE codeS # NoCode
    BY <1>1, <2>2 DEF CodeInv
  <2> QED BY <2>1, <2>2
<1>8. GotoInv'
  <2>1. Known(todo', nowTask')
    BY <1>1, GotoRest
  <2>2. CalibratKnows'
    BY <1>1, <1>2 DEF Known, CalibratKnows
  <2> QED BY <1>6, <2>1, <2>2 DEF GotoInv
<1>9. MuxInv'
  <2>1. MuxPlan(todo', mux, Held)
    BY <1>1, <1>5, MuxPlanRest DEF Inv, MuxInv
  <2> QED BY <1>1, <2>1 DEF MuxInv, Held
<1> QED BY <1>1, <1>4, <1>6, <1>7, <1>8, <1>9 DEF Inv, Types

\* One more of three.
LEMMA Advance ==
  ASSUME NEW n \in 0 .. 2, NEW a \in Nat, a >= 1, n + a = 3 \/ (n = 0 /\ a = 0)
  PROVE  /\ (n + 1) % 3 \in 0 .. 2
         /\ ((n + 1) % 3) + (a - 1) = 3 \/ ((n + 1) % 3 = 0 /\ a - 1 = 0)
<1>1. CASE n = 0
  BY <1>1
<1>2. CASE n = 1
  BY <1>2
<1>3. CASE n = 2
  BY <1>3
<1> QED BY <1>1, <1>2, <1>3

\* The calls an action group is replaced by count for nothing.
LEMMA ExpansionCount ==
  ASSUME NEW G, Expansion(G), NEW K, K \subseteq Group
  PROVE  Count(K, G) = 0
<1>1. G \in Seq(Call) /\ \A i \in 1 .. Len(G) : G[i].op \notin K
  BY DEF Expansion, Group
<1> QED BY <1>1, CountNone

\* A call that is about to be done is counted.
LEMMA FirstCounts ==
  ASSUME Inv, todo # <<>>, NEW K, Head(todo).op \in K
  PROVE  Count(K, todo) \in Nat /\ Count(K, todo) >= 1
<1>1. todo \in Seq(Call)
  BY DEF Inv, Types
<1>2. Count(K, todo) = Count(K, Tail(todo)) + 1 /\ Count(K, Tail(todo)) \in Nat
  BY <1>1, CountRest
<1> QED BY <1>2

\* What is counted is a number.
LEMMA CountsNat ==
  ASSUME Inv, NEW K
  PROVE  Count(K, todo) \in Nat
<1>1. todo \in Seq(Call) /\ <<>> \in Seq(Call)
  BY DEF Inv, Types
<1> QED BY <1>1, CountConcat

\* Ground_PutAction begins.
LEMMA StepPut ==
  ASSUME Inv, PutStep
  PROVE  Inv'
<1> DEFINE G == PutCalls(Head(todo).how, Head(todo).color, Head(todo).rotate)
<1>1. /\ todo # <<>> /\ Head(todo).op = "put" /\ todo' = G \o Tail(todo)
      /\ putCount' = (putCount + 1) % 3 /\ Types
      /\ UNCHANGED <<nowTask, oldTask, codeS, taskStart, carSta, takeCount, actionCount, oldValue,
                     mux, lift, rot, clip, plate, at, seen, place, arrived, wanted>>
  BY DEF Inv, PutStep, Calls, system, arm, world, car
<1>2. Expansion(G)
  <2>1. Head(todo) \in Call
    BY <1>1, Rest DEF Types
  <2>2. Head(todo).color \in Maybe /\ Head(todo).rotate \in BOOLEAN
    BY <1>1, <2>1, Arguments
  <2> QED BY <2>2, PutExpansion
<1> HIDE DEF G
<1>3. Head(todo).op \in Group /\ {"put"} \subseteq Group /\ {"ground_take"} \subseteq Group /\ Takes \subseteq Group
  BY <1>1 DEF Group, Takes
<1>4. /\ todo' \in Seq(Call) /\ CodeInv' /\ GotoInv' /\ MuxInv'
      /\ \A K : Count(K, todo') = Count(K, G) + Count(K, todo) - (IF Head(todo).op \in K THEN 1 ELSE 0)
  BY <1>1, <1>2, <1>3, GroupKeeps
<1>5. Count({"put"}, G) = 0 /\ Count({"ground_take"}, G) = 0 /\ Count(Takes, G) = 0
  BY <1>2, <1>3, ExpansionCount
<1>6. /\ Count({"put"}, todo) \in Nat /\ Count({"put"}, todo) >= 1
      /\ Count({"ground_take"}, todo) \in Nat /\ Count(Takes, todo) \in Nat
  BY <1>1, FirstCounts, CountsNat
<1>7. /\ Count({"put"}, todo') = Count({"put"}, todo) - 1
      /\ Count({"ground_take"}, todo') = Count({"ground_take"}, todo)
      /\ Count(Takes, todo') = Count(Takes, todo)
  <2>1. Head(todo).op \in {"put"} /\ Head(todo).op \notin {"ground_take"} /\ Head(todo).op \notin Takes
    BY <1>1 DEF Takes
  <2> QED BY <1>4, <1>5, <1>6, <2>1
<1>8. putCount \in 0 .. 2 /\ CountInv
  BY <1>1 DEF Inv, Types, TypeOK
<1>9. putCount' \in 0 .. 2 /\ Three(putCount, {"put"})'
  BY <1>1, <1>6, <1>7, <1>8, Advance DEF CountInv, Three
<1>10. CountInv'
  BY <1>1, <1>7, <1>8, <1>9 DEF CountInv, Three
<1>11. TypeOK'
  BY <1>1, <1>9 DEF Types, TypeOK
<1> QED BY <1>1, <1>4, <1>10, <1>11 DEF Inv, Types

\* Ground_TakeAction begins.
LEMMA StepGroundTake ==
  ASSUME Inv, GroundTakeStep
  PROVE  Inv'
<1> DEFINE G == GroundTakeCalls(Head(todo).color)
<1>1. /\ todo # <<>> /\ Head(todo).op = "ground_take" /\ todo' = G \o Tail(todo)
      /\ takeCount' = (takeCount + 1) % 3 /\ Types
      /\ UNCHANGED <<nowTask, oldTask, codeS, taskStart, carSta, putCount, actionCount, oldValue,
                     mux, lift, rot, clip, plate, at, seen, place, arrived, wanted>>
  BY DEF Inv, GroundTakeStep, Calls, system, arm, world, car
<1>2. Expansion(G)
  <2>1. Head(todo) \in Call
    BY <1>1, Rest DEF Types
  <2>2. Head(todo).color \in Color
    BY <1>1, <2>1, Arguments
  <2> QED BY <2>2, GroundTakeExpansion
<1> HIDE DEF G
<1>3. Head(todo).op \in Group /\ {"put"} \subseteq Group /\ {"ground_take"} \subseteq Group /\ Takes \subseteq Group
  BY <1>1 DEF Group, Takes
<1>4. /\ todo' \in Seq(Call) /\ CodeInv' /\ GotoInv' /\ MuxInv'
      /\ \A K : Count(K, todo') = Count(K, G) + Count(K, todo) - (IF Head(todo).op \in K THEN 1 ELSE 0)
  BY <1>1, <1>2, <1>3, GroupKeeps
<1>5. Count({"put"}, G) = 0 /\ Count({"ground_take"}, G) = 0 /\ Count(Takes, G) = 0
  BY <1>2, <1>3, ExpansionCount
<1>6. /\ Count({"ground_take"}, todo) \in Nat /\ Count({"ground_take"}, todo) >= 1
      /\ Count({"put"}, todo) \in Nat /\ Count(Takes, todo) \in Nat
  BY <1>1, FirstCounts, CountsNat
<1>7. /\ Count({"ground_take"}, todo') = Count({"ground_take"}, todo) - 1
      /\ Count({"put"}, todo') = Count({"put"}, todo)
      /\ Count(Takes, todo') = Count(Takes, todo)
  <2>1. Head(todo).op \in {"ground_take"} /\ Head(todo).op \notin {"put"} /\ Head(todo).op \notin Takes
    BY <1>1 DEF Takes
  <2> QED BY <1>4, <1>5, <1>6, <2>1
<1>8. takeCount \in 0 .. 2 /\ CountInv
  BY <1>1 DEF Inv, Types, TypeOK
<1>9. takeCount' \in 0 .. 2 /\ Three(takeCount, {"ground_take"})'
  BY <1>1, <1>6, <1>7, <1>8, Advance DEF CountInv, Three
<1>10. CountInv'
  BY <1>1, <1>7, <1>8, <1>9 DEF CountInv, Three
<1>11. TypeOK'
  BY <1>1, <1>9 DEF Types, TypeOK
<1> QED BY <1>1, <1>4, <1>10, <1>11 DEF Inv, Types

\* TakeRawMaterial begins.
LEMMA StepTakeRaw ==
  ASSUME Inv, TakeRawStep
  PROVE  Inv'
<1>1. /\ todo # <<>> /\ Head(todo).op = "take_raw" /\ todo' = TakeRawCalls \o Tail(todo)
      /\ actionCount' = (actionCount + 1) % 3 /\ seen' = Head(todo).color /\ Types
      /\ UNCHANGED <<nowTask, oldTask, codeS, taskStart, carSta, putCount, takeCount, oldValue,
                     mux, lift, rot, clip, plate, at, place, arrived, wanted>>
  BY DEF Inv, TakeRawStep, Calls, system, arm, car
<1>2. seen' \in Color
  <2>1. Head(todo) \in Call
    BY <1>1, Rest DEF Types
  <2> QED BY <1>1, <2>1, Arguments
<1>3. Head(todo).op \in Group /\ {"put"} \subseteq Group /\ {"ground_take"} \subseteq Group /\ Takes \subseteq Group
  BY <1>1 DEF Group, Takes
<1>4. Expansion(TakeRawCalls)
  BY <1>1, <1>3, GroupHasCode, TakeRawExpansion
<1>5. /\ todo' \in Seq(Call) /\ CodeInv' /\ GotoInv' /\ MuxInv'
      /\ \A K : Count(K, todo') = Count(K, TakeRawCalls) + Count(K, todo)
                                    - (IF Head(todo).op \in K THEN 1 ELSE 0)
  BY <1>1, <1>3, <1>4, GroupKeeps
<1>6. Count({"put"}, TakeRawCalls) = 0 /\ Count({"ground_take"}, TakeRawCalls) = 0 /\ Count(Takes, TakeRawCalls) = 0
  BY <1>3, <1>4, ExpansionCount
<1>7. Head(todo).op \in Takes
  BY <1>1 DEF Takes
<1>8. /\ Count(Takes, todo) \in Nat /\ Count(Takes, todo) >= 1
      /\ Count({"put"}, todo) \in Nat /\ Count({"ground_take"}, todo) \in Nat
  BY <1>1, <1>7, FirstCounts, CountsNat
<1>9. /\ Count(Takes, todo') = Count(Takes, todo) - 1
      /\ Count({"put"}, todo') = Count({"put"}, todo)
      /\ Count({"ground_take"}, todo') = Count({"ground_take"}, todo)
  BY <1>1, <1>5, <1>6, <1>7, <1>8
<1>10. actionCount \in 0 .. 2 /\ CountInv
  BY <1>1 DEF Inv, Types, TypeOK
<1>11. actionCount' \in 0 .. 2 /\ Three(actionCount, Takes)'
  BY <1>1, <1>8, <1>9, <1>10, Advance DEF CountInv, Three
<1>12. CountInv'
  BY <1>1, <1>9, <1>10, <1>11 DEF CountInv, Three
<1>13. TypeOK'
  BY <1>1, <1>2, <1>11 DEF Types, TypeOK
<1> QED BY <1>1, <1>5, <1>12, <1>13 DEF Inv, Types

\* A look of IdentifyColorTake makes calls that need the mutex, or turn the plate.
LEMMA TakesCalls ==
  ASSUME NEW P \in Seq(Call), \A i \in 1 .. Len(P) : P[i].op = "plate", NEW c \in Call, c.op \in Takes
  PROVE  LET G == P \o <<c>>
         IN  G \in Seq(Call) /\ \A i \in 1 .. Len(G) : G[i].op \in Group \cup {"plate"}
<1> DEFINE b == <<c>>
<1>1. b \in Seq(Call) /\ Len(b) = 1 /\ b[1] = c /\ Len(P) \in Nat
  OBVIOUS
<1> HIDE DEF b
<1>2. /\ P \o b \in Seq(Call) /\ Len(P \o b) = Len(P) + Len(b)
      /\ \A i \in 1 .. Len(P) + Len(b) : (P \o b)[i] = IF i <= Len(P) THEN P[i] ELSE b[i - Len(P)]
  BY <1>1, ConcatProperties
<1>3. \A i \in 1 .. Len(P \o b) : (i \in 1 .. Len(P) /\ (P \o b)[i] = P[i]) \/ (P \o b)[i] = c
  BY <1>1, <1>2
<1>4. c.op \in Group
  BY DEF Takes, Group
<1>5. P \o b \in Seq(Call) /\ \A i \in 1 .. Len(P \o b) : (P \o b)[i].op \in Group \cup {"plate"}
  BY <1>2, <1>3, <1>4
<1> QED BY <1>5 DEF b

\* The call that IdentifyColorTake begins with.
LEMMA IdentifyCalls ==
  ASSUME Inv, IdentifyStep
  PROVE  \E P \in Seq(Call) : \E c \in Call : /\ \A i \in 1 .. Len(P) : P[i].op = "plate"
                                              /\ c.op \in Takes /\ todo' = (P \o <<c>>) \o Tail(todo)
<1> DEFINE c == Look(Head(todo).update, Head(todo).color, Head(todo).update)
           P == <<>>
<1>1. Head(todo) \in Call /\ Head(todo).op = "identify"
  BY Rest DEF Inv, Types, IdentifyStep, Calls
<1>2. c \in Call /\ c.op \in Takes
  <2>1. Head(todo).color \in Color /\ Head(todo).update \in BOOLEAN
    BY <1>1, Arguments
  <2> QED BY <2>1, Calls2 DEF Look, Takes
<1>3. todo' = <<c>> \o Tail(todo)
  BY DEF IdentifyStep
<1> HIDE DEF c
<1>4. P \in Seq(Call) /\ (\A i \in 1 .. Len(P) : P[i].op = "plate") /\ P \o <<c>> = <<c>>
  <2>1. <<c>> \in Seq(Call)
    BY <1>2
  <2> QED BY <2>1
<1> HIDE DEF P
<1> QED BY <1>2, <1>3, <1>4

\* The calls of a round of its loop.
LEMMA LookCalls ==
  ASSUME Inv, LookStep
  PROVE  \E P \in Seq(Call) : \E c \in Call : /\ \A i \in 1 .. Len(P) : P[i].op = "plate"
                                              /\ c.op \in Takes /\ todo' = (P \o <<c>>) \o Tail(todo)
<1> DEFINE h == Head(todo)
           taken == /\ ~h.first
                    /\ IF directGrab THEN carSta # oldValue
                       ELSE carSta = h.color /\ (h.update => carSta # oldValue)
           P == IF taken /\ directGrab THEN <<MaterialPosition(carSta)>> ELSE <<>>
           c == IF taken THEN TakeRawMaterial(carSta) ELSE Look(h.update, h.color, FALSE)
<1>1. h \in Call /\ h.op = "look" /\ carSta \in Color
  BY Rest DEF Inv, Types, LookStep, Calls
<1>2. h.color \in Color /\ h.update \in BOOLEAN
  BY <1>1, Arguments
<1>3. c \in Call /\ c.op \in Takes
  <2>1. FALSE \in BOOLEAN
    OBVIOUS
  <2>2. TakeRawMaterial(carSta) \in Call /\ TakeRawMaterial(carSta).op \in Takes
    BY <1>1, Calls2 DEF TakeRawMaterial, Takes
  <2>3. Look(h.update, h.color, FALSE) \in Call
    BY <1>2, <2>1, Calls2
  <2>4. Look(h.update, h.color, FALSE).op \in Takes
    BY DEF Look, Takes
  <2> QED BY <2>2, <2>3, <2>4
<1>4. P \in Seq(Call) /\ \A i \in 1 .. Len(P) : P[i].op = "plate"
  <2>1. MaterialPosition(carSta) \in Call
    BY <1>1, Calls1 DEF Maybe
  <2> QED BY <2>1 DEF MaterialPosition
<1>5. todo' = (P \o <<c>>) \o Tail(todo)
  <2>1. CASE taken
    BY <2>1, Zenon DEF LookStep
  <2>2. CASE ~taken
    <3>1. todo' = <<c>> \o Tail(todo)
      BY <2>2, Zenon DEF LookStep
    <3>2. <<>> \o <<c>> = <<c>> /\ P = <<>>
      <4> HIDE DEF c
      <4>1. <<c>> \in Seq(Call)
        BY <1>3
      <4> QED BY <2>2, <4>1
    <3> QED BY <3>1, <3>2, Zenon
  <2> QED BY <2>1, <2>2
<1> HIDE DEF P, c
<1> QED BY <1>3, <1>4, <1>5

\* A call that takes is replaced by one that takes.
LEMMA TakesKept ==
  ASSUME Inv, todo # <<>>, Head(todo).op \in {"identify", "look"}, NEW c \in Call, c.op \in Takes,
         NEW P \in Seq(Call), \A i \in 1 .. Len(P) : P[i].op = "plate",
         todo' = (P \o <<c>>) \o Tail(todo),
         UNCHANGED <<nowTask, oldTask, codeS, mux, at, putCount, takeCount, actionCount>>
  PROVE  todo' \in Seq(Call) /\ CodeInv' /\ GotoInv' /\ MuxInv' /\ CountInv'
<1> DEFINE G == P \o <<c>>
<1>1. <<c>> \in Seq(Call) /\ \A K : Count(K, <<c>>) = IF c.op \in K THEN 1 ELSE 0
  BY CountOne
<1>2. /\ G \in Seq(Call)
      /\ \A i \in 1 .. Len(G) : G[i].op \in Group \cup {"plate"}
  BY TakesCalls
<1>3. ASSUME NEW K, "plate" \notin K PROVE Count(K, G) = IF c.op \in K THEN 1 ELSE 0
  <2>1. Count(K, P) = 0
    BY <1>3, CountNone
  <2>2. Count(K, P \o <<c>>) = Count(K, P) + Count(K, <<c>>)
    BY <1>1, CountConcat
  <2> QED BY <1>1, <2>1, <2>2
<1>4. todo' = G \o Tail(todo)
  OBVIOUS
<1> HIDE DEF G
<1>5. Head(todo).op \in Group /\ Head(todo).op \in Takes /\ Head(todo).op \notin {"put", "ground_take"}
      /\ c.op \notin {"put", "ground_take"} /\ "plate" \notin Takes
  BY DEF Group, Takes
<1>6. /\ todo' \in Seq(Call) /\ CodeInv' /\ GotoInv' /\ MuxInv'
      /\ \A K : Count(K, todo') = Count(K, G) + Count(K, todo) - (IF Head(todo).op \in K THEN 1 ELSE 0)
  BY <1>2, <1>4, <1>5, GroupKeeps
<1>7. Count({"put"}, G) = 0 /\ Count({"ground_take"}, G) = 0 /\ Count(Takes, G) = 1
  BY <1>3, <1>5
<1>8. Count({"put"}, todo) \in Nat /\ Count({"ground_take"}, todo) \in Nat /\ Count(Takes, todo) \in Nat
  BY CountsNat
<1>9. /\ Count({"put"}, todo') = Count({"put"}, todo)
      /\ Count({"ground_take"}, todo') = Count({"ground_take"}, todo)
      /\ Count(Takes, todo') = Count(Takes, todo)
  BY <1>5, <1>6, <1>7, <1>8
<1>10. CountInv'
  BY <1>9 DEF Inv, CountInv, Three
<1> QED BY <1>6, <1>10

\* IdentifyColorTake begins.
LEMMA StepIdentify ==
  ASSUME Inv, IdentifyStep
  PROVE  Inv'
<1>1. /\ todo # <<>> /\ Head(todo).op = "identify" /\ Types
      /\ carSta' = None /\ plate' = (IF directGrab THEN plate ELSE Head(todo).color)
      /\ UNCHANGED <<nowTask, oldTask, codeS, taskStart, putCount, takeCount, actionCount, oldValue,
                     mux, lift, rot, clip, at, seen, place, arrived, wanted>>
  BY DEF Inv, IdentifyStep, Calls, system, count, world, car
<1>2. Head(todo).color \in Color
  <2>1. Head(todo) \in Call
    BY <1>1, Rest DEF Types
  <2> QED BY <1>1, <2>1, Arguments
<1>3. PICK P \in Seq(Call), c \in Call : /\ \A i \in 1 .. Len(P) : P[i].op = "plate"
                                         /\ c.op \in Takes /\ todo' = (P \o <<c>>) \o Tail(todo)
  BY IdentifyCalls
<1>4. todo' \in Seq(Call) /\ CodeInv' /\ GotoInv' /\ MuxInv' /\ CountInv'
  BY <1>1, <1>3, TakesKept
<1>5. TypeOK'
  BY <1>1, <1>2 DEF Types, TypeOK
<1> QED BY <1>1, <1>4, <1>5 DEF Inv, Types

\* A round of the loop of IdentifyColorTake.
LEMMA StepLook ==
  ASSUME Inv, LookStep
  PROVE  Inv'
<1>1. /\ todo # <<>> /\ Head(todo).op = "look" /\ carSta \in Color /\ Types /\ oldValue' \in {carSta, oldValue}
      /\ UNCHANGED <<nowTask, oldTask, codeS, taskStart, carSta, putCount, takeCount, actionCount,
                     mux, lift, rot, clip, plate, at, seen, place, arrived, wanted>>
  BY DEF Inv, LookStep, Calls, system, arm, world, car
<1>2. PICK P \in Seq(Call), c \in Call : /\ \A i \in 1 .. Len(P) : P[i].op = "plate"
                                         /\ c.op \in Takes /\ todo' = (P \o <<c>>) \o Tail(todo)
  BY LookCalls
<1>3. todo' \in Seq(Call) /\ CodeInv' /\ GotoInv' /\ MuxInv' /\ CountInv'
  BY <1>1, <1>2, TakesKept
<1>4. TypeOK'
  BY <1>1 DEF Types, TypeOK
<1> QED BY <1>1, <1>3, <1>4 DEF Inv, Types
-----------------------------------------------------------------------------
\* Between two rounds nothing is begun.
LEMMA AtRest ==
  ASSUME Inv, todo = <<>>
  PROVE  putCount = 0 /\ takeCount = 0 /\ actionCount = 0 /\ ~Held
<1>1. <<>> \in Seq(Call) /\ Len(<<>>) = 0
  OBVIOUS
<1>2. Count({"put"}, todo) = 0 /\ Count({"ground_take"}, todo) = 0 /\ Count(Takes, todo) = 0
  <2>1. ASSUME NEW K PROVE Count(K, todo) = 0
    <3>1. todo \in Seq(Call) /\ \A i \in 1 .. Len(todo) : todo[i].op \notin K
      BY <1>1
    <3> QED BY <3>1, CountNone
  <2> QED BY <2>1
<1>3. putCount \in 0 .. 2 /\ takeCount \in 0 .. 2 /\ actionCount \in 0 .. 2
  BY DEF Inv, Types, TypeOK
<1>4. ~Held
  BY <1>1 DEF Inv, MuxInv, MuxPlan
<1> QED BY <1>2, <1>3, <1>4 DEF Inv, CountInv, Three

\* A round of the loop of MainCtrl begins.
LEMMA StepPoll ==
  ASSUME Inv, Poll
  PROVE  Inv'
<1>1. /\ todo = <<>> /\ Types
      /\ UNCHANGED <<nowTask, oldTask, codeS, taskStart, putCount, takeCount, actionCount, oldValue,
                     mux, lift, rot, clip, plate, at, seen, place, wanted>>
  BY DEF Inv, Poll, system, count, arm, world
<1>2. carSta' \in Byte \cup {None} /\ arrived' \in BOOLEAN
  BY <1>1 DEF Poll, Types, TypeOK
<1>3. Delay \in Call /\ <<Delay>> \in Seq(Call)
  BY Calls1
<1>4. Round(<<Delay>>, nowTask)
  <2> DEFINE s == <<Delay>>
  <2>1. /\ s \in Seq(Call) /\ OneGoto(s) /\ Known(s, nowTask)
        /\ \A i \in 1 .. Len(s) : s[i].op \notin Group /\ ~Closes(s[i])
    BY <1>3 DEF OneGoto, Known, Delay, Group, Closes
  <2> HIDE DEF s
  <2>2. Round(s, nowTask)
    BY <2>1, PlainRound
  <2> QED BY <2>2 DEF s
<1>5. Round(todo', nowTask)
  <2>1. CASE Missing(nowTask)
    BY <1>4, <2>1 DEF Poll
  <2>2. CASE ~Missing(nowTask)
    <3>1. codeS \in Code \/ nowTask \in {"TaskStart", "ScanQR"}
      BY DEF Inv, CodeInv, Types, TypeOK
    <3>2. Round(Body(nowTask), nowTask)
      BY <1>1, <3>1, BodyRound DEF Types, TypeOK
    <3> QED BY <2>2, <3>2, RoundDelay DEF Poll
  <2> QED BY <2>1, <2>2
<1>6. ASSUME codeS = NoCode
      PROVE  \A i \in 1 .. Len(todo') : /\ todo'[i].op \in {"order", "goto", "delay"}
                                        /\ todo'[i].op = "goto" => todo'[i].task = "ScanQR"
  <2>0. nowTask \in {"TaskStart", "ScanQR"}
    BY <1>6 DEF Inv, CodeInv
  <2>1. CASE Missing(nowTask)
    <3>1. todo' = <<Delay>>
      BY <2>1 DEF Poll
    <3> QED BY <3>1 DEF Delay
  <2>2. CASE ~Missing(nowTask)
    <3>1. nowTask = "TaskStart"
      BY <1>6, <2>0, <2>2 DEF Missing
    <3>2. Body("TaskStart") = <<SendOrderToCar(Raw), Goto("ScanQR")>>
      BY DEF Body
    <3>3. todo' = <<SendOrderToCar(Raw), Goto("ScanQR")>> \o <<Delay>>
      BY <2>2, <3>1, <3>2 DEF Poll
    <3> QED BY <3>3 DEF SendOrderToCar, Goto, Delay
  <2> QED BY <2>1, <2>2
<1>7. CodeInv'
  <2>1. codeS = NoCode => nowTask \in {"TaskStart", "ScanQR"}
    BY DEF Inv, CodeInv
  <2> QED BY <1>1, <1>6, <2>1 DEF CodeInv
<1>8. putCount = 0 /\ takeCount = 0 /\ actionCount = 0 /\ ~Held
  BY <1>1, AtRest
<1>9. CountInv'
  BY <1>1, <1>5, <1>8 DEF Round, CountInv, Three
<1>10. GotoInv'
  BY <1>1, <1>5 DEF Round, Inv, GotoInv, CalibratKnows
<1>11. MuxInv'
  <2>1. MuxPlan(todo', mux, FALSE)
    BY <1>5, RoundMuxPlan
  <2>2. Held' = FALSE
    BY <1>1, <1>8 DEF Held
  <2> QED BY <1>1, <2>1, <2>2 DEF MuxInv, MuxPlan
<1>12. TypeOK'
  BY <1>1, <1>2 DEF Types, TypeOK
<1>13. todo' \in Seq(Call)
  BY <1>5 DEF Round
<1> QED BY <1>1, <1>7, <1>9, <1>10, <1>11, <1>12, <1>13 DEF Inv, Types

\* What arrives by wire, and the keys.
LEMMA StepRest ==
  ASSUME Inv, Rece \/ Key \/ UNCHANGED vars
  PROVE  Inv'
<1>1. CASE ReceCarState_Wire \/ KeyStarted \/ KeyPersist \/ ReceTaskCode_Mult \/ UNCHANGED vars
  <2>1. UNCHANGED <<nowTask, oldTask, todo, putCount, takeCount, actionCount, oldValue, mux, lift,
                    rot, clip, plate, at, seen, place, arrived>>
    BY <1>1 DEF ReceCarState_Wire, KeyStarted, KeyPersist, ReceTaskCode_Mult, vars, system, count,
         arm, world, car
  <2>2. /\ codeS' \in Code \cup {NoCode} /\ (codeS' = NoCode => codeS = NoCode)
        /\ carSta' \in Byte \cup {None} /\ taskStart' \in BOOLEAN /\ wanted' \in BOOLEAN
    BY <1>1 DEF Inv, Types, TypeOK, ReceCarState_Wire, KeyStarted, KeyPersist, ReceTaskCode_Mult,
         vars, system
  <2>3. Types'
    BY <2>1, <2>2 DEF Inv, Types, TypeOK
  <2>4. CodeInv'
    BY <2>1, <2>2 DEF Inv, CodeInv
  <2>5. GotoInv' /\ CountInv' /\ MuxInv'
    BY <2>1 DEF Inv, GotoInv, CalibratKnows, CountInv, Three, MuxInv, Held
  <2> QED BY <2>3, <2>4, <2>5 DEF Inv
<1>2. CASE KeyShort
  <2>1. /\ todo # <<>> /\ Head(todo).op = "delay" /\ todo' = Tail(todo) /\ wanted' = TRUE /\ Types
        /\ UNCHANGED <<nowTask, oldTask, codeS, taskStart, carSta, putCount, takeCount, actionCount,
                       oldValue, mux, lift, rot, clip, plate, at, seen, place, arrived>>
    BY <1>2 DEF Inv, KeyShort, Calls, Done, system, count, arm, world, car
  <2>2. TypeOK'
    BY <2>1 DEF Types, TypeOK
  <2> QED BY <2>1, <2>2, PlainStep DEF Types, Held
<1> QED BY <1>1, <1>2 DEF Rece, Key

\* Every step keeps the invariant.
LEMMA StepInv == Inv /\ [Next]_vars => Inv'
<1> SUFFICES ASSUME Inv, [Next]_vars PROVE Inv'
  OBVIOUS
<1>1. CASE Step
  BY <1>1, StepArm, StepOrder, StepMux, StepClip, StepGoto, StepPut, StepGroundTake, StepTakeRaw,
     StepIdentify, StepLook, StepPoll DEF Step
<1>2. CASE Rece \/ Key \/ UNCHANGED vars
  BY <1>2, StepRest
<1> QED BY <1>1, <1>2 DEF Next

\* The invariant always holds.
LEMMA Invariance == Spec => []Inv
BY InitInv, StepInv, PTL DEF Spec

(***************************************************************************)
(* MainCtrl's variables fit together, for every set of task codes: the     *)
(* statics of Ground_PutAction, Ground_TakeAction and TakeRawMaterial are  *)
(* back at zero whenever a round of the thread's loop begins, so that the  *)
(* next task counts its three objects from the first; and calibration is   *)
(* entered only from a task it goes on from, so that the error of its      *)
(* switch (LCD_ERROR_EVENT) is never shown.                                *)
(***************************************************************************)
THEOREM MissionConsistent == Spec => []Consistent
<1>1. Inv => Consistent
  <2> SUFFICES ASSUME Inv PROVE Consistent
    OBVIOUS
  <2>1. CountsReset
    BY AtRest DEF CountsReset
  <2> QED BY <2>1 DEF Inv, Types, GotoInv, Consistent
<1> QED BY <1>1, Invariance, PTL

(***************************************************************************)
(* MainCtrl gives Action_mux away only with an empty clip, for every task  *)
(* code, every way of taking and every pressing of keys: a motion that a   *)
(* Bluetooth command asks for finds no object in the clip.                 *)
(***************************************************************************)
THEOREM MutexEmptyHanded == Spec => []EmptyHanded
<1>1. Inv => EmptyHanded
  <2>1. Inv => (Held => mux)
    BY DEF Inv, MuxInv, MuxPlan
  <2> QED BY <2>1 DEF EmptyHanded, Held
<1> QED BY <1>1, Invariance, PTL
-----------------------------------------------------------------------------
(***************************************************************************)
(* Where the calls that are left lead.  A view is what is known of the     *)
(* state before a call: the task, the statics, where the arm, the plate    *)
(* and the chassis are, what the clip holds and, but for DirectGrab, the   *)
(* last stop of every object.  Before says what a call needs, Effect what  *)
(* it leaves, of an action group as of a call that it makes.               *)
(***************************************************************************)
Stops == Sort!Stop

\* Nothing is known of oldValue.
Any == "any"

Who(t, o, m, n, a, e, y) ==
  [task |-> t, old |-> o, put |-> m, take |-> n, act |-> a, seen |-> e, last |-> y]
View(b, arm3, s, p, h, x) ==
  [who |-> b, arm |-> arm3, slot |-> s, place |-> p, hold |-> h, stop |-> x]

BatchOf(t) == IF t \in {"TakeRaw1", "TPRough1", "PutStag1"} THEN 1 ELSE 2
Area(t)    == IF t \in {"TPRough1", "TPRough2"} THEN "Rough" ELSE "Staging"
Piece(t, c) == [batch |-> BatchOf(t), color |-> c]
First(k, t) == k.code[BatchOf(t)][1]

\* Where an object of colour c is at each stop, and how often it was put down.
StopPlace(x, c) == CASE x = "raw" -> Raw
                     [] x \in {"plate1", "plate2"} -> OnPlate(c)
                     [] x = "rough" -> Ring("Rough", c)
                     [] x = "staging" -> Ring("Staging", c)
StopLegs(x) == CASE x = "raw" -> 0 [] x = "plate1" -> 1 [] x = "rough" -> 2
                 [] x = "plate2" -> 3 [] x = "staging" -> 4

\* What the open clip is over, and the colour of what it takes there.
Over(arm3, s, p) ==
  CASE arm3[2] = "Reset" /\ arm3[1] = "Stuff" -> OnPlate(s)
    [] arm3[2] = "Vision" /\ arm3[1] = "RawArea" -> Raw
    [] arm3[2] = "Vision" /\ arm3[1] \in {"Grab", "Places", "Stack"} -> p
    [] OTHER -> Floor
Grasped(v) ==
  IF Over(v.arm, v.slot, v.place) = Raw THEN v.who.seen ELSE Over(v.arm, v.slot, v.place)[2]

\* The object o is at x, its batch is on the way from x, and it is its batch's turn.
Movable(stop, o, x) ==
  /\ o \in Object /\ stop[o] = x /\ x \in Stops /\ x # "staging"
  /\ \A p \in Object :
       IF p.batch = o.batch THEN stop[p] \in {x, Sort!After(x)}
       ELSE stop[p] = IF o.batch = 1 THEN "raw" ELSE "staging"
MovedOn(k, stop, o) ==
  IF k.direct THEN stop ELSE [p \in Object |-> IF p = o THEN Sort!After(stop[p]) ELSE stop[p]]

\* Batch b is at x, the first has not left or the second has gone before.
AllAt(stop, b, x) ==
  \A p \in Object : stop[p] = IF p.batch = b THEN x ELSE IF b = 1 THEN "raw" ELSE "staging"

Free(v) == v.arm[3] # "Grasp"
Turnable(v) == v.arm[1] = "Reset" \/ (v.arm[1] = "Stuff" /\ v.arm[3] = "Release")

\* The field may be set up for another run.
Fresh(k, v) ==
  v.who.task = "TaskStart" =>
    Free(v) /\ (k.direct \/ AllAt(v.stop, 1, "raw") \/ AllAt(v.stop, 2, "staging"))

CanClose(k, v) ==
  LET c == Grasped(v) IN
  /\ Free(v) /\ c \in Color
  /\ Over(v.arm, v.slot, v.place) \in {Raw, OnPlate(c), Ring("Rough", c)}
  /\ Over(v.arm, v.slot, v.place) = Raw => v.who.task \in {"TakeRaw1", "TakeRaw2"}
  /\ ~k.direct => \E x \in Stops : /\ Movable(v.stop, Piece(v.who.task, c), x)
                                   /\ StopPlace(x, c) = Over(v.arm, v.slot, v.place)

CanOpen(k, v) ==
  LET c == v.hold IN
  ~Free(v) =>
    /\ c \in Color
    /\ Over(v.arm, v.slot, v.place) \in {OnPlate(c), Ring("Rough", c), Ring("Staging", c)}
    /\ ~k.direct =>
         \E x \in Stops :
           /\ Movable(v.stop, Piece(v.who.task, c), x)
           /\ StopPlace(Sort!After(x), c) = Over(v.arm, v.slot, v.place)
           /\ v.arm[1] = "Stack" <=> Sort!After(x) = "staging" /\ BatchOf(v.who.task) = 2

CanPut(k, c, v) ==
  /\ Free(v) /\ k.code # NoCode /\ v.arm[2] = "Reset"
  /\ v.who.task \in {"TPRough1", "TPRough2", "PutStag1", "PutStag2"}
  /\ v.slot \in Color /\ v.place = Ring(Area(v.who.task), v.slot)
  /\ c.how = IF v.who.task = "PutStag2" THEN "StackUp" ELSE "Normal"
  /\ v.who.put + 1 < 3 => c.color \in Color
  /\ c.rotate => v.who.put + 1 < 3 \/ v.who.task = "PutStag2"
  /\ ~k.direct => Movable(v.stop, Piece(v.who.task, v.slot),
                          IF Area(v.who.task) = "Rough" THEN "plate1" ELSE "plate2")

CanTake(k, v) ==
  /\ Free(v) /\ k.code # NoCode /\ v.arm[2] = "Vision" /\ v.who.task \in {"TPRough1", "TPRough2"}
  /\ v.slot \in Color /\ v.place = Ring("Rough", v.slot)
  /\ ~k.direct => Movable(v.stop, Piece(v.who.task, v.slot), "rough")

CanTakeRaw(k, c, v) ==
  /\ Free(v) /\ k.code # NoCode /\ v.arm[2] = "Vision" /\ v.who.task \in {"TakeRaw1", "TakeRaw2"}
  /\ ~k.direct => Movable(v.stop, Piece(v.who.task, c), "raw")

Before(k, c, v) ==
  /\ c.op = "rotate" => Turnable(v)
  /\ c.op = "lift" /\ c.pos \in {"Places", "Stack"} => v.arm[1] = "Reset" /\ v.arm[3] = "Grasp"
  /\ c.op = "goto" => Free(v)
  /\ c.op = "order" => Fresh(k, v)
  /\ Closes(c) => CanClose(k, v)
  /\ Opens(c) => CanOpen(k, v)
  /\ c.op = "put" => CanPut(k, c, v)
  /\ c.op = "ground_take" => CanTake(k, v)
  /\ c.op \in Takes => CanTakeRaw(k, c.color, v)
  /\ c.op = "take_raw" => /\ v.slot = c.color
                          /\ v.who.act = 0 /\ ~k.direct => v.who.last \notin {c.color, Any}
  /\ c.op \in {"look", "identify"} => (v.who.act = 0 => c.update)
  /\ c.op = "look" /\ ~k.direct => v.slot = c.color

\* With DirectGrab it is not known what was taken.
Told(k, c) == IF k.direct THEN None ELSE c
AfterTake(k, c, v) ==
  LET last == v.who.act + 1 >= 3 IN
  View(Who(v.who.task, v.who.old, v.who.put, v.who.take, (v.who.act + 1) % 3, Told(k, c), Any),
       IF last THEN <<"Stuff", "Reset", "Release">> ELSE <<"RawArea", "Vision", "Release">>,
       Told(k, c), IF last THEN Ring("Rough", First(k, v.who.task)) ELSE v.place, None,
       MovedOn(k, v.stop, Piece(v.who.task, c)))

AfterPut(k, c, v) ==
  LET more == v.who.put + 1 < 3
      t    == v.who.task IN
  View(Who(t, v.who.old, (v.who.put + 1) % 3, v.who.take, v.who.act, v.who.seen, v.who.last),
       <<IF more \/ t = "PutStag2" THEN "Reset" ELSE "Places",
         IF c.rotate THEN "Reset" ELSE "Vision", "Avoid">>,
       IF c.color \in Color THEN c.color ELSE v.slot,
       IF more THEN Ring(Area(t), c.color)
       ELSE CASE t = "PutStag1" -> Ring("Rough", "red")
              [] t = "PutStag2" -> Start
              [] OTHER -> Ring("Rough", c.color),
       None, MovedOn(k, v.stop, Piece(t, v.slot)))

AfterGroundTake(k, c, v) ==
  View(Who(v.who.task, v.who.old, v.who.put, (v.who.take + 1) % 3, v.who.act, v.who.seen, v.who.last),
       <<"Stuff", "Vision", "Release">>, c.color,
       Ring(IF v.who.take + 1 < 3 THEN "Rough" ELSE "Staging", c.color), None,
       MovedOn(k, v.stop, Piece(v.who.task, v.slot)))

AfterLift(c, v)   == View(v.who, <<c.pos, v.arm[2], v.arm[3]>>, v.slot, v.place, v.hold, v.stop)
AfterRotate(c, v) == View(v.who, <<v.arm[1], c.pos, v.arm[3]>>, v.slot, v.place, v.hold, v.stop)
AfterClose(v) == View(v.who, <<v.arm[1], v.arm[2], "Grasp">>, v.slot, v.place, Grasped(v), v.stop)
AfterOpen(k, c, v) ==
  View(v.who, <<v.arm[1], v.arm[2], c.state>>, v.slot, v.place, None,
       IF Free(v) THEN v.stop ELSE MovedOn(k, v.stop, Piece(v.who.task, v.hold)))
AfterPlate(c, v) ==
  View(v.who, v.arm, IF c.color \in Color THEN c.color ELSE v.slot, v.place, v.hold, v.stop)
AfterOrder(k, c, v) ==
  View(v.who, v.arm, v.slot, c.dest, v.hold,
       IF v.who.task = "TaskStart" /\ ~k.direct THEN [p \in Object |-> "raw"] ELSE v.stop)
AfterGoto(c, v) ==
  View(Who(c.task, IF c.keep THEN v.who.task ELSE v.who.old, v.who.put, v.who.take, v.who.act,
           v.who.seen, v.who.last),
       v.arm, v.slot, v.place, v.hold, v.stop)

Effect(k, c, v, w) ==
  /\ c.op = "lift" => w = AfterLift(c, v)
  /\ c.op = "rotate" => w = AfterRotate(c, v)
  /\ Closes(c) => w = AfterClose(v)
  /\ Opens(c) => w = AfterOpen(k, c, v)
  /\ c.op = "plate" => w = AfterPlate(c, v)
  /\ c.op = "order" => w = AfterOrder(k, c, v)
  /\ c.op = "goto" => w = AfterGoto(c, v)
  /\ c.op = "put" => w = AfterPut(k, c, v)
  /\ c.op = "ground_take" => w = AfterGroundTake(k, c, v)
  /\ c.op \in Takes => w = AfterTake(k, c.color, v)
  /\ c.op \in {"wait", "take_mux", "release_mux", "delay", "stop"} => w = v

\* Something of what is known is forgotten: what was taken, and oldValue.
Forget(k, v) ==
  View(Who(v.who.task, v.who.old, v.who.put, v.who.take, v.who.act, Told(k, v.who.seen), Any),
       v.arm, Told(k, v.slot), v.place, v.hold, v.stop)

\* Both batches are in the staging area when the machine waits to be home.
Staged(k, v) ==
  v.who.task = "Restart" => Free(v) /\ (~k.direct => AllAt(v.stop, 2, "staging"))

Leads(k, c, v, w) == Staged(k, v) /\ Before(k, c, v) /\ Effect(k, c, v, w)
Moves(k, c, v, w) == \E e : Leads(k, c, v, e) /\ w \in {e, Forget(k, e)}

\* The calls s lead from v to w.
Path(k, s, v, w) ==
  \E S : /\ S[1] = v /\ S[Len(s) + 1] = w
         /\ \A i \in 1 .. Len(s) : Moves(k, s[i], S[i], S[i + 1])
-----------------------------------------------------------------------------
\* No calls lead nowhere.
LEMMA PathNone ==
  ASSUME NEW k, NEW v, NEW w
  PROVE  Path(k, <<>>, v, w) <=> v = w
<1>1. Len(<<>>) = 0
  OBVIOUS
<1>2. Path(k, <<>>, v, w) => v = w
  BY <1>1 DEF Path
<1>3. ASSUME v = w PROVE Path(k, <<>>, v, w)
  <2> DEFINE S == [i \in {1} |-> v]
  <2>1. S[1] = v /\ S[Len(<<>>) + 1] = w /\ \A i \in 1 .. Len(<<>>) : Moves(k, <<>>[i], S[i], S[i + 1])
    BY <1>1, <1>3
  <2> HIDE DEF S
  <2> QED BY <2>1 DEF Path
<1> QED BY <1>2, <1>3

\* The first call and the rest.
LEMMA PathFirst ==
  ASSUME NEW k, NEW s \in Seq(Call), s # <<>>, NEW v, NEW u, Path(k, s, v, u)
  PROVE  \E w : Moves(k, Head(s), v, w) /\ Path(k, Tail(s), w, u)
<1>1. /\ Len(s) \in Nat \ {0} /\ Len(Tail(s)) = Len(s) - 1 /\ Head(s) = s[1]
      /\ \A i \in 1 .. Len(s) - 1 : Tail(s)[i] = s[i + 1]
  BY Rest
<1>2. PICK S : /\ S[1] = v /\ S[Len(s) + 1] = u
               /\ \A i \in 1 .. Len(s) : Moves(k, s[i], S[i], S[i + 1])
  BY DEF Path
<1> DEFINE R == [i \in 1 .. Len(s) |-> S[i + 1]]
           t == Tail(s)
<1>3. R[1] = S[2] /\ R[Len(t) + 1] = u
  BY <1>1, <1>2
<1>4. \A i \in 1 .. Len(t) : Moves(k, t[i], R[i], R[i + 1])
  <2> SUFFICES ASSUME NEW i \in 1 .. Len(t) PROVE Moves(k, t[i], R[i], R[i + 1])
    OBVIOUS
  <2>1. i + 1 \in 1 .. Len(s) /\ i \in 1 .. Len(s) /\ i \in 1 .. Len(s) - 1
    BY <1>1
  <2>2. R[i] = S[i + 1] /\ R[i + 1] = S[i + 2] /\ t[i] = s[i + 1] /\ (i + 1) + 1 = i + 2
    BY <1>1, <2>1
  <2>3. Moves(k, s[i + 1], S[i + 1], S[(i + 1) + 1])
    BY <1>2, <2>1
  <2> HIDE DEF R, t
  <2> QED BY <2>2, <2>3
<1>5. Path(k, t, S[2], u)
  <2> HIDE DEF R, t
  <2> QED BY <1>3, <1>4 DEF Path
<1>6. Moves(k, Head(s), v, S[2])
  <2>1. 1 \in 1 .. Len(s) /\ 1 + 1 = 2
    BY <1>1
  <2>2. Moves(k, s[1], S[1], S[1 + 1])
    BY <1>2, <2>1
  <2> QED BY <1>1, <1>2, <2>1, <2>2
<1> QED BY <1>5, <1>6

\* Calls after calls.
LEMMA PathConcat ==
  ASSUME NEW k, NEW a \in Seq(Call), NEW b \in Seq(Call), NEW v, NEW w, NEW u,
         Path(k, a, v, w), Path(k, b, w, u)
  PROVE  Path(k, a \o b, v, u)
<1> DEFINE s == a \o b
           m == Len(a)
           n == Len(b)
<1>1. /\ Len(s) = m + n /\ m \in Nat /\ n \in Nat
      /\ \A i \in 1 .. m + n : s[i] = IF i <= m THEN a[i] ELSE b[i - m]
  BY ConcatProperties
<1>2. PICK A : A[1] = v /\ A[m + 1] = w /\ \A i \in 1 .. m : Moves(k, a[i], A[i], A[i + 1])
  BY DEF Path
<1>3. PICK C : C[1] = w /\ C[n + 1] = u /\ \A i \in 1 .. n : Moves(k, b[i], C[i], C[i + 1])
  BY DEF Path
<1> DEFINE S == [i \in 1 .. m + n + 1 |-> IF i <= m THEN A[i] ELSE C[i - m]]
<1> HIDE DEF s, m, n
<1>4. S[1] = v
  <2>1. CASE m = 0
    BY <1>1, <1>2, <1>3, <2>1
  <2>2. CASE m > 0
    BY <1>1, <1>2, <2>2
  <2> QED BY <1>1, <2>1, <2>2
<1>5. S[Len(s) + 1] = u
  <2>1. m + n + 1 \in 1 .. m + n + 1 /\ ~(m + n + 1 <= m) /\ m + n + 1 - m = n + 1 /\ Len(s) + 1 = m + n + 1
    BY <1>1
  <2>2. S[m + n + 1] = C[m + n + 1 - m]
    BY <1>1, <2>1
  <2> HIDE DEF S
  <2> QED BY <1>3, <2>1, <2>2
<1>6. ASSUME NEW i \in 1 .. Len(s) PROVE Moves(k, s[i], S[i], S[i + 1])
  <2>0. i \in 1 .. m + n + 1 /\ i + 1 \in 1 .. m + n + 1 /\ i \in 1 .. m + n
    BY <1>1
  <2>1. CASE i <= m
    <3>1. i \in 1 .. m /\ s[i] = a[i] /\ S[i] = A[i]
      BY <1>1, <2>0, <2>1
    <3>2. S[i + 1] = A[i + 1]
      <4>1. CASE i < m
        BY <1>1, <2>0, <4>1
      <4>2. CASE i = m
        <5>1. ~(i + 1 <= m) /\ (i + 1) - m = 1
          BY <1>1, <4>2
        <5> QED BY <1>2, <1>3, <2>0, <4>2, <5>1
      <4> QED BY <1>1, <2>1, <4>1, <4>2
    <3> HIDE DEF S
    <3> QED BY <1>2, <3>1, <3>2
  <2>2. CASE i > m
    <3>1. i - m \in 1 .. n /\ ~(i <= m) /\ ~(i + 1 <= m) /\ (i + 1) - m = (i - m) + 1
      BY <1>1, <2>0, <2>2
    <3>2. s[i] = b[i - m] /\ S[i] = C[i - m] /\ S[i + 1] = C[(i - m) + 1]
      BY <1>1, <2>0, <3>1
    <3> HIDE DEF S
    <3> QED BY <1>3, <3>1, <3>2
  <2> QED BY <1>1, <2>0, <2>1, <2>2
<1>7. Path(k, s, v, u)
  <2> HIDE DEF S
  <2> QED BY <1>4, <1>5, <1>6 DEF Path
<1> QED BY <1>7 DEF s
-----------------------------------------------------------------------------
(***************************************************************************)
(* What the single calls need and leave.                                   *)
(***************************************************************************)
LEMMA LeadsMoves ==
  ASSUME NEW k, NEW c, NEW v, NEW w, Leads(k, c, v, w)
  PROVE  Moves(k, c, v, w) /\ Moves(k, c, v, Forget(k, w))
BY DEF Moves

\* The lift is where it is sent, to Places and Stack with an object and from the top.
LEMMA LiftLeads ==
  ASSUME NEW k, NEW b, NEW l, NEW r, NEW c, NEW s, NEW p, NEW h, NEW x, NEW pos, b.task # "Restart",
         pos \in {"Places", "Stack"} => l = "Reset" /\ c = "Grasp"
  PROVE  Leads(k, MotorMotion_Lift(pos), View(b, <<l, r, c>>, s, p, h, x), View(b, <<pos, r, c>>, s, p, h, x))
BY DEF Leads, Staged, Before, Effect, AfterLift, View, MotorMotion_Lift, Closes, Opens, Takes

\* The arm turns at the top, or above the plate with the clip wide open.
LEMMA RotateLeads ==
  ASSUME NEW k, NEW b, NEW l, NEW r, NEW c, NEW s, NEW p, NEW h, NEW x, NEW pos, b.task # "Restart",
         l = "Reset" \/ (l = "Stuff" /\ c = "Release")
  PROVE  Leads(k, MotorMotion_Rotate(pos), View(b, <<l, r, c>>, s, p, h, x), View(b, <<l, pos, c>>, s, p, h, x))
BY DEF Leads, Staged, Before, Effect, AfterRotate, View, MotorMotion_Rotate, Turnable, Closes, Opens, Takes

\* The plate turns to a colour, and stays for NoColor.
LEMMA PlateLeads ==
  ASSUME NEW k, NEW b, NEW a, NEW s, NEW p, NEW h, NEW x, NEW d, b.task # "Restart"
  PROVE  Leads(k, MaterialPosition(d), View(b, a, s, p, h, x),
               View(b, a, IF d \in Color THEN d ELSE s, p, h, x))
BY DEF Leads, Staged, Before, Effect, AfterPlate, View, MaterialPosition, Closes, Opens, Takes

\* The chassis is sent off; the field stays as it is.
LEMMA OrderLeads ==
  ASSUME NEW k, NEW b, NEW a, NEW s, NEW p, NEW h, NEW x, NEW d, b.task \notin {"Restart", "TaskStart"}
  PROVE  Leads(k, SendOrderToCar(d), View(b, a, s, p, h, x), View(b, a, s, d, h, x))
BY DEF Leads, Staged, Before, Effect, AfterOrder, View, SendOrderToCar, Fresh, Closes, Opens, Takes

\* What moves nothing leaves everything as it was.
LEMMA QuietLeads ==
  ASSUME NEW k, NEW v, NEW c \in {WaitArrive, MutexTake, MutexRelease, Delay, Stop}, Staged(k, v)
  PROVE  Leads(k, c, v, v)
BY DEF Leads, Before, Effect, WaitArrive, MutexTake, MutexRelease, Delay, Stop, Closes, Opens, Takes

\* The task changes, with an empty clip.
LEMMA GotoLeads ==
  ASSUME NEW k, NEW b, NEW l, NEW r, NEW c, NEW s, NEW p, NEW h, NEW x, NEW t, NEW keep,
         NEW g \in {[op |-> "goto", task |-> t, keep |-> keep]}, c # "Grasp",
         Staged(k, View(b, <<l, r, c>>, s, p, h, x))
  PROVE  Leads(k, g, View(b, <<l, r, c>>, s, p, h, x),
               View(Who(t, IF keep THEN b.task ELSE b.old, b.put, b.take, b.act, b.seen, b.last),
                    <<l, r, c>>, s, p, h, x))
BY DEF Leads, Before, Effect, AfterGoto, View, Who, Free, Closes, Opens, Takes

\* The clip that is empty opens.
LEMMA OpenLeads ==
  ASSUME NEW k, NEW b, NEW l, NEW r, NEW c, NEW s, NEW p, NEW h, NEW x, NEW st, b.task # "Restart",
         c # "Grasp", st # "Grasp"
  PROVE  Leads(k, ArmClipTakeState(st), View(b, <<l, r, c>>, s, p, h, x), View(b, <<l, r, st>>, s, p, None, x))
BY DEF Leads, Staged, Before, Effect, AfterOpen, View, ArmClipTakeState, CanOpen, Free, Closes, Opens, Takes

\* It takes an object from a slot, from the turntable or from a ring.
LEMMA GraspSlot ==
  ASSUME NEW k, NEW b, NEW c, NEW s \in Color, NEW p, NEW h, NEW x, b.task # "Restart", c # "Grasp",
         NEW y \in {"plate1", "plate2"}, ~k.direct => Movable(x, Piece(b.task, s), y)
  PROVE  Leads(k, ArmClipTakeState("Grasp"), View(b, <<"Stuff", "Reset", c>>, s, p, h, x),
               View(b, <<"Stuff", "Reset", "Grasp">>, s, p, s, x))
<1> DEFINE v == View(b, <<"Stuff", "Reset", c>>, s, p, h, x)
           g == ArmClipTakeState("Grasp")
<1>1. v.arm = <<"Stuff", "Reset", c>> /\ v.slot = s /\ v.place = p /\ v.stop = x /\ v.who = b
  BY DEF View
<1>2. Over(v.arm, v.slot, v.place) = OnPlate(s) /\ OnPlate(s) # Raw /\ OnPlate(s)[2] = s
  BY <1>1 DEF Over, OnPlate, Raw
<1>3. Grasped(v) = s
  BY <1>2 DEF Grasped
<1>4. CanClose(k, v)
  <2>1. ~k.direct => y \in Stops /\ Movable(v.stop, Piece(v.who.task, s), y) /\ StopPlace(y, s) = OnPlate(s)
    BY <1>1 DEF Movable, StopPlace
  <2> HIDE DEF v
  <2> QED BY <1>1, <1>2, <1>3, <2>1 DEF CanClose, Free
<1>5. Closes(g) /\ ~Opens(g) /\ g.op = "clip" /\ g.state = "Grasp"
  BY DEF Closes, Opens, ArmClipTakeState
<1>6. Staged(k, v) /\ Before(k, g, v)
  <2> HIDE DEF v, g
  <2> QED BY <1>1, <1>4, <1>5 DEF Staged, Before, Takes
<1>7. Effect(k, g, v, View(b, <<"Stuff", "Reset", "Grasp">>, s, p, s, x))
  <2> HIDE DEF v, g
  <2> QED BY <1>1, <1>3, <1>5 DEF Effect, AfterClose, Takes
<1> QED BY <1>6, <1>7 DEF Leads

\* It takes from the turntable the colour that was seen.
LEMMA GraspRaw ==
  ASSUME NEW k, NEW b, NEW c, NEW s, NEW p, NEW h, NEW x, b.task \in {"TakeRaw1", "TakeRaw2"}, c # "Grasp",
         b.seen \in Color, ~k.direct => Movable(x, Piece(b.task, b.seen), "raw")
  PROVE  Leads(k, ArmClipTakeState("Grasp"), View(b, <<"RawArea", "Vision", c>>, s, p, h, x),
               View(b, <<"RawArea", "Vision", "Grasp">>, s, p, b.seen, x))
<1> DEFINE v == View(b, <<"RawArea", "Vision", c>>, s, p, h, x)
           g == ArmClipTakeState("Grasp")
<1>1. v.arm = <<"RawArea", "Vision", c>> /\ v.slot = s /\ v.place = p /\ v.stop = x /\ v.who = b
  BY DEF View
<1>2. Over(v.arm, v.slot, v.place) = Raw
  BY <1>1 DEF Over
<1>3. Grasped(v) = b.seen
  BY <1>1, <1>2 DEF Grasped
<1>4. CanClose(k, v)
  <2>1. ~k.direct => /\ "raw" \in Stops /\ Movable(v.stop, Piece(v.who.task, b.seen), "raw")
                     /\ StopPlace("raw", b.seen) = Raw
    BY <1>1 DEF Movable, StopPlace
  <2> HIDE DEF v
  <2> QED BY <1>1, <1>2, <1>3, <2>1 DEF CanClose, Free
<1>5. Closes(g) /\ ~Opens(g) /\ g.op = "clip" /\ g.state = "Grasp"
  BY DEF Closes, Opens, ArmClipTakeState
<1>6. Staged(k, v) /\ Before(k, g, v)
  <2> HIDE DEF v, g
  <2> QED BY <1>1, <1>4, <1>5 DEF Staged, Before, Takes
<1>7. Effect(k, g, v, View(b, <<"RawArea", "Vision", "Grasp">>, s, p, b.seen, x))
  <2> HIDE DEF v, g
  <2> QED BY <1>1, <1>3, <1>5 DEF Effect, AfterClose, Takes
<1> QED BY <1>6, <1>7 DEF Leads

\* It takes from a ring of the rough area the colour the plate is at.
LEMMA GraspRing ==
  ASSUME NEW k, NEW b, NEW c, NEW s \in Color, NEW h, NEW x, b.task # "Restart", c # "Grasp",
         ~k.direct => Movable(x, Piece(b.task, s), "rough")
  PROVE  Leads(k, ArmClipTakeState("Grasp"), View(b, <<"Grab", "Vision", c>>, s, Ring("Rough", s), h, x),
               View(b, <<"Grab", "Vision", "Grasp">>, s, Ring("Rough", s), s, x))
<1> DEFINE v == View(b, <<"Grab", "Vision", c>>, s, Ring("Rough", s), h, x)
           g == ArmClipTakeState("Grasp")
<1>1. v.arm = <<"Grab", "Vision", c>> /\ v.slot = s /\ v.place = Ring("Rough", s) /\ v.stop = x /\ v.who = b
  BY DEF View
<1>2. Over(v.arm, v.slot, v.place) = Ring("Rough", s) /\ Ring("Rough", s) # Raw /\ Ring("Rough", s)[2] = s
  BY <1>1 DEF Over, Ring, Raw
<1>3. Grasped(v) = s
  BY <1>2 DEF Grasped
<1>4. CanClose(k, v)
  <2>1. ~k.direct => /\ "rough" \in Stops /\ Movable(v.stop, Piece(v.who.task, s), "rough")
                     /\ StopPlace("rough", s) = Ring("Rough", s)
    BY <1>1 DEF Movable, StopPlace
  <2> HIDE DEF v
  <2> QED BY <1>1, <1>2, <1>3, <2>1 DEF CanClose, Free
<1>5. Closes(g) /\ ~Opens(g) /\ g.op = "clip" /\ g.state = "Grasp"
  BY DEF Closes, Opens, ArmClipTakeState
<1>6. Staged(k, v) /\ Before(k, g, v)
  <2> HIDE DEF v, g
  <2> QED BY <1>1, <1>4, <1>5 DEF Staged, Before, Takes
<1>7. Effect(k, g, v, View(b, <<"Grab", "Vision", "Grasp">>, s, Ring("Rough", s), s, x))
  <2> HIDE DEF v, g
  <2> QED BY <1>1, <1>3, <1>5 DEF Effect, AfterClose, Takes
<1> QED BY <1>6, <1>7 DEF Leads

\* What the stops are called, and which comes after which.
LEMMA StopNames ==
  /\ Stops = {"raw", "plate1", "rough", "plate2", "staging"}
  /\ Sort!After("raw") = "plate1" /\ Sort!After("plate1") = "rough"
  /\ Sort!After("rough") = "plate2" /\ Sort!After("plate2") = "staging"
BY DEF Stops, Sort!Stop, Sort!After

\* It puts an object in a slot, or on a ring.
LEMMA DropSlot ==
  ASSUME NEW k, NEW b, NEW s \in Color, NEW p, NEW x, NEW st, b.task # "Restart", st # "Grasp",
         NEW y \in {"raw", "rough"}, ~k.direct => Movable(x, Piece(b.task, s), y)
  PROVE  Leads(k, ArmClipTakeState(st), View(b, <<"Stuff", "Reset", "Grasp">>, s, p, s, x),
               View(b, <<"Stuff", "Reset", st>>, s, p, None, MovedOn(k, x, Piece(b.task, s))))
<1> DEFINE v == View(b, <<"Stuff", "Reset", "Grasp">>, s, p, s, x)
           g == ArmClipTakeState(st)
<1>1. /\ v.arm = <<"Stuff", "Reset", "Grasp">> /\ v.slot = s /\ v.place = p /\ v.stop = x /\ v.who = b
      /\ v.hold = s
  BY DEF View
<1>2. Over(v.arm, v.slot, v.place) = OnPlate(s)
  BY <1>1 DEF Over
<1>3. CanOpen(k, v)
  <2>1. ~k.direct => /\ y \in Stops /\ Movable(v.stop, Piece(v.who.task, s), y)
                     /\ StopPlace(Sort!After(y), s) = OnPlate(s) /\ Sort!After(y) # "staging"
    BY <1>1, StopNames DEF StopPlace
  <2> HIDE DEF v
  <2> QED BY <1>1, <1>2, <2>1 DEF CanOpen
<1>4. ~Closes(g) /\ Opens(g) /\ g.op = "clip" /\ g.state = st
  BY DEF Closes, Opens, ArmClipTakeState
<1>5. Staged(k, v) /\ Before(k, g, v)
  <2> HIDE DEF v, g
  <2> QED BY <1>1, <1>3, <1>4 DEF Staged, Before, Takes
<1>6. Effect(k, g, v, View(b, <<"Stuff", "Reset", st>>, s, p, None, MovedOn(k, x, Piece(b.task, s))))
  <2> HIDE DEF v, g
  <2> QED BY <1>1, <1>4 DEF Effect, AfterOpen, Free, Takes
<1> QED BY <1>5, <1>6 DEF Leads

\* It puts down on a ring what came from the plate.
LEMMA DropRing ==
  ASSUME NEW k, NEW b, NEW s, NEW d \in Color, NEW x, NEW st, st # "Grasp",
         b.task \in {"TPRough1", "TPRough2", "PutStag1", "PutStag2"}, NEW l,
         l = IF b.task = "PutStag2" THEN "Stack" ELSE "Places",
         ~k.direct => Movable(x, Piece(b.task, d), IF Area(b.task) = "Rough" THEN "plate1" ELSE "plate2")
  PROVE  Leads(k, ArmClipTakeState(st), View(b, <<l, "Vision", "Grasp">>, s, Ring(Area(b.task), d), d, x),
               View(b, <<l, "Vision", st>>, s, Ring(Area(b.task), d), None, MovedOn(k, x, Piece(b.task, d))))
<1> DEFINE p == Ring(Area(b.task), d)
           v == View(b, <<l, "Vision", "Grasp">>, s, p, d, x)
           g == ArmClipTakeState(st)
           y == IF Area(b.task) = "Rough" THEN "plate1" ELSE "plate2"
<1>1. /\ v.arm = <<l, "Vision", "Grasp">> /\ v.slot = s /\ v.place = p /\ v.stop = x /\ v.who = b
      /\ v.hold = d
  BY DEF View
<1>2. Over(v.arm, v.slot, v.place) = p /\ p \in {OnPlate(d), Ring("Rough", d), Ring("Staging", d)}
  BY <1>1 DEF Over, Area
<1>3. CanOpen(k, v)
  <2>1. ~k.direct => /\ y \in Stops /\ Movable(v.stop, Piece(v.who.task, d), y)
                     /\ StopPlace(Sort!After(y), d) = p
    BY <1>1, StopNames DEF StopPlace, Area
  <2>2. l = "Stack" <=> Sort!After(y) = "staging" /\ BatchOf(b.task) = 2
    BY StopNames DEF Area, BatchOf
  <2> HIDE DEF v, y, p
  <2> QED BY <1>1, <1>2, <2>1, <2>2 DEF CanOpen
<1>4. ~Closes(g) /\ Opens(g) /\ g.op = "clip" /\ g.state = st
  BY DEF Closes, Opens, ArmClipTakeState
<1>5. Staged(k, v) /\ Before(k, g, v)
  <2> HIDE DEF v, g, p
  <2> QED BY <1>1, <1>3, <1>4 DEF Staged, Before, Takes
<1>6. Effect(k, g, v, View(b, <<l, "Vision", st>>, s, p, None, MovedOn(k, x, Piece(b.task, d))))
  <2> HIDE DEF v, g, p
  <2> QED BY <1>1, <1>4 DEF Effect, AfterOpen, Free, Takes
<1> QED BY <1>5, <1>6 DEF Leads
-----------------------------------------------------------------------------
\* Short rows of calls.
LEMMA Path1 ==
  ASSUME NEW k, NEW c1,
         NEW v0, NEW v1,
         Moves(k, c1, v0, v1)
  PROVE  Path(k, <<c1>>, v0, v1)
<1> DEFINE s == <<c1>>
           S == <<v0, v1>>
<1>1. /\ Len(s) = 1 /\ S[1] = v0 /\ S[2] = v1
      /\ s[1] = c1 /\ S[1] = v0 /\ S[2] = v1
  OBVIOUS
<1> HIDE DEF s, S
<1>2. \A i \in 1 .. 1 : Moves(k, s[i], S[i], S[i + 1])
  <2>1. Moves(k, s[1], S[1], S[1 + 1])
    BY <1>1
  <2> QED BY <2>1
<1>3. Path(k, s, v0, v1)
  BY <1>1, <1>2 DEF Path
<1> QED BY <1>3 DEF s

\* Two calls.
LEMMA Path2 ==
  ASSUME NEW k, NEW c1, NEW c2,
         NEW v0, NEW v1, NEW v2,
         Moves(k, c1, v0, v1), Moves(k, c2, v1, v2)
  PROVE  Path(k, <<c1, c2>>, v0, v2)
<1> DEFINE s == <<c1, c2>>
           S == <<v0, v1, v2>>
<1>1. /\ Len(s) = 2 /\ S[1] = v0 /\ S[3] = v2
      /\ s[1] = c1 /\ S[1] = v0 /\ S[2] = v1
      /\ s[2] = c2 /\ S[2] = v1 /\ S[3] = v2
  OBVIOUS
<1> HIDE DEF s, S
<1>2. \A i \in 1 .. 2 : Moves(k, s[i], S[i], S[i + 1])
  <2>1. Moves(k, s[1], S[1], S[1 + 1])
    BY <1>1
  <2>2. Moves(k, s[2], S[2], S[2 + 1])
    BY <1>1
  <2> QED BY <2>1, <2>2
<1>3. Path(k, s, v0, v2)
  BY <1>1, <1>2 DEF Path
<1> QED BY <1>3 DEF s

\* Three calls.
LEMMA Path3 ==
  ASSUME NEW k, NEW c1, NEW c2, NEW c3,
         NEW v0, NEW v1, NEW v2, NEW v3,
         Moves(k, c1, v0, v1), Moves(k, c2, v1, v2), Moves(k, c3, v2, v3)
  PROVE  Path(k, <<c1, c2, c3>>, v0, v3)
<1> DEFINE s == <<c1, c2, c3>>
           S == <<v0, v1, v2, v3>>
<1>1. /\ Len(s) = 3 /\ S[1] = v0 /\ S[4] = v3
      /\ s[1] = c1 /\ S[1] = v0 /\ S[2] = v1
      /\ s[2] = c2 /\ S[2] = v1 /\ S[3] = v2
      /\ s[3] = c3 /\ S[3] = v2 /\ S[4] = v3
  OBVIOUS
<1> HIDE DEF s, S
<1>2. \A i \in 1 .. 3 : Moves(k, s[i], S[i], S[i + 1])
  <2>1. Moves(k, s[1], S[1], S[1 + 1])
    BY <1>1
  <2>2. Moves(k, s[2], S[2], S[2 + 1])
    BY <1>1
  <2>3. Moves(k, s[3], S[3], S[3 + 1])
    BY <1>1
  <2> QED BY <2>1, <2>2, <2>3
<1>3. Path(k, s, v0, v3)
  BY <1>1, <1>2 DEF Path
<1> QED BY <1>3 DEF s

\* Four calls.
LEMMA Path4 ==
  ASSUME NEW k, NEW c1, NEW c2, NEW c3, NEW c4,
         NEW v0, NEW v1, NEW v2, NEW v3, NEW v4,
         Moves(k, c1, v0, v1), Moves(k, c2, v1, v2), Moves(k, c3, v2, v3), Moves(k, c4, v3, v4)
  PROVE  Path(k, <<c1, c2, c3, c4>>, v0, v4)
<1> DEFINE s == <<c1, c2, c3, c4>>
           S == <<v0, v1, v2, v3, v4>>
<1>1. /\ Len(s) = 4 /\ S[1] = v0 /\ S[5] = v4
      /\ s[1] = c1 /\ S[1] = v0 /\ S[2] = v1
      /\ s[2] = c2 /\ S[2] = v1 /\ S[3] = v2
      /\ s[3] = c3 /\ S[3] = v2 /\ S[4] = v3
      /\ s[4] = c4 /\ S[4] = v3 /\ S[5] = v4
  OBVIOUS
<1> HIDE DEF s, S
<1>2. \A i \in 1 .. 4 : Moves(k, s[i], S[i], S[i + 1])
  <2>1. Moves(k, s[1], S[1], S[1 + 1])
    BY <1>1
  <2>2. Moves(k, s[2], S[2], S[2 + 1])
    BY <1>1
  <2>3. Moves(k, s[3], S[3], S[3 + 1])
    BY <1>1
  <2>4. Moves(k, s[4], S[4], S[4 + 1])
    BY <1>1
  <2> QED BY <2>1, <2>2, <2>3, <2>4
<1>3. Path(k, s, v0, v4)
  BY <1>1, <1>2 DEF Path
<1> QED BY <1>3 DEF s

\* Five calls.
LEMMA Path5 ==
  ASSUME NEW k, NEW c1, NEW c2, NEW c3, NEW c4, NEW c5,
         NEW v0, NEW v1, NEW v2, NEW v3, NEW v4, NEW v5,
         Moves(k, c1, v0, v1), Moves(k, c2, v1, v2), Moves(k, c3, v2, v3), Moves(k, c4, v3, v4),
         Moves(k, c5, v4, v5)
  PROVE  Path(k, <<c1, c2, c3, c4, c5>>, v0, v5)
<1> DEFINE s == <<c1, c2, c3, c4, c5>>
           S == <<v0, v1, v2, v3, v4, v5>>
<1>1. /\ Len(s) = 5 /\ S[1] = v0 /\ S[6] = v5
      /\ s[1] = c1 /\ S[1] = v0 /\ S[2] = v1
      /\ s[2] = c2 /\ S[2] = v1 /\ S[3] = v2
      /\ s[3] = c3 /\ S[3] = v2 /\ S[4] = v3
      /\ s[4] = c4 /\ S[4] = v3 /\ S[5] = v4
      /\ s[5] = c5 /\ S[5] = v4 /\ S[6] = v5
  OBVIOUS
<1> HIDE DEF s, S
<1>2. \A i \in 1 .. 5 : Moves(k, s[i], S[i], S[i + 1])
  <2>1. Moves(k, s[1], S[1], S[1 + 1])
    BY <1>1
  <2>2. Moves(k, s[2], S[2], S[2 + 1])
    BY <1>1
  <2>3. Moves(k, s[3], S[3], S[3 + 1])
    BY <1>1
  <2>4. Moves(k, s[4], S[4], S[4 + 1])
    BY <1>1
  <2>5. Moves(k, s[5], S[5], S[5 + 1])
    BY <1>1
  <2> QED BY <2>1, <2>2, <2>3, <2>4, <2>5
<1>3. Path(k, s, v0, v5)
  BY <1>1, <1>2 DEF Path
<1> QED BY <1>3 DEF s

\* Six calls.
LEMMA Path6 ==
  ASSUME NEW k, NEW c1, NEW c2, NEW c3, NEW c4, NEW c5, NEW c6,
         NEW v0, NEW v1, NEW v2, NEW v3, NEW v4, NEW v5, NEW v6,
         Moves(k, c1, v0, v1), Moves(k, c2, v1, v2), Moves(k, c3, v2, v3), Moves(k, c4, v3, v4),
         Moves(k, c5, v4, v5), Moves(k, c6, v5, v6)
  PROVE  Path(k, <<c1, c2, c3, c4, c5, c6>>, v0, v6)
<1> DEFINE s == <<c1, c2, c3, c4, c5, c6>>
           S == <<v0, v1, v2, v3, v4, v5, v6>>
<1>1. /\ Len(s) = 6 /\ S[1] = v0 /\ S[7] = v6
      /\ s[1] = c1 /\ S[1] = v0 /\ S[2] = v1
      /\ s[2] = c2 /\ S[2] = v1 /\ S[3] = v2
      /\ s[3] = c3 /\ S[3] = v2 /\ S[4] = v3
      /\ s[4] = c4 /\ S[4] = v3 /\ S[5] = v4
      /\ s[5] = c5 /\ S[5] = v4 /\ S[6] = v5
      /\ s[6] = c6 /\ S[6] = v5 /\ S[7] = v6
  OBVIOUS
<1> HIDE DEF s, S
<1>2. \A i \in 1 .. 6 : Moves(k, s[i], S[i], S[i + 1])
  <2>1. Moves(k, s[1], S[1], S[1 + 1])
    BY <1>1
  <2>2. Moves(k, s[2], S[2], S[2 + 1])
    BY <1>1
  <2>3. Moves(k, s[3], S[3], S[3 + 1])
    BY <1>1
  <2>4. Moves(k, s[4], S[4], S[4 + 1])
    BY <1>1
  <2>5. Moves(k, s[5], S[5], S[5 + 1])
    BY <1>1
  <2>6. Moves(k, s[6], S[6], S[6 + 1])
    BY <1>1
  <2> QED BY <2>1, <2>2, <2>3, <2>4, <2>5, <2>6
<1>3. Path(k, s, v0, v6)
  BY <1>1, <1>2 DEF Path
<1> QED BY <1>3 DEF s

\* Seven calls.
LEMMA Path7 ==
  ASSUME NEW k, NEW c1, NEW c2, NEW c3, NEW c4, NEW c5, NEW c6, NEW c7,
         NEW v0, NEW v1, NEW v2, NEW v3, NEW v4, NEW v5, NEW v6, NEW v7,
         Moves(k, c1, v0, v1), Moves(k, c2, v1, v2), Moves(k, c3, v2, v3), Moves(k, c4, v3, v4),
         Moves(k, c5, v4, v5), Moves(k, c6, v5, v6), Moves(k, c7, v6, v7)
  PROVE  Path(k, <<c1, c2, c3, c4, c5, c6, c7>>, v0, v7)
<1> DEFINE s == <<c1, c2, c3, c4, c5, c6, c7>>
           S == <<v0, v1, v2, v3, v4, v5, v6, v7>>
<1>1. /\ Len(s) = 7 /\ S[1] = v0 /\ S[8] = v7
      /\ s[1] = c1 /\ S[1] = v0 /\ S[2] = v1
      /\ s[2] = c2 /\ S[2] = v1 /\ S[3] = v2
      /\ s[3] = c3 /\ S[3] = v2 /\ S[4] = v3
      /\ s[4] = c4 /\ S[4] = v3 /\ S[5] = v4
      /\ s[5] = c5 /\ S[5] = v4 /\ S[6] = v5
      /\ s[6] = c6 /\ S[6] = v5 /\ S[7] = v6
      /\ s[7] = c7 /\ S[7] = v6 /\ S[8] = v7
  OBVIOUS
<1> HIDE DEF s, S
<1>2. \A i \in 1 .. 7 : Moves(k, s[i], S[i], S[i + 1])
  <2>1. Moves(k, s[1], S[1], S[1 + 1])
    BY <1>1
  <2>2. Moves(k, s[2], S[2], S[2 + 1])
    BY <1>1
  <2>3. Moves(k, s[3], S[3], S[3 + 1])
    BY <1>1
  <2>4. Moves(k, s[4], S[4], S[4 + 1])
    BY <1>1
  <2>5. Moves(k, s[5], S[5], S[5 + 1])
    BY <1>1
  <2>6. Moves(k, s[6], S[6], S[6 + 1])
    BY <1>1
  <2>7. Moves(k, s[7], S[7], S[7 + 1])
    BY <1>1
  <2> QED BY <2>1, <2>2, <2>3, <2>4, <2>5, <2>6, <2>7
<1>3. Path(k, s, v0, v7)
  BY <1>1, <1>2 DEF Path
<1> QED BY <1>3 DEF s

\* Eleven calls.
LEMMA Path11 ==
  ASSUME NEW k, NEW c1, NEW c2, NEW c3, NEW c4, NEW c5, NEW c6, NEW c7, NEW c8, NEW c9, NEW c10, NEW c11,
         NEW v0, NEW v1, NEW v2, NEW v3, NEW v4, NEW v5, NEW v6, NEW v7, NEW v8, NEW v9, NEW v10,
         NEW v11,
         Moves(k, c1, v0, v1), Moves(k, c2, v1, v2), Moves(k, c3, v2, v3), Moves(k, c4, v3, v4),
         Moves(k, c5, v4, v5), Moves(k, c6, v5, v6), Moves(k, c7, v6, v7), Moves(k, c8, v7, v8),
         Moves(k, c9, v8, v9), Moves(k, c10, v9, v10), Moves(k, c11, v10, v11)
  PROVE  Path(k, <<c1, c2, c3, c4, c5, c6, c7, c8, c9, c10, c11>>, v0, v11)
<1> DEFINE s == <<c1, c2, c3, c4, c5, c6, c7, c8, c9, c10, c11>>
           S == <<v0, v1, v2, v3, v4, v5, v6, v7, v8, v9, v10, v11>>
<1>1. /\ Len(s) = 11 /\ S[1] = v0 /\ S[12] = v11
      /\ s[1] = c1 /\ S[1] = v0 /\ S[2] = v1
      /\ s[2] = c2 /\ S[2] = v1 /\ S[3] = v2
      /\ s[3] = c3 /\ S[3] = v2 /\ S[4] = v3
      /\ s[4] = c4 /\ S[4] = v3 /\ S[5] = v4
      /\ s[5] = c5 /\ S[5] = v4 /\ S[6] = v5
      /\ s[6] = c6 /\ S[6] = v5 /\ S[7] = v6
      /\ s[7] = c7 /\ S[7] = v6 /\ S[8] = v7
      /\ s[8] = c8 /\ S[8] = v7 /\ S[9] = v8
      /\ s[9] = c9 /\ S[9] = v8 /\ S[10] = v9
      /\ s[10] = c10 /\ S[10] = v9 /\ S[11] = v10
      /\ s[11] = c11 /\ S[11] = v10 /\ S[12] = v11
  OBVIOUS
<1> HIDE DEF s, S
<1>2. \A i \in 1 .. 11 : Moves(k, s[i], S[i], S[i + 1])
  <2>1. Moves(k, s[1], S[1], S[1 + 1])
    BY <1>1
  <2>2. Moves(k, s[2], S[2], S[2 + 1])
    BY <1>1
  <2>3. Moves(k, s[3], S[3], S[3 + 1])
    BY <1>1
  <2>4. Moves(k, s[4], S[4], S[4 + 1])
    BY <1>1
  <2>5. Moves(k, s[5], S[5], S[5 + 1])
    BY <1>1
  <2>6. Moves(k, s[6], S[6], S[6 + 1])
    BY <1>1
  <2>7. Moves(k, s[7], S[7], S[7 + 1])
    BY <1>1
  <2>8. Moves(k, s[8], S[8], S[8 + 1])
    BY <1>1
  <2>9. Moves(k, s[9], S[9], S[9 + 1])
    BY <1>1
  <2>10. Moves(k, s[10], S[10], S[10 + 1])
    BY <1>1
  <2>11. Moves(k, s[11], S[11], S[11 + 1])
    BY <1>1
  <2> QED BY <2>1, <2>2, <2>3, <2>4, <2>5, <2>6, <2>7, <2>8, <2>9, <2>10, <2>11
<1>3. Path(k, s, v0, v11)
  BY <1>1, <1>2 DEF Path
<1> QED BY <1>3 DEF s

\* Thirteen calls.
LEMMA Path13 ==
  ASSUME NEW k, NEW c1, NEW c2, NEW c3, NEW c4, NEW c5, NEW c6, NEW c7, NEW c8, NEW c9, NEW c10, NEW c11,
         NEW c12, NEW c13,
         NEW v0, NEW v1, NEW v2, NEW v3, NEW v4, NEW v5, NEW v6, NEW v7, NEW v8, NEW v9, NEW v10,
         NEW v11, NEW v12, NEW v13,
         Moves(k, c1, v0, v1), Moves(k, c2, v1, v2), Moves(k, c3, v2, v3), Moves(k, c4, v3, v4),
         Moves(k, c5, v4, v5), Moves(k, c6, v5, v6), Moves(k, c7, v6, v7), Moves(k, c8, v7, v8),
         Moves(k, c9, v8, v9), Moves(k, c10, v9, v10), Moves(k, c11, v10, v11),
         Moves(k, c12, v11, v12), Moves(k, c13, v12, v13)
  PROVE  Path(k, <<c1, c2, c3, c4, c5, c6, c7, c8, c9, c10, c11, c12, c13>>, v0, v13)
<1> DEFINE s == <<c1, c2, c3, c4, c5, c6, c7, c8, c9, c10, c11, c12, c13>>
           S == <<v0, v1, v2, v3, v4, v5, v6, v7, v8, v9, v10, v11, v12, v13>>
<1>1. /\ Len(s) = 13 /\ S[1] = v0 /\ S[14] = v13
      /\ s[1] = c1 /\ S[1] = v0 /\ S[2] = v1
      /\ s[2] = c2 /\ S[2] = v1 /\ S[3] = v2
      /\ s[3] = c3 /\ S[3] = v2 /\ S[4] = v3
      /\ s[4] = c4 /\ S[4] = v3 /\ S[5] = v4
      /\ s[5] = c5 /\ S[5] = v4 /\ S[6] = v5
      /\ s[6] = c6 /\ S[6] = v5 /\ S[7] = v6
      /\ s[7] = c7 /\ S[7] = v6 /\ S[8] = v7
      /\ s[8] = c8 /\ S[8] = v7 /\ S[9] = v8
      /\ s[9] = c9 /\ S[9] = v8 /\ S[10] = v9
      /\ s[10] = c10 /\ S[10] = v9 /\ S[11] = v10
      /\ s[11] = c11 /\ S[11] = v10 /\ S[12] = v11
      /\ s[12] = c12 /\ S[12] = v11 /\ S[13] = v12
      /\ s[13] = c13 /\ S[13] = v12 /\ S[14] = v13
  OBVIOUS
<1> HIDE DEF s, S
<1>2. \A i \in 1 .. 13 : Moves(k, s[i], S[i], S[i + 1])
  <2>1. Moves(k, s[1], S[1], S[1 + 1])
    BY <1>1
  <2>2. Moves(k, s[2], S[2], S[2 + 1])
    BY <1>1
  <2>3. Moves(k, s[3], S[3], S[3 + 1])
    BY <1>1
  <2>4. Moves(k, s[4], S[4], S[4 + 1])
    BY <1>1
  <2>5. Moves(k, s[5], S[5], S[5 + 1])
    BY <1>1
  <2>6. Moves(k, s[6], S[6], S[6 + 1])
    BY <1>1
  <2>7. Moves(k, s[7], S[7], S[7 + 1])
    BY <1>1
  <2>8. Moves(k, s[8], S[8], S[8 + 1])
    BY <1>1
  <2>9. Moves(k, s[9], S[9], S[9 + 1])
    BY <1>1
  <2>10. Moves(k, s[10], S[10], S[10 + 1])
    BY <1>1
  <2>11. Moves(k, s[11], S[11], S[11 + 1])
    BY <1>1
  <2>12. Moves(k, s[12], S[12], S[12 + 1])
    BY <1>1
  <2>13. Moves(k, s[13], S[13], S[13 + 1])
    BY <1>1
  <2> QED BY <2>1, <2>2, <2>3, <2>4, <2>5, <2>6, <2>7, <2>8, <2>9, <2>10, <2>11, <2>12, <2>13
<1>3. Path(k, s, v0, v13)
  BY <1>1, <1>2 DEF Path
<1> QED BY <1>3 DEF s

-----------------------------------------------------------------------------
(***************************************************************************)
(* The calls of an action group lead where the group does.                 *)
(***************************************************************************)

\* One call, led somewhere.
LEMMA PathLead ==
  ASSUME NEW k, NEW c, NEW v, NEW w, Leads(k, c, v, w)
  PROVE  Path(k, <<c>>, v, w) /\ Path(k, <<c>>, v, Forget(k, w))
BY LeadsMoves, Path1

\* SendRingToCar.
LEMMA SendRingPath ==
  ASSUME NEW k, NEW area \in {"Rough", "Staging"}, NEW wait \in BOOLEAN, NEW c \in Maybe, NEW init \in BOOLEAN,
         NEW b, NEW l, NEW r, NEW g, NEW s, NEW p, NEW h, NEW x, b.task \notin {"Restart", "TaskStart"}
  PROVE  Path(k, SendRingToCar(area, wait, c, init), View(b, <<l, r, g>>, s, p, h, x),
              View(b, IF init THEN <<"Reset", "Reset", g>> ELSE <<l, r, g>>, s, Ring(area, c), h, x))
<1> DEFINE o == <<SendOrderToCar(Ring(area, c))>>
           A == IF init THEN <<MotorMotion_Lift("Reset"), MotorMotion_Rotate("Reset")>> ELSE <<>>
           W == IF wait THEN <<WaitArrive>> ELSE <<>>
           v0 == View(b, <<l, r, g>>, s, p, h, x)
           v1 == View(b, <<l, r, g>>, s, Ring(area, c), h, x)
           v2 == View(b, <<"Reset", r, g>>, s, Ring(area, c), h, x)
           v3 == View(b, <<"Reset", "Reset", g>>, s, Ring(area, c), h, x)
           v4 == IF init THEN v3 ELSE v1
<1>1. o \in Seq(Call) /\ A \in Seq(Call) /\ W \in Seq(Call)
  <2>1. Ring(area, c) \in Place
    BY DEF Ring, Place
  <2>2. SendOrderToCar(Ring(area, c)) \in Call /\ WaitArrive \in Call
    BY <2>1, Calls1
  <2>3. MotorMotion_Lift("Reset") \in Call /\ MotorMotion_Rotate("Reset") \in Call
    BY Calls1 DEF LiftPos
  <2> QED BY <2>2, <2>3
<1>2. Path(k, o, v0, v1)
  <2>1. Leads(k, SendOrderToCar(Ring(area, c)), v0, v1)
    BY OrderLeads
  <2> HIDE DEF v0, v1
  <2> QED BY <2>1, PathLead
<1>3. Path(k, A, v1, v4)
  <2>1. CASE init
    <3>1. Leads(k, MotorMotion_Lift("Reset"), v1, v2)
      BY LiftLeads
    <3>2. Leads(k, MotorMotion_Rotate("Reset"), v2, v3)
      BY RotateLeads
    <3> HIDE DEF v1, v2, v3
    <3>3. Path(k, <<MotorMotion_Lift("Reset"), MotorMotion_Rotate("Reset")>>, v1, v3)
      BY <3>1, <3>2, LeadsMoves, Path2
    <3> QED BY <2>1, <3>3
  <2>2. CASE ~init
    <3> HIDE DEF v1, v3
    <3> QED BY <2>2, PathNone
  <2> QED BY <2>1, <2>2
<1>4. Path(k, W, v4, v4)
  <2>1. CASE wait
    <3>1. Staged(k, v4)
      BY DEF Staged, View
    <3>2. Leads(k, WaitArrive, v4, v4)
      <4> HIDE DEF v4
      <4> QED BY <3>1, QuietLeads
    <3> HIDE DEF v4
    <3> QED BY <2>1, <3>2, PathLead
  <2>2. CASE ~wait
    <3> HIDE DEF v4
    <3> QED BY <2>2, PathNone
  <2> QED BY <2>1, <2>2
<1>5. v4 = View(b, IF init THEN <<"Reset", "Reset", g>> ELSE <<l, r, g>>, s, Ring(area, c), h, x)
  OBVIOUS
<1>6. SendRingToCar(area, wait, c, init) = (o \o A) \o W
  BY Zenon DEF SendRingToCar
<1> HIDE DEF o, A, W, v0, v1, v4
<1>7. o \o A \in Seq(Call)
  BY <1>1, ConcatProperties
<1>8. Path(k, o \o A, v0, v4)
  BY <1>1, <1>2, <1>3, PathConcat
<1>9. Path(k, (o \o A) \o W, v0, v4)
  BY <1>1, <1>4, <1>7, <1>8, PathConcat
<1> QED BY <1>5, <1>6, <1>9 DEF v0

\* What v becomes when an action group is entered: a static counts, a colour is seen.
Entered(v, b) == View(b, <<v.arm[1], v.arm[2], v.arm[3]>>, v.slot, v.place, v.hold, v.stop)

\* SendRingToCar's calls are calls.
LEMMA SendRingCalls ==
  ASSUME NEW area \in {"Rough", "Staging"}, NEW w \in BOOLEAN, NEW c \in Maybe, NEW init \in BOOLEAN
  PROVE  SendRingToCar(area, w, c, init) \in Seq(Call)
BY SendRingQuiet DEF Quiet

\* Ground_TakeAction.
LEMMA GroundTakePath ==
  ASSUME NEW k, NEW v, NEW c \in Color, CanTake(k, v), v.who.take = takeCount
  PROVE  Path(k, GroundTakeCalls(c),
              Entered(v, Who(v.who.task, v.who.old, v.who.put, (v.who.take + 1) % 3, v.who.act,
                             v.who.seen, v.who.last)),
              AfterGroundTake(k, Ground_TakeAction(c), v))
<1> DEFINE b == Who(v.who.task, v.who.old, v.who.put, (v.who.take + 1) % 3, v.who.act, v.who.seen, v.who.last)
           s == v.slot
           p == Ring("Rough", s)
           x == v.stop
           area == IF takeCount + 1 < 3 THEN "Rough" ELSE "Staging"
           q == Ring(area, c)
           y == MovedOn(k, x, Piece(b.task, s))
           v0 == View(b, <<v.arm[1], "Vision", v.arm[3]>>, s, p, v.hold, x)
           v1 == View(b, <<v.arm[1], "Vision", "Avoid">>, s, p, None, x)
           v2 == View(b, <<"Grab", "Vision", "Avoid">>, s, p, None, x)
           v3 == View(b, <<"Grab", "Vision", "Grasp">>, s, p, s, x)
           v4 == View(b, <<"Reset", "Vision", "Grasp">>, s, p, s, x)
           v5 == View(b, <<"Reset", "Reset", "Grasp">>, s, p, s, x)
           v6 == View(b, <<"Stuff", "Reset", "Grasp">>, s, p, s, x)
           v7 == View(b, <<"Stuff", "Reset", "Release">>, s, p, None, y)
           v8 == View(b, <<"Stuff", "Reset", "Release">>, s, q, None, y)
           v9 == View(b, <<"Stuff", "Reset", "Release">>, c, q, None, y)
           v10 == View(b, <<"Stuff", "Vision", "Release">>, c, q, None, y)
           first == <<ArmClipTakeState("Avoid"), MotorMotion_Lift("Grab"), ArmClipTakeState("Grasp"),
                      MotorMotion_Lift("Reset"), MotorMotion_Rotate("Reset"), MotorMotion_Lift("Stuff"),
                      ArmClipTakeState("Release")>>
           ring == SendRingToCar(area, FALSE, c, FALSE)
           last == <<MaterialPosition(c), MotorMotion_Rotate("Vision")>>
<1>1. /\ b.task = v.who.task /\ b.task \in {"TPRough1", "TPRough2"} /\ b.task # "Restart" /\ b.task # "TaskStart"
      /\ v.arm[3] # "Grasp" /\ v.arm[2] = "Vision" /\ s \in Color /\ v.place = p
      /\ ~k.direct => Movable(x, Piece(b.task, s), "rough")
  BY DEF CanTake, Free, Who
<1> HIDE DEF b, y, x, s, area
<1>2. Path(k, first, v0, v7)
  <2>1. Leads(k, ArmClipTakeState("Avoid"), v0, v1)
    BY <1>1, OpenLeads
  <2>2. Leads(k, MotorMotion_Lift("Grab"), v1, v2)
    BY <1>1, LiftLeads
  <2>3. Leads(k, ArmClipTakeState("Grasp"), v2, v3)
    BY <1>1, GraspRing
  <2>4. Leads(k, MotorMotion_Lift("Reset"), v3, v4)
    BY <1>1, LiftLeads
  <2>5. Leads(k, MotorMotion_Rotate("Reset"), v4, v5)
    BY <1>1, RotateLeads
  <2>6. Leads(k, MotorMotion_Lift("Stuff"), v5, v6)
    BY <1>1, LiftLeads
  <2>7. Leads(k, ArmClipTakeState("Release"), v6, v7)
    <3>1. "rough" \in {"raw", "rough"}
      OBVIOUS
    <3> QED BY <1>1, <3>1, DropSlot DEF y
  <2> HIDE DEF v0, v1, v2, v3, v4, v5, v6, v7
  <2> QED BY <2>1, <2>2, <2>3, <2>4, <2>5, <2>6, <2>7, LeadsMoves, Path7
<1>3. Path(k, ring, v7, v8)
  <2>1. area \in {"Rough", "Staging"} /\ FALSE \in BOOLEAN /\ c \in Maybe
    BY DEF Maybe, area
  <2>2. Path(k, ring, v7, View(b, IF FALSE THEN <<"Reset", "Reset", "Release">> ELSE <<"Stuff", "Reset", "Release">>,
                               s, Ring(area, c), None, y))
    BY <1>1, <2>1, SendRingPath
  <2> QED BY <2>2
<1>4. Path(k, last, v8, v10)
  <2>1. Leads(k, MaterialPosition(c), v8, v9)
    <3>1. Leads(k, MaterialPosition(c), v8, View(b, <<"Stuff", "Reset", "Release">>, IF c \in Color THEN c ELSE s, q, None, y))
      BY <1>1, PlateLeads
    <3> QED BY <3>1
  <2>2. Leads(k, MotorMotion_Rotate("Vision"), v9, v10)
    BY <1>1, RotateLeads
  <2> HIDE DEF v8, v9, v10
  <2> QED BY <2>1, <2>2, LeadsMoves, Path2
<1>5. first \in Seq(Call) /\ ring \in Seq(Call) /\ last \in Seq(Call)
  <2>1. /\ ArmClipTakeState("Avoid") \in Call /\ MotorMotion_Lift("Grab") \in Call
        /\ ArmClipTakeState("Grasp") \in Call /\ MotorMotion_Lift("Reset") \in Call
        /\ MotorMotion_Rotate("Reset") \in Call /\ MotorMotion_Lift("Stuff") \in Call
        /\ ArmClipTakeState("Release") \in Call /\ MotorMotion_Rotate("Vision") \in Call
        /\ c \in Maybe /\ MaterialPosition(c) \in Call
    BY Calls1 DEF LiftPos, Maybe
  <2>2. area \in {"Rough", "Staging"} /\ FALSE \in BOOLEAN
    BY DEF area
  <2>3. ring \in Seq(Call)
    BY <2>1, <2>2, SendRingCalls
  <2>4. first \in Seq(Call) /\ last \in Seq(Call)
    BY <2>1
  <2> QED BY <2>3, <2>4
<1>6. GroundTakeCalls(c) = (first \o ring) \o last
  BY Zenon DEF GroundTakeCalls, area
<1>7. /\ Entered(v, b) = v0
      /\ AfterGroundTake(k, Ground_TakeAction(c), v) = v10
  <2>1. Entered(v, b) = v0
    BY <1>1 DEF Entered, x, s
  <2>2. Ground_TakeAction(c).color = c
    BY DEF Ground_TakeAction
  <2>3. (IF v.who.take + 1 < 3 THEN "Rough" ELSE "Staging") = area
    BY DEF area
  <2> QED BY <1>1, <2>1, <2>2, <2>3 DEF AfterGroundTake, x, s, b, y
<1> HIDE DEF first, ring, last, v0, v7, v8, v10
<1>8. first \o ring \in Seq(Call) /\ Path(k, first \o ring, v0, v8)
  BY <1>2, <1>3, <1>5, ConcatProperties, PathConcat
<1>9. Path(k, (first \o ring) \o last, v0, v10)
  BY <1>4, <1>5, <1>8, PathConcat
<1> QED BY <1>6, <1>7, <1>9 DEF b
\* TakeRawMaterial.
LEMMA TakeRawPath ==
  ASSUME NEW k, NEW v, NEW c \in Color, CanTakeRaw(k, c, v), v.slot = c,
         v.who.act = actionCount, v.who.task = nowTask, k.code = codeS, codeS \in Code
  PROVE  Path(k, TakeRawCalls,
              Entered(v, Who(v.who.task, v.who.old, v.who.put, v.who.take, (v.who.act + 1) % 3, c,
                             v.who.last)),
              AfterTake(k, c, v))
<1> DEFINE b == Who(v.who.task, v.who.old, v.who.put, v.who.take, (v.who.act + 1) % 3, c, v.who.last)
           p == v.place
           x == v.stop
           d == IF nowTask = "TakeRaw1" THEN Code1[1] ELSE Code2[1]
           last == actionCount + 1 >= 3
           y == MovedOn(k, x, Piece(b.task, c))
           v0 == View(b, <<v.arm[1], "Vision", v.arm[3]>>, c, p, v.hold, x)
           v1 == View(b, <<"RawArea", "Vision", v.arm[3]>>, c, p, v.hold, x)
           v2 == View(b, <<"RawArea", "Vision", "Grasp">>, c, p, c, x)
           v3 == View(b, <<"Reset", "Vision", "Grasp">>, c, p, c, x)
           v4 == View(b, <<"Reset", "Reset", "Grasp">>, c, p, c, x)
           v5 == View(b, <<"Stuff", "Reset", "Grasp">>, c, p, c, x)
           v6 == View(b, <<"Stuff", "Reset", "Release">>, c, p, None, y)
           v7 == View(b, <<"Stuff", "Reset", "Release">>, c, Ring("Rough", d), None, y)
           v8 == View(b, <<"Stuff", "Vision", "Release">>, c, p, None, y)
           v9 == View(b, <<"RawArea", "Vision", "Release">>, c, p, None, y)
           w  == IF last THEN v7 ELSE v9
           first == <<MotorMotion_Lift("RawArea"), ArmClipTakeState("Grasp"), MotorMotion_Lift("Reset"),
                      MotorMotion_Rotate("Reset"), MotorMotion_Lift("Stuff"), ArmClipTakeState("Release")>>
           ring == SendRingToCar("Rough", FALSE, d, FALSE)
           back == <<MotorMotion_Rotate("Vision"), MotorMotion_Lift("RawArea")>>
           rest == IF last THEN ring ELSE back
<1>1. /\ b.task = v.who.task /\ b.task \in {"TakeRaw1", "TakeRaw2"} /\ b.task # "Restart" /\ b.task # "TaskStart"
      /\ v.arm[3] # "Grasp" /\ v.arm[2] = "Vision" /\ b.seen = c
      /\ ~k.direct => Movable(x, Piece(b.task, c), "raw")
  BY DEF CanTakeRaw, Free, Who
<1>2. d \in Color /\ d = First(k, v.who.task)
  BY <1>1, CodeDigits DEF First, BatchOf, Code1, Code2
<1>3. AfterTake(k, c, v) = Forget(k, w)
  <2>1. v.who.act + 1 >= 3 <=> last
    OBVIOUS
  <2>2. /\ w.who = b /\ w.slot = c /\ w.hold = None /\ w.stop = y
        /\ w.arm = IF last THEN <<"Stuff", "Reset", "Release">> ELSE <<"RawArea", "Vision", "Release">>
        /\ w.place = IF last THEN Ring("Rough", d) ELSE p
    BY DEF View
  <2>3. /\ b.task = v.who.task /\ b.old = v.who.old /\ b.put = v.who.put /\ b.take = v.who.take
        /\ b.act = (v.who.act + 1) % 3 /\ b.seen = c
    BY DEF Who
  <2>4. y = MovedOn(k, v.stop, Piece(v.who.task, c))
    BY <2>3
  <2> HIDE DEF w, b, last, d, y
  <2> QED BY <1>2, <2>1, <2>2, <2>3, <2>4 DEF AfterTake, Forget
<1>4. Entered(v, b) = v0
  BY <1>1 DEF Entered
<1> HIDE DEF b, y, x, p, d
<1>5. Path(k, first, v0, v6)
  <2>1. Leads(k, MotorMotion_Lift("RawArea"), v0, v1)
    BY <1>1, LiftLeads
  <2>2. Leads(k, ArmClipTakeState("Grasp"), v1, v2)
    <3>1. Leads(k, ArmClipTakeState("Grasp"), View(b, <<"RawArea", "Vision", v.arm[3]>>, c, p, v.hold, x),
                View(b, <<"RawArea", "Vision", "Grasp">>, c, p, b.seen, x))
      BY <1>1, GraspRaw
    <3> QED BY <1>1, <3>1
  <2>3. Leads(k, MotorMotion_Lift("Reset"), v2, v3)
    BY <1>1, LiftLeads
  <2>4. Leads(k, MotorMotion_Rotate("Reset"), v3, v4)
    BY <1>1, RotateLeads
  <2>5. Leads(k, MotorMotion_Lift("Stuff"), v4, v5)
    BY <1>1, LiftLeads
  <2>6. Leads(k, ArmClipTakeState("Release"), v5, v6)
    <3>1. "raw" \in {"raw", "rough"}
      OBVIOUS
    <3> QED BY <1>1, <3>1, DropSlot DEF y
  <2> HIDE DEF v0, v1, v2, v3, v4, v5, v6
  <2> QED BY <2>1, <2>2, <2>3, <2>4, <2>5, <2>6, LeadsMoves, Path6
<1>6. Path(k, ring, v6, Forget(k, v7)) /\ ring \in Seq(Call)
  <2>1. ring = <<SendOrderToCar(Ring("Rough", d))>>
    BY DEF SendRingToCar
  <2>2. Leads(k, SendOrderToCar(Ring("Rough", d)), v6, v7)
    BY <1>1, OrderLeads
  <2>3. FALSE \in BOOLEAN /\ "Rough" \in {"Rough", "Staging"} /\ d \in Maybe
    BY <1>2 DEF Maybe
  <2>4. ring \in Seq(Call)
    BY <2>3, SendRingCalls
  <2> HIDE DEF v6, v7, ring
  <2> QED BY <2>1, <2>2, <2>4, PathLead
<1>7. Path(k, back, v6, Forget(k, v9))
  <2>1. Leads(k, MotorMotion_Rotate("Vision"), v6, v8)
    BY <1>1, RotateLeads
  <2>2. Leads(k, MotorMotion_Lift("RawArea"), v8, v9)
    BY <1>1, LiftLeads
  <2> HIDE DEF v6, v8, v9
  <2> QED BY <2>1, <2>2, LeadsMoves, Path2
<1>8. first \in Seq(Call) /\ back \in Seq(Call)
  <2>1. /\ MotorMotion_Lift("RawArea") \in Call /\ ArmClipTakeState("Grasp") \in Call
        /\ MotorMotion_Lift("Reset") \in Call /\ MotorMotion_Rotate("Reset") \in Call
        /\ MotorMotion_Lift("Stuff") \in Call /\ ArmClipTakeState("Release") \in Call
        /\ MotorMotion_Rotate("Vision") \in Call
    BY Calls1 DEF LiftPos
  <2> QED BY <2>1
<1>9. TakeRawCalls = first \o rest
  BY Zenon DEF TakeRawCalls, d
<1> HIDE DEF first, ring, back, v0, v6, v7, v9, last
<1>10. Path(k, rest, v6, Forget(k, w)) /\ rest \in Seq(Call)
  BY <1>6, <1>7, <1>8
<1> HIDE DEF rest, w
<1>11. Path(k, first \o rest, v0, Forget(k, w))
  BY <1>5, <1>8, <1>10, PathConcat
<1> QED BY <1>3, <1>4, <1>9, <1>11 DEF b

\* The first seven calls of Ground_PutAction: the object is put on the ring.
LEMMA PutDown ==
  ASSUME NEW k, NEW v, NEW how, NEW c \in Maybe, NEW rotate \in BOOLEAN, NEW b, b.task = v.who.task,
         CanPut(k, Ground_PutAction(how, c, rotate), v)
  PROVE  LET height == IF how = "Normal" THEN "Places" ELSE "Stack"
             first == <<MotorMotion_Lift("Stuff"), ArmClipTakeState("Grasp"), MotorMotion_Lift("Reset"),
                        MotorMotion_Rotate("Vision"), MotorMotion_Lift(height),
                        ArmClipTakeState("Avoid"), MaterialPosition(c)>>
         IN  /\ first \in Seq(Call)
             /\ height = IF b.task = "PutStag2" THEN "Stack" ELSE "Places"
             /\ Path(k, first, Entered(v, b),
                     View(b, <<height, "Vision", "Avoid">>, IF c \in Color THEN c ELSE v.slot, v.place, None,
                          MovedOn(k, v.stop, Piece(b.task, v.slot))))
<1> DEFINE height == IF how = "Normal" THEN "Places" ELSE "Stack"
           first == <<MotorMotion_Lift("Stuff"), ArmClipTakeState("Grasp"), MotorMotion_Lift("Reset"),
                      MotorMotion_Rotate("Vision"), MotorMotion_Lift(height),
                      ArmClipTakeState("Avoid"), MaterialPosition(c)>>
           s == v.slot
           p == Ring(Area(b.task), s)
           x == v.stop
           y == MovedOn(k, x, Piece(b.task, s))
           z == IF Area(b.task) = "Rough" THEN "plate1" ELSE "plate2"
           q == IF c \in Color THEN c ELSE s
           v0 == View(b, <<v.arm[1], "Reset", v.arm[3]>>, s, p, v.hold, x)
           v1 == View(b, <<"Stuff", "Reset", v.arm[3]>>, s, p, v.hold, x)
           v2 == View(b, <<"Stuff", "Reset", "Grasp">>, s, p, s, x)
           v3 == View(b, <<"Reset", "Reset", "Grasp">>, s, p, s, x)
           v4 == View(b, <<"Reset", "Vision", "Grasp">>, s, p, s, x)
           v5 == View(b, <<height, "Vision", "Grasp">>, s, p, s, x)
           v6 == View(b, <<height, "Vision", "Avoid">>, s, p, None, y)
           v7 == View(b, <<height, "Vision", "Avoid">>, q, p, None, y)
<1>1. /\ b.task \in {"TPRough1", "TPRough2", "PutStag1", "PutStag2"} /\ b.task # "Restart" /\ b.task # "TaskStart"
      /\ v.arm[3] # "Grasp" /\ v.arm[2] = "Reset" /\ s \in Color /\ v.place = p
      /\ ~k.direct => Movable(x, Piece(b.task, s), z)
      /\ height = IF b.task = "PutStag2" THEN "Stack" ELSE "Places"
  BY DEF CanPut, Free, Ground_PutAction
<1>2. z \in {"plate1", "plate2"}
  OBVIOUS
<1>3. Entered(v, b) = v0
  BY <1>1 DEF Entered
<1> HIDE DEF x, s, y
<1>4. Path(k, first, v0, v7)
  <2>1. Leads(k, MotorMotion_Lift("Stuff"), v0, v1)
    BY <1>1, LiftLeads
  <2>2. Leads(k, ArmClipTakeState("Grasp"), v1, v2)
    <3> HIDE DEF z, height
    <3> QED BY <1>1, <1>2, GraspSlot
  <2>3. Leads(k, MotorMotion_Lift("Reset"), v2, v3)
    BY <1>1, LiftLeads
  <2>4. Leads(k, MotorMotion_Rotate("Vision"), v3, v4)
    BY <1>1, RotateLeads
  <2>5. Leads(k, MotorMotion_Lift(height), v4, v5)
    BY <1>1, LiftLeads
  <2>6. Leads(k, ArmClipTakeState("Avoid"), v5, v6)
    <3> HIDE DEF height
    <3> QED BY <1>1, DropRing DEF y
  <2>7. Leads(k, MaterialPosition(c), v6, v7)
    BY <1>1, PlateLeads
  <2> HIDE DEF v0, v1, v2, v3, v4, v5, v6, v7, height
  <2> QED BY <2>1, <2>2, <2>3, <2>4, <2>5, <2>6, <2>7, LeadsMoves, Path7
<1>5. first \in Seq(Call)
  <2>1. /\ MotorMotion_Lift("Stuff") \in Call /\ ArmClipTakeState("Grasp") \in Call
        /\ MotorMotion_Lift("Reset") \in Call /\ MotorMotion_Rotate("Vision") \in Call
        /\ MotorMotion_Lift(height) \in Call /\ ArmClipTakeState("Avoid") \in Call
        /\ MaterialPosition(c) \in Call
    BY Calls1 DEF LiftPos
  <2> QED BY <2>1
<1> HIDE DEF first, v0
<1> QED BY <1>1, <1>3, <1>4, <1>5 DEF first, x, s, y

\* The calls of Ground_PutAction after the object is on the ring: what comes next is sent for.
PutOnward(c) ==
  LET area == IF nowTask \in {"TPRough1", "TPRough2"} THEN "Rough" ELSE "Staging" IN
  IF putCount + 1 < 3
  THEN (IF nowTask = "PutStag2" THEN <<MotorMotion_Lift("Pile")>> ELSE <<>>)
         \o SendRingToCar(area, TRUE, c, FALSE) \o <<MotorMotion_Lift("Reset")>>
  ELSE CASE nowTask = "PutStag1" -> <<SendOrderToCar(Ring("Rough", "red"))>>
         [] nowTask = "PutStag2" -> <<SendOrderToCar(Start), MotorMotion_Lift("Reset")>>
         [] OTHER -> SendRingToCar("Rough", TRUE, c, FALSE)

\* They are calls, and lead to the next place.
LEMMA PutOnwardMore ==
  ASSUME NEW k, NEW c \in Maybe, NEW b, NEW h, NEW s, NEW p, NEW x, b.task = nowTask, putCount + 1 < 3,
         b.task \in {"TPRough1", "TPRough2", "PutStag1", "PutStag2"}
  PROVE  /\ PutOnward(c) \in Seq(Call)
         /\ Path(k, PutOnward(c), View(b, <<h, "Vision", "Avoid">>, s, p, None, x),
                 View(b, <<"Reset", "Vision", "Avoid">>, s, Ring(Area(b.task), c), None, x))
<1> DEFINE area == IF nowTask \in {"TPRough1", "TPRough2"} THEN "Rough" ELSE "Staging"
           pile == IF nowTask = "PutStag2" THEN <<MotorMotion_Lift("Pile")>> ELSE <<>>
           ring == SendRingToCar(area, TRUE, c, FALSE)
           last == <<MotorMotion_Lift("Reset")>>
           g == IF nowTask = "PutStag2" THEN "Pile" ELSE h
           v0 == View(b, <<h, "Vision", "Avoid">>, s, p, None, x)
           v1 == View(b, <<g, "Vision", "Avoid">>, s, p, None, x)
           v2 == View(b, <<g, "Vision", "Avoid">>, s, Ring(area, c), None, x)
           v3 == View(b, <<"Reset", "Vision", "Avoid">>, s, Ring(area, c), None, x)
<1>1. area = Area(b.task) /\ area \in {"Rough", "Staging"} /\ b.task # "Restart" /\ b.task # "TaskStart"
  BY DEF Area
<1>2. pile \in Seq(Call) /\ ring \in Seq(Call) /\ last \in Seq(Call)
  <2>1. MotorMotion_Lift("Pile") \in Call /\ MotorMotion_Lift("Reset") \in Call
    BY Calls1 DEF LiftPos
  <2>2. TRUE \in BOOLEAN /\ FALSE \in BOOLEAN
    OBVIOUS
  <2> HIDE DEF area
  <2>3. ring \in Seq(Call)
    BY <1>1, <2>2, SendRingCalls
  <2>4. pile \in Seq(Call) /\ last \in Seq(Call)
    BY <2>1
  <2> QED BY <2>3, <2>4
<1>3. Path(k, pile, v0, v1)
  <2>1. CASE nowTask = "PutStag2"
    <3>1. Leads(k, MotorMotion_Lift("Pile"), v0, v1)
      BY <1>1, <2>1, LiftLeads
    <3> HIDE DEF v0, v1
    <3> QED BY <2>1, <3>1, PathLead
  <2>2. CASE nowTask # "PutStag2"
    <3>1. v0 = v1
      BY <2>2
    <3> HIDE DEF v0, v1
    <3> QED BY <2>2, <3>1, PathNone
  <2> QED BY <2>1, <2>2
<1>4. Path(k, ring, v1, v2)
  <2>1. TRUE \in BOOLEAN /\ FALSE \in BOOLEAN
    OBVIOUS
  <2> HIDE DEF area, g
  <2>2. Path(k, ring, v1, View(b, IF FALSE THEN <<"Reset", "Reset", "Avoid">> ELSE <<g, "Vision", "Avoid">>,
                               s, Ring(area, c), None, x))
    BY <1>1, <2>1, SendRingPath
  <2> QED BY <2>2
<1>5. Path(k, last, v2, v3)
  <2>1. Leads(k, MotorMotion_Lift("Reset"), v2, v3)
    BY <1>1, LiftLeads
  <2> HIDE DEF v2, v3
  <2> QED BY <2>1, PathLead
<1>6. PutOnward(c) = (pile \o ring) \o last
  BY Zenon DEF PutOnward
<1> HIDE DEF pile, ring, last, v0, v1, v2, v3
<1>7. pile \o ring \in Seq(Call) /\ Path(k, pile \o ring, v0, v2)
  BY <1>2, <1>3, <1>4, ConcatProperties, PathConcat
<1>8. (pile \o ring) \o last \in Seq(Call) /\ Path(k, (pile \o ring) \o last, v0, v3)
  BY <1>2, <1>5, <1>7, ConcatProperties, PathConcat
<1> QED BY <1>1, <1>6, <1>8 DEF v0, v3

\* After the third object they lead to where the next task is.
LEMMA PutOnwardLast ==
  ASSUME NEW k, NEW c \in Maybe, NEW b, NEW h, NEW s, NEW p, NEW x, b.task = nowTask, ~(putCount + 1 < 3),
         b.task \in {"TPRough1", "TPRough2", "PutStag1", "PutStag2"}
  PROVE  /\ PutOnward(c) \in Seq(Call)
         /\ Path(k, PutOnward(c), View(b, <<h, "Vision", "Avoid">>, s, p, None, x),
                 View(b, <<IF b.task = "PutStag2" THEN "Reset" ELSE h, "Vision", "Avoid">>, s,
                      IF b.task = "PutStag1" THEN Ring("Rough", "red")
                      ELSE IF b.task = "PutStag2" THEN Start ELSE Ring("Rough", c), None, x))
<1> DEFINE v0 == View(b, <<h, "Vision", "Avoid">>, s, p, None, x)
<1>1. MotorMotion_Lift("Reset") \in Call /\ SendOrderToCar(Ring("Rough", "red")) \in Call /\ SendOrderToCar(Start) \in Call
  <2>1. Ring("Rough", "red") \in Place /\ Start \in Place
    BY DEF Ring, Start, Place, Maybe, Color
  <2> QED BY <2>1, Calls1 DEF LiftPos
<1>2. CASE b.task = "PutStag1"
  <2> DEFINE v1 == View(b, <<h, "Vision", "Avoid">>, s, Ring("Rough", "red"), None, x)
  <2>1. PutOnward(c) = <<SendOrderToCar(Ring("Rough", "red"))>>
    BY <1>2 DEF PutOnward
  <2>2. Leads(k, SendOrderToCar(Ring("Rough", "red")), v0, v1)
    BY <1>2, OrderLeads
  <2>3. Path(k, PutOnward(c), v0, v1)
    <3> HIDE DEF v0, v1
    <3> QED BY <2>1, <2>2, PathLead
  <2> QED BY <1>1, <1>2, <2>1, <2>3
<1>3. CASE b.task = "PutStag2"
  <2> DEFINE v1 == View(b, <<h, "Vision", "Avoid">>, s, Start, None, x)
             v2 == View(b, <<"Reset", "Vision", "Avoid">>, s, Start, None, x)
  <2>1. PutOnward(c) = <<SendOrderToCar(Start), MotorMotion_Lift("Reset")>>
    BY <1>3 DEF PutOnward
  <2>2. Leads(k, SendOrderToCar(Start), v0, v1)
    BY <1>3, OrderLeads
  <2>3. Leads(k, MotorMotion_Lift("Reset"), v1, v2)
    BY <1>3, LiftLeads
  <2>4. Path(k, PutOnward(c), v0, v2)
    <3> HIDE DEF v0, v1, v2
    <3> QED BY <2>1, <2>2, <2>3, LeadsMoves, Path2
  <2> QED BY <1>1, <1>3, <2>1, <2>4
<1>4. CASE b.task \notin {"PutStag1", "PutStag2"}
  <2>1. PutOnward(c) = SendRingToCar("Rough", TRUE, c, FALSE)
    BY <1>4, Zenon DEF PutOnward
  <2>2. TRUE \in BOOLEAN /\ FALSE \in BOOLEAN /\ "Rough" \in {"Rough", "Staging"} /\ b.task \notin {"Restart", "TaskStart"}
    OBVIOUS
  <2>3. Path(k, SendRingToCar("Rough", TRUE, c, FALSE), v0,
             View(b, IF FALSE THEN <<"Reset", "Reset", "Avoid">> ELSE <<h, "Vision", "Avoid">>,
                  s, Ring("Rough", c), None, x))
    BY <2>2, SendRingPath
  <2>4. SendRingToCar("Rough", TRUE, c, FALSE) \in Seq(Call)
    BY <2>2, SendRingCalls
  <2> QED BY <1>4, <2>1, <2>3, <2>4
<1> QED BY <1>2, <1>3, <1>4

\* Ground_PutAction.
LEMMA PutPath ==
  ASSUME NEW k, NEW v, NEW how, NEW c \in Maybe, NEW rotate \in BOOLEAN,
         CanPut(k, Ground_PutAction(how, c, rotate), v), v.who.put = putCount, v.who.task = nowTask
  PROVE  Path(k, PutCalls(how, c, rotate),
              Entered(v, Who(v.who.task, v.who.old, (v.who.put + 1) % 3, v.who.take, v.who.act,
                             v.who.seen, v.who.last)),
              AfterPut(k, Ground_PutAction(how, c, rotate), v))
<1> DEFINE b == Who(v.who.task, v.who.old, (v.who.put + 1) % 3, v.who.take, v.who.act, v.who.seen, v.who.last)
           g == Ground_PutAction(how, c, rotate)
           height == IF how = "Normal" THEN "Places" ELSE "Stack"
           first == <<MotorMotion_Lift("Stuff"), ArmClipTakeState("Grasp"), MotorMotion_Lift("Reset"),
                      MotorMotion_Rotate("Vision"), MotorMotion_Lift(height),
                      ArmClipTakeState("Avoid"), MaterialPosition(c)>>
           last == IF rotate THEN <<MotorMotion_Rotate("Reset")>> ELSE <<>>
           more == putCount + 1 < 3
           q == IF c \in Color THEN c ELSE v.slot
           y == MovedOn(k, v.stop, Piece(b.task, v.slot))
           l == IF more \/ b.task = "PutStag2" THEN "Reset" ELSE "Places"
           p == IF more THEN Ring(Area(b.task), c)
                ELSE IF b.task = "PutStag1" THEN Ring("Rough", "red")
                     ELSE IF b.task = "PutStag2" THEN Start ELSE Ring("Rough", c)
           v0 == Entered(v, b)
           v1 == View(b, <<height, "Vision", "Avoid">>, q, v.place, None, y)
           v2 == View(b, <<l, "Vision", "Avoid">>, q, p, None, y)
           v3 == View(b, <<l, IF rotate THEN "Reset" ELSE "Vision", "Avoid">>, q, p, None, y)
<1>1. /\ b.task = v.who.task /\ b.task = nowTask /\ b.task \in {"TPRough1", "TPRough2", "PutStag1", "PutStag2"}
      /\ b.task # "Restart" /\ (rotate => l = "Reset")
  BY DEF CanPut, Who, Ground_PutAction
<1>2. first \in Seq(Call) /\ Path(k, first, v0, v1) /\ height = IF b.task = "PutStag2" THEN "Stack" ELSE "Places"
  <2>1. b.task = v.who.task
    BY <1>1
  <2> HIDE DEF b
  <2> QED BY <2>1, PutDown
<1>3. AfterPut(k, g, v) = v3
  <2>1. g.color = c /\ g.rotate = rotate
    BY DEF Ground_PutAction
  <2>2. (v.who.put + 1 < 3) = more
    OBVIOUS
  <2>3. p = IF more THEN Ring(Area(v.who.task), g.color)
            ELSE CASE v.who.task = "PutStag1" -> Ring("Rough", "red")
                   [] v.who.task = "PutStag2" -> Start
                   [] OTHER -> Ring("Rough", g.color)
    BY <1>1, <2>1
  <2> HIDE DEF p, g, more
  <2> QED BY <1>1, <2>1, <2>2, <2>3 DEF AfterPut
<1>4. PutOnward(c) \in Seq(Call) /\ Path(k, PutOnward(c), v1, v2)
  <2>1. CASE more
    <3>1. l = "Reset" /\ p = Ring(Area(b.task), c)
      BY <2>1
    <3> HIDE DEF b, height, q, y, p, l
    <3> QED BY <1>1, <2>1, <3>1, PutOnwardMore
  <2>2. CASE ~more
    <3>1. /\ l = IF b.task = "PutStag2" THEN "Reset" ELSE height
          /\ p = IF b.task = "PutStag1" THEN Ring("Rough", "red")
                 ELSE IF b.task = "PutStag2" THEN Start ELSE Ring("Rough", c)
      <4> HIDE DEF b, height
      <4> QED BY <1>2, <2>2
    <3> HIDE DEF b, height, q, y, p, l
    <3> QED BY <1>1, <2>2, <3>1, PutOnwardLast
  <2> QED BY <2>1, <2>2
<1>5. last \in Seq(Call) /\ Path(k, last, v2, v3)
  <2>1. CASE rotate
    <3>1. MotorMotion_Rotate("Reset") \in Call
      BY Calls1
    <3>2. Leads(k, MotorMotion_Rotate("Reset"), v2, v3)
      <4> HIDE DEF b, q, y, p, l
      <4> QED BY <1>1, <2>1, RotateLeads
    <3> HIDE DEF v2, v3
    <3> QED BY <2>1, <3>1, <3>2, PathLead
  <2>2. CASE ~rotate
    <3>1. v2 = v3
      BY <2>2
    <3> HIDE DEF v2, v3
    <3> QED BY <2>2, <3>1, PathNone
  <2> QED BY <2>1, <2>2
<1>6. PutCalls(how, c, rotate) = (first \o PutOnward(c)) \o last
  BY Zenon DEF PutCalls, PutOnward
<1> HIDE DEF first, last, v0, v1, v2, v3
<1>7. first \o PutOnward(c) \in Seq(Call) /\ Path(k, first \o PutOnward(c), v0, v2)
  BY <1>2, <1>4, ConcatProperties, PathConcat
<1>8. Path(k, (first \o PutOnward(c)) \o last, v0, v3)
  BY <1>5, <1>7, PathConcat
<1> QED BY <1>3, <1>6, <1>8 DEF v0
-----------------------------------------------------------------------------
(***************************************************************************)
(* The action groups as single calls.                                      *)
(***************************************************************************)

\* IdentifyColorTake takes one of the first two objects.
LEMMA IdentifyLeads ==
  ASSUME NEW k, NEW t \in {"TakeRaw1", "TakeRaw2"}, NEW o, NEW m, NEW n, NEW a \in {0, 1}, NEW e, NEW y,
         NEW l, NEW c, NEW s, NEW p, NEW h, NEW x, NEW u \in BOOLEAN, NEW d, k.code # NoCode, c # "Grasp",
         a = 0 => u, ~k.direct => Movable(x, Piece(t, d), "raw")
  PROVE  Leads(k, IdentifyColorTake(u, d), View(Who(t, o, m, n, a, e, y), <<l, "Vision", c>>, s, p, h, x),
               View(Who(t, o, m, n, a + 1, Told(k, d), Any), <<"RawArea", "Vision", "Release">>, Told(k, d), p,
                    None, MovedOn(k, x, Piece(t, d))))
<1> DEFINE v == View(Who(t, o, m, n, a, e, y), <<l, "Vision", c>>, s, p, h, x)
           g == IdentifyColorTake(u, d)
<1>1. /\ v.who.task = t /\ v.who.old = o /\ v.who.put = m /\ v.who.take = n /\ v.who.act = a
      /\ v.arm[2] = "Vision" /\ v.arm[3] = c /\ v.place = p /\ v.stop = x
  BY DEF View, Who
<1>2. g.op = "identify" /\ g.update = u /\ g.color = d /\ ~Closes(g) /\ ~Opens(g) /\ g.op \in Takes
  BY DEF IdentifyColorTake, Closes, Opens, Takes
<1>3. ~(a + 1 >= 3) /\ (a + 1) % 3 = a + 1
  OBVIOUS
<1> HIDE DEF v, g
<1>4. CanTakeRaw(k, d, v)
  BY <1>1 DEF CanTakeRaw, Free
<1>5. Staged(k, v) /\ Before(k, g, v)
  BY <1>1, <1>2, <1>4 DEF Staged, Before
<1>6. AfterTake(k, d, v) = View(Who(t, o, m, n, a + 1, Told(k, d), Any), <<"RawArea", "Vision", "Release">>,
                                Told(k, d), p, None, MovedOn(k, x, Piece(t, d)))
  BY <1>1, <1>3 DEF AfterTake
<1>7. Effect(k, g, v, AfterTake(k, d, v))
  BY <1>2 DEF Effect
<1> QED BY <1>5, <1>6, <1>7 DEF Leads, v, g

\* It takes the third.
LEMMA IdentifyLast ==
  ASSUME NEW k, NEW t \in {"TakeRaw1", "TakeRaw2"}, NEW o, NEW m, NEW n, NEW e, NEW y,
         NEW l, NEW c, NEW s, NEW p, NEW h, NEW x, NEW d, k.code # NoCode, c # "Grasp",
         ~k.direct => Movable(x, Piece(t, d), "raw")
  PROVE  Leads(k, IdentifyColorTake(FALSE, d), View(Who(t, o, m, n, 2, e, y), <<l, "Vision", c>>, s, p, h, x),
               View(Who(t, o, m, n, 0, Told(k, d), Any), <<"Stuff", "Reset", "Release">>, Told(k, d),
                    Ring("Rough", First(k, t)), None, MovedOn(k, x, Piece(t, d))))
<1> DEFINE v == View(Who(t, o, m, n, 2, e, y), <<l, "Vision", c>>, s, p, h, x)
           g == IdentifyColorTake(FALSE, d)
<1>1. /\ v.who.task = t /\ v.who.old = o /\ v.who.put = m /\ v.who.take = n /\ v.who.act = 2
      /\ v.arm[2] = "Vision" /\ v.arm[3] = c /\ v.place = p /\ v.stop = x
  BY DEF View, Who
<1>2. g.op = "identify" /\ g.update = FALSE /\ g.color = d /\ ~Closes(g) /\ ~Opens(g) /\ g.op \in Takes
  BY DEF IdentifyColorTake, Closes, Opens, Takes
<1>3. 2 + 1 >= 3 /\ (2 + 1) % 3 = 0 /\ 2 # 0
  OBVIOUS
<1> HIDE DEF v, g
<1>4. CanTakeRaw(k, d, v)
  BY <1>1 DEF CanTakeRaw, Free
<1>5. Staged(k, v) /\ Before(k, g, v)
  BY <1>1, <1>2, <1>3, <1>4 DEF Staged, Before
<1>6. AfterTake(k, d, v) = View(Who(t, o, m, n, 0, Told(k, d), Any), <<"Stuff", "Reset", "Release">>,
                                Told(k, d), Ring("Rough", First(k, t)), None, MovedOn(k, x, Piece(t, d)))
  BY <1>1, <1>3 DEF AfterTake
<1>7. Effect(k, g, v, AfterTake(k, d, v))
  BY <1>2 DEF Effect
<1> QED BY <1>5, <1>6, <1>7 DEF Leads, v, g

\* Ground_PutAction puts the first two objects of a task down.
LEMMA PutMore ==
  ASSUME NEW k, NEW t \in {"TPRough1", "TPRough2", "PutStag1", "PutStag2"}, NEW o, NEW m \in {0, 1}, NEW n,
         NEW a, NEW e, NEW y, NEW l, NEW c, NEW s \in Color, NEW h, NEW x, NEW how, NEW d \in Color,
         k.code # NoCode, c # "Grasp", how = IF t = "PutStag2" THEN "StackUp" ELSE "Normal",
         NEW z, z = IF Area(t) = "Rough" THEN "plate1" ELSE "plate2", ~k.direct => Movable(x, Piece(t, s), z)
  PROVE  Leads(k, Ground_PutAction(how, d, TRUE),
               View(Who(t, o, m, n, a, e, y), <<l, "Reset", c>>, s, Ring(Area(t), s), h, x),
               View(Who(t, o, m + 1, n, a, e, y), <<"Reset", "Reset", "Avoid">>, d, Ring(Area(t), d), None,
                    MovedOn(k, x, Piece(t, s))))
<1> DEFINE v == View(Who(t, o, m, n, a, e, y), <<l, "Reset", c>>, s, Ring(Area(t), s), h, x)
           g == Ground_PutAction(how, d, TRUE)
           w == View(Who(t, o, m + 1, n, a, e, y), <<"Reset", "Reset", "Avoid">>, d, Ring(Area(t), d), None,
                     MovedOn(k, x, Piece(t, s)))
<1>1. /\ v.who.task = t /\ v.who.old = o /\ v.who.put = m /\ v.who.take = n /\ v.who.act = a
      /\ v.who.seen = e /\ v.who.last = y
      /\ v.arm[2] = "Reset" /\ v.arm[3] = c /\ v.slot = s /\ v.place = Ring(Area(t), s) /\ v.stop = x
  BY DEF View, Who
<1>2. g.op = "put" /\ g.how = how /\ g.color = d /\ g.rotate /\ ~Closes(g) /\ ~Opens(g) /\ g.op \notin Takes
  BY DEF Ground_PutAction, Closes, Opens, Takes
<1>3. m + 1 < 3 /\ (m + 1) % 3 = m + 1
  OBVIOUS
<1> HIDE DEF v, g
<1>4. CanPut(k, g, v)
  BY <1>1, <1>2, <1>3 DEF CanPut, Free
<1>5. Staged(k, v) /\ Before(k, g, v)
  BY <1>1, <1>2, <1>4 DEF Staged, Before
<1>6. AfterPut(k, g, v) = w
  BY <1>1, <1>2, <1>3 DEF AfterPut
<1>7. Effect(k, g, v, AfterPut(k, g, v))
  BY <1>2 DEF Effect
<1> QED BY <1>5, <1>6, <1>7 DEF Leads, v, g

\* It puts down the third, and the chassis goes on.
LEMMA PutLast ==
  ASSUME NEW k, NEW t \in {"TPRough1", "TPRough2", "PutStag1", "PutStag2"}, NEW o, NEW n,
         NEW a, NEW e, NEW y, NEW l, NEW c, NEW s \in Color, NEW h, NEW x, NEW how, NEW d, NEW r \in BOOLEAN,
         k.code # NoCode, c # "Grasp", how = IF t = "PutStag2" THEN "StackUp" ELSE "Normal",
         r => t = "PutStag2",
         NEW z, z = IF Area(t) = "Rough" THEN "plate1" ELSE "plate2", ~k.direct => Movable(x, Piece(t, s), z),
         NEW q, q = IF t = "PutStag1" THEN Ring("Rough", "red")
                    ELSE IF t = "PutStag2" THEN Start ELSE Ring("Rough", d)
  PROVE  Leads(k, Ground_PutAction(how, d, r),
               View(Who(t, o, 2, n, a, e, y), <<l, "Reset", c>>, s, Ring(Area(t), s), h, x),
               View(Who(t, o, 0, n, a, e, y),
                    <<IF t = "PutStag2" THEN "Reset" ELSE "Places", IF r THEN "Reset" ELSE "Vision", "Avoid">>,
                    IF d \in Color THEN d ELSE s, q, None, MovedOn(k, x, Piece(t, s))))
<1> DEFINE v == View(Who(t, o, 2, n, a, e, y), <<l, "Reset", c>>, s, Ring(Area(t), s), h, x)
           g == Ground_PutAction(how, d, r)
           w == View(Who(t, o, 0, n, a, e, y),
                     <<IF t = "PutStag2" THEN "Reset" ELSE "Places", IF r THEN "Reset" ELSE "Vision", "Avoid">>,
                     IF d \in Color THEN d ELSE s, q, None, MovedOn(k, x, Piece(t, s)))
<1>1. /\ v.who.task = t /\ v.who.old = o /\ v.who.put = 2 /\ v.who.take = n /\ v.who.act = a
      /\ v.who.seen = e /\ v.who.last = y
      /\ v.arm[2] = "Reset" /\ v.arm[3] = c /\ v.slot = s /\ v.place = Ring(Area(t), s) /\ v.stop = x
  BY DEF View, Who
<1>2. /\ g.op = "put" /\ g.how = how /\ g.color = d /\ g.rotate = r /\ ~Closes(g) /\ ~Opens(g)
      /\ g.op \notin Takes
  BY DEF Ground_PutAction, Closes, Opens, Takes
<1>3. ~(2 + 1 < 3) /\ (2 + 1) % 3 = 0
  OBVIOUS
<1> HIDE DEF v, g
<1>4. CanPut(k, g, v)
  BY <1>1, <1>2, <1>3 DEF CanPut, Free
<1>5. Staged(k, v) /\ Before(k, g, v)
  BY <1>1, <1>2, <1>4 DEF Staged, Before
<1>6. AfterPut(k, g, v) = w
  BY <1>1, <1>2, <1>3 DEF AfterPut
<1>7. Effect(k, g, v, AfterPut(k, g, v))
  BY <1>2 DEF Effect
<1> QED BY <1>5, <1>6, <1>7 DEF Leads, v, g

\* What Ground_TakeAction needs.
LEMMA GroundTakeLeads ==
  ASSUME NEW k, NEW t \in {"TPRough1", "TPRough2"}, NEW o, NEW m, NEW n \in 0 .. 2,
         NEW a, NEW e, NEW y, NEW l, NEW c, NEW s \in Color, NEW h, NEW x, NEW d,
         k.code # NoCode, c # "Grasp", ~k.direct => Movable(x, Piece(t, s), "rough")
  PROVE  Leads(k, Ground_TakeAction(d),
               View(Who(t, o, m, n, a, e, y), <<l, "Vision", c>>, s, Ring("Rough", s), h, x),
               View(Who(t, o, m, (n + 1) % 3, a, e, y), <<"Stuff", "Vision", "Release">>, d,
                    Ring(IF n < 2 THEN "Rough" ELSE "Staging", d), None, MovedOn(k, x, Piece(t, s))))
<1> DEFINE v == View(Who(t, o, m, n, a, e, y), <<l, "Vision", c>>, s, Ring("Rough", s), h, x)
           g == Ground_TakeAction(d)
<1>1. /\ v.who.task = t /\ v.who.old = o /\ v.who.put = m /\ v.who.take = n /\ v.who.act = a
      /\ v.who.seen = e /\ v.who.last = y
      /\ v.arm[2] = "Vision" /\ v.arm[3] = c /\ v.slot = s /\ v.place = Ring("Rough", s) /\ v.stop = x
  BY DEF View, Who
<1>2. g.op = "ground_take" /\ g.color = d /\ ~Closes(g) /\ ~Opens(g) /\ g.op \notin Takes
  BY DEF Ground_TakeAction, Closes, Opens, Takes
<1>3. n + 1 < 3 <=> n < 2
  OBVIOUS
<1> HIDE DEF v, g
<1>4. CanTake(k, v)
  BY <1>1, <1>2 DEF CanTake, Free
<1>5. Staged(k, v) /\ Before(k, g, v)
  BY <1>1, <1>2, <1>4 DEF Staged, Before
<1>6. AfterGroundTake(k, g, v) =
        View(Who(t, o, m, (n + 1) % 3, a, e, y), <<"Stuff", "Vision", "Release">>, d,
             Ring(IF n < 2 THEN "Rough" ELSE "Staging", d), None, MovedOn(k, x, Piece(t, s)))
  BY <1>1, <1>2, <1>3 DEF AfterGroundTake
<1>7. Effect(k, g, v, AfterGroundTake(k, g, v))
  BY <1>2 DEF Effect
<1> QED BY <1>5, <1>6, <1>7 DEF Leads, v, g

\* The objects of the colours c1, c2 and c3 move on one after the other, and with
\* them their batch b, from y.
BatchMoves(k, x, t, b, y, c1, c2, c3) ==
  LET x1 == MovedOn(k, x, Piece(t, c1))
      x2 == MovedOn(k, x1, Piece(t, c2))
      x3 == MovedOn(k, x2, Piece(t, c3))
  IN  /\ Movable(x, Piece(t, c1), y) /\ Movable(x1, Piece(t, c2), y) /\ Movable(x2, Piece(t, c3), y)
      /\ AllAt(x3, b, Sort!After(y))

\* When the three objects of a batch have moved on, the batch has.
LEMMA ThreeMoved ==
  ASSUME NEW k, ~k.direct, NEW x, NEW t, NEW b \in 1 .. 2, BatchOf(t) = b, NEW y \in Stops \ {"staging"},
         AllAt(x, b, y), NEW c1 \in Color, NEW c2 \in Color, NEW c3 \in Color, c1 # c2, c1 # c3, c2 # c3
  PROVE  BatchMoves(k, x, t, b, y, c1, c2, c3)
<1> DEFINE p1 == Piece(t, c1)
           p2 == Piece(t, c2)
           p3 == Piece(t, c3)
           z == Sort!After(y)
           other == IF b = 1 THEN "raw" ELSE "staging"
           x1 == MovedOn(k, x, p1)
           x2 == MovedOn(k, x1, p2)
           x3 == MovedOn(k, x2, p3)
<1>1. /\ p1 \in Object /\ p2 \in Object /\ p3 \in Object /\ p1 # p2 /\ p1 # p3 /\ p2 # p3
      /\ p1.batch = b /\ p2.batch = b /\ p3.batch = b
      /\ \A p \in Object : p.batch = b => p \in {p1, p2, p3}
  <2>1. \A c \in Color : c \in {c1, c2, c3}
    BY DEF Color
  <2>2. p1 \in Object /\ p2 \in Object /\ p3 \in Object /\ p1.batch = b /\ p2.batch = b /\ p3.batch = b
    BY DEF Piece, Object
  <2>3. p1.color = c1 /\ p2.color = c2 /\ p3.color = c3
    BY DEF Piece
  <2>4. ASSUME NEW p \in Object, p.batch = b PROVE p \in {p1, p2, p3}
    <3>1. p = [batch |-> b, color |-> p.color] /\ p.color \in Color
      BY <2>4 DEF Object
    <3> QED BY <2>1, <3>1 DEF Piece
  <2> QED BY <2>2, <2>3, <2>4
<1> HIDE DEF p1, p2, p3
<1>2. \A p \in Object : x[p] = IF p.batch = b THEN y ELSE other
  BY DEF AllAt
<1>3. /\ \A p \in Object : x1[p] = IF p = p1 THEN Sort!After(x[p]) ELSE x[p]
      /\ \A p \in Object : x2[p] = IF p = p2 THEN Sort!After(x1[p]) ELSE x1[p]
      /\ \A p \in Object : x3[p] = IF p = p3 THEN Sort!After(x2[p]) ELSE x2[p]
  BY DEF MovedOn
<1> HIDE DEF x1, x2, x3
<1>4. \A p \in Object : x1[p] = IF p = p1 THEN z ELSE IF p.batch = b THEN y ELSE other
  BY <1>1, <1>2, <1>3
<1>5. \A p \in Object : x2[p] = IF p \in {p1, p2} THEN z ELSE IF p.batch = b THEN y ELSE other
  BY <1>1, <1>3, <1>4
<1>6. \A p \in Object : x3[p] = IF p \in {p1, p2, p3} THEN z ELSE other
  BY <1>1, <1>3, <1>5
<1> HIDE DEF z
<1>7. AllAt(x3, b, z)
  BY <1>1, <1>6 DEF AllAt
<1>8. Movable(x, p1, y) /\ Movable(x1, p2, y) /\ Movable(x2, p3, y)
  BY <1>1, <1>2, <1>4, <1>5 DEF Movable, z
<1> QED BY <1>7, <1>8 DEF BatchMoves, x1, x2, x3, p1, p2, p3, z

\* Unless it is DirectGrab, they move on from z to w.
LEMMA BatchMoved ==
  ASSUME NEW k, NEW x, NEW t, NEW d1 \in Color, NEW d2 \in Color, NEW d3 \in Color, d1 # d2, d1 # d3, d2 # d3,
         NEW z \in {"raw", "plate1", "rough", "plate2"}, ~k.direct => AllAt(x, BatchOf(t), z)
  PROVE  ~k.direct => BatchMoves(k, x, t, BatchOf(t), z, d1, d2, d3)
<1> DEFINE n == BatchOf(t)
<1>1. n \in 1 .. 2 /\ BatchOf(t) = n /\ z \in Stops \ {"staging"}
  BY StopNames DEF BatchOf
<1>2. CASE ~k.direct
  <2>1. AllAt(x, n, z)
    BY <1>2
  <2> HIDE DEF n
  <2>2. BatchMoves(k, x, t, n, z, d1, d2, d3)
    BY <1>1, <1>2, <2>1, ThreeMoved
  <2> QED BY <2>2 DEF n
<1> QED BY <1>2
-----------------------------------------------------------------------------
(***************************************************************************)
(* The rounds of the tasks with action groups.                             *)
(***************************************************************************)

\* The stops of a batch whose objects are moved on in the order of the digits d.
Moved3(k, x, t, d) ==
  MovedOn(k, MovedOn(k, MovedOn(k, x, Piece(t, d[1])), Piece(t, d[2])), Piece(t, d[3]))

\* A take of three objects from the turntable.
LEMMA TakeRawThreePath ==
  ASSUME NEW k, NEW t \in {"TakeRaw1", "TakeRaw2"}, NEW o, NEW e, NEW y, NEW l, NEW c, NEW s, NEW p, NEW h,
         NEW x, NEW d \in [1 .. 3 -> Color], d[1] # d[2], d[1] # d[3], d[2] # d[3],
         c # "Grasp", k.code # NoCode, First(k, t) = d[1], ~k.direct => AllAt(x, BatchOf(t), "raw")
  PROVE  /\ Path(k, TakeRawThree(d), View(Who(t, o, 0, 0, 0, e, y), <<l, "Vision", c>>, s, p, h, x),
                 View(Who("Calibrat", t, 0, 0, 0, Told(k, d[3]), Any), <<"Aim", "Vision", "Avoid">>, d[1],
                      Ring("Rough", d[1]), None, Moved3(k, x, t, d)))
         /\ ~k.direct => AllAt(Moved3(k, x, t, d), BatchOf(t), "plate1")
<1> DEFINE d1 == d[1]
           d2 == d[2]
           d3 == d[3]
           x1 == MovedOn(k, x, Piece(t, d1))
           x2 == MovedOn(k, x1, Piece(t, d2))
           x3 == MovedOn(k, x2, Piece(t, d3))
           q == Ring("Rough", d1)
           b0 == Who(t, o, 0, 0, 0, e, y)
           b1 == Who(t, o, 0, 0, 1, Told(k, d1), Any)
           b2 == Who(t, o, 0, 0, 2, Told(k, d2), Any)
           b3 == Who(t, o, 0, 0, 0, Told(k, d3), Any)
           b4 == Who("Calibrat", t, 0, 0, 0, Told(k, d3), Any)
           v0 == View(b0, <<l, "Vision", c>>, s, p, h, x)
           v1 == View(b1, <<"RawArea", "Vision", "Release">>, Told(k, d1), p, None, x1)
           v2 == View(b2, <<"RawArea", "Vision", "Release">>, Told(k, d2), p, None, x2)
           v3 == View(b3, <<"Stuff", "Reset", "Release">>, Told(k, d3), q, None, x3)
           v4 == View(b3, <<"Stuff", "Vision", "Release">>, Told(k, d3), q, None, x3)
           v5 == View(b3, <<"Stuff", "Vision", "Avoid">>, Told(k, d3), q, None, x3)
           v6 == View(b3, <<"Aim", "Vision", "Avoid">>, Told(k, d3), q, None, x3)
           v7 == View(b3, <<"Aim", "Vision", "Avoid">>, d1, q, None, x3)
           v8 == View(b4, <<"Aim", "Vision", "Avoid">>, d1, q, None, x3)
           i1 == IdentifyColorTake(TRUE, d1)
           i2 == IdentifyColorTake(FALSE, d2)
           i3 == IdentifyColorTake(FALSE, d3)
<1>1. /\ d1 \in Color /\ d2 \in Color /\ d3 \in Color /\ d1 # d2 /\ d1 # d3 /\ d2 # d3
      /\ b3.task = t /\ b3.task # "Restart" /\ t # "Restart"
  BY DEF Who
<1>2. /\ ~k.direct => Movable(x, Piece(t, d1), "raw")
      /\ ~k.direct => Movable(x1, Piece(t, d2), "raw")
      /\ ~k.direct => Movable(x2, Piece(t, d3), "raw")
      /\ ~k.direct => AllAt(x3, BatchOf(t), "plate1")
  <2>1. "raw" \in {"raw", "plate1", "rough", "plate2"}
    OBVIOUS
  <2> HIDE DEF d1, d2, d3
  <2>2. ~k.direct => BatchMoves(k, x, t, BatchOf(t), "raw", d1, d2, d3)
    BY <1>1, <2>1, BatchMoved
  <2> QED BY <2>2, StopNames DEF BatchMoves
<1> HIDE DEF d1, d2, d3, x1, x2, x3
<1>3. /\ Leads(k, MutexTake, v0, v0) /\ Leads(k, i1, v0, v1) /\ Leads(k, i2, v1, v2) /\ Leads(k, i3, v2, v3)
      /\ Leads(k, Delay, v3, v3)
  <2>1. Leads(k, MutexTake, v0, v0)
    <3>1. Staged(k, v0)
      BY <1>1 DEF Staged, View, Who
    <3> HIDE DEF v0
    <3> QED BY <3>1, QuietLeads
  <2>2. Leads(k, i1, v0, v1)
    <3>1. 0 \in {0, 1} /\ 0 + 1 = 1 /\ TRUE \in BOOLEAN
      OBVIOUS
    <3> QED BY <1>2, <3>1, IdentifyLeads DEF x1
  <2>3. Leads(k, i2, v1, v2)
    <3>1. 1 \in {0, 1} /\ 1 + 1 = 2 /\ FALSE \in BOOLEAN /\ 1 # 0
      OBVIOUS
    <3> QED BY <1>2, <3>1, IdentifyLeads DEF x2
  <2>4. Leads(k, i3, v2, v3)
    BY <1>2, IdentifyLast DEF x3, d1
  <2>5. Leads(k, Delay, v3, v3)
    <3>1. Staged(k, v3)
      BY <1>1 DEF Staged, View, Who
    <3> HIDE DEF v3
    <3> QED BY <3>1, QuietLeads
  <2> QED BY <2>1, <2>2, <2>3, <2>4, <2>5
<1>4. /\ Leads(k, MotorMotion_Rotate("Vision"), v3, v4) /\ Leads(k, ArmClipTakeState("Avoid"), v4, v5)
      /\ Leads(k, MotorMotion_Lift("Aim"), v5, v6) /\ Leads(k, MaterialPosition(d1), v6, v7)
      /\ Leads(k, MutexRelease, v7, v7) /\ Leads(k, CalibratThenOn, v7, v8)
  <2> HIDE DEF b3
  <2>1. Leads(k, MotorMotion_Rotate("Vision"), v3, v4)
    BY <1>1, RotateLeads
  <2>2. Leads(k, ArmClipTakeState("Avoid"), v4, v5)
    BY <1>1, OpenLeads
  <2>3. Leads(k, MotorMotion_Lift("Aim"), v5, v6)
    BY <1>1, LiftLeads
  <2>4. Leads(k, MaterialPosition(d1), v6, v7)
    BY <1>1, PlateLeads
  <2>5. Staged(k, v7)
    BY <1>1 DEF Staged, View
  <2>6. Leads(k, MutexRelease, v7, v7)
    <3> HIDE DEF v7
    <3> QED BY <2>5, QuietLeads
  <2>7. Leads(k, CalibratThenOn, v7, v8)
    <3>1. CalibratThenOn \in {[op |-> "goto", task |-> "Calibrat", keep |-> TRUE]}
      BY DEF CalibratThenOn
    <3>2. b4 = Who("Calibrat", IF TRUE THEN b3.task ELSE b3.old, b3.put, b3.take, b3.act, b3.seen, b3.last)
      BY DEF b3, Who
    <3> HIDE DEF b4
    <3> QED BY <2>5, <3>1, <3>2, GotoLeads
  <2> QED BY <2>1, <2>2, <2>3, <2>4, <2>6, <2>7
<1>5. Path(k, <<MutexTake, i1, i2, i3, Delay, Delay, Delay,
                MotorMotion_Rotate("Vision"), ArmClipTakeState("Avoid"), MotorMotion_Lift("Aim"),
                MaterialPosition(d1), MutexRelease, CalibratThenOn>>, v0, v8)
  <2> HIDE DEF v0, v1, v2, v3, v4, v5, v6, v7, v8, i1, i2, i3
  <2> QED BY <1>3, <1>4, LeadsMoves, Path13
<1>6. Moved3(k, x, t, d) = x3
  BY DEF Moved3, x1, x2, x3, d1, d2, d3
<1>7. Path(k, TakeRawThree(d), v0, v8)
  BY <1>5 DEF TakeRawThree, d1, d2, d3
<1> QED BY <1>2, <1>6, <1>7 DEF d1, d3

\* Three puts, of the objects of the digits d: from the arm at l with the clip c to
\* the arm at up, turned, the plate at slot and the chassis sent to q.
ThreePuts(k, t, o, e, y, l, c, h, x, d, how, f, r, area, z1, up, turned, slot, q) ==
  LET b  == Who(t, o, 0, 0, 0, e, y)
      b1 == Who(t, o, 1, 0, 0, e, y)
      b2 == Who(t, o, 2, 0, 0, e, y)
      x1 == MovedOn(k, x, Piece(t, d[1]))
      x2 == MovedOn(k, x1, Piece(t, d[2]))
      v0 == View(b, <<l, "Reset", c>>, d[1], Ring(area, d[1]), h, x)
      v1 == View(b1, <<"Reset", "Reset", "Avoid">>, d[2], Ring(area, d[2]), None, x1)
      v2 == View(b2, <<"Reset", "Reset", "Avoid">>, d[3], Ring(area, d[3]), None, x2)
      v3 == View(b, <<up, turned, "Avoid">>, slot, q, None, Moved3(k, x, t, d))
  IN  /\ Leads(k, Ground_PutAction(how, d[2], TRUE), v0, v1)
      /\ Leads(k, Ground_PutAction(how, d[3], TRUE), v1, v2)
      /\ Leads(k, Ground_PutAction(how, f, r), v2, v3)
      /\ ~k.direct => AllAt(Moved3(k, x, t, d), BatchOf(t), z1)

\* What the three puts of the task t need.
CanPutThree(k, t, c, x, d, how, f, r, area, z1, up, turned, slot, q) ==
  /\ t \in {"TPRough1", "TPRough2", "PutStag1", "PutStag2"} /\ k.code # NoCode /\ c # "Grasp"
  /\ d \in [1 .. 3 -> Color] /\ d[1] # d[2] /\ d[1] # d[3] /\ d[2] # d[3]
  /\ how = IF t = "PutStag2" THEN "StackUp" ELSE "Normal"
  /\ r \in BOOLEAN /\ (r => t = "PutStag2")
  /\ area = Area(t) /\ z1 = IF area = "Rough" THEN "rough" ELSE "staging"
  /\ ~k.direct => AllAt(x, BatchOf(t), IF area = "Rough" THEN "plate1" ELSE "plate2")
  /\ up = IF t = "PutStag2" THEN "Reset" ELSE "Places"
  /\ turned = IF r THEN "Reset" ELSE "Vision"
  /\ slot = IF f \in Color THEN f ELSE d[3]
  /\ q = IF t = "PutStag1" THEN Ring("Rough", "red")
         ELSE IF t = "PutStag2" THEN Start ELSE Ring("Rough", f)

\* The three puts of a task, each on the ring of its colour.
LEMMA PutThreeLeads ==
  ASSUME NEW k, NEW t, NEW o, NEW e, NEW y, NEW l, NEW c, NEW h, NEW x, NEW d, NEW how, NEW f, NEW r,
         NEW area, NEW z1, NEW up, NEW turned, NEW slot, NEW q,
         CanPutThree(k, t, c, x, d, how, f, r, area, z1, up, turned, slot, q)
  PROVE  ThreePuts(k, t, o, e, y, l, c, h, x, d, how, f, r, area, z1, up, turned, slot, q)
<1> DEFINE z == IF area = "Rough" THEN "plate1" ELSE "plate2"
<1>0. /\ t \in {"TPRough1", "TPRough2", "PutStag1", "PutStag2"} /\ k.code # NoCode /\ c # "Grasp"
      /\ d \in [1 .. 3 -> Color] /\ d[1] # d[2] /\ d[1] # d[3] /\ d[2] # d[3]
      /\ how = (IF t = "PutStag2" THEN "StackUp" ELSE "Normal")
      /\ r \in BOOLEAN /\ (r => t = "PutStag2")
      /\ area = Area(t) /\ z1 = (IF area = "Rough" THEN "rough" ELSE "staging")
      /\ (~k.direct => AllAt(x, BatchOf(t), z)) /\ z = (IF area = "Rough" THEN "plate1" ELSE "plate2")
      /\ up = (IF t = "PutStag2" THEN "Reset" ELSE "Places")
      /\ turned = (IF r THEN "Reset" ELSE "Vision")
      /\ slot = (IF f \in Color THEN f ELSE d[3])
      /\ q = (IF t = "PutStag1" THEN Ring("Rough", "red")
             ELSE IF t = "PutStag2" THEN Start ELSE Ring("Rough", f))
  BY Zenon DEF CanPutThree
<1> HIDE DEF z
<1> DEFINE d1 == d[1]
           d2 == d[2]
           d3 == d[3]
           b  == Who(t, o, 0, 0, 0, e, y)
           b1 == Who(t, o, 1, 0, 0, e, y)
           b2 == Who(t, o, 2, 0, 0, e, y)
           x1 == MovedOn(k, x, Piece(t, d1))
           x2 == MovedOn(k, x1, Piece(t, d2))
           x3 == MovedOn(k, x2, Piece(t, d3))
           v0 == View(b, <<l, "Reset", c>>, d1, Ring(area, d1), h, x)
           v1 == View(b1, <<"Reset", "Reset", "Avoid">>, d2, Ring(area, d2), None, x1)
           v2 == View(b2, <<"Reset", "Reset", "Avoid">>, d3, Ring(area, d3), None, x2)
           v3 == View(b, <<up, turned, "Avoid">>, slot, q, None, x3)
<1>1. d1 \in Color /\ d2 \in Color /\ d3 \in Color /\ d1 # d2 /\ d1 # d3 /\ d2 # d3
  BY <1>0
<1>2. /\ ~k.direct => Movable(x, Piece(t, d1), z)
      /\ ~k.direct => Movable(x1, Piece(t, d2), z)
      /\ ~k.direct => Movable(x2, Piece(t, d3), z)
      /\ ~k.direct => AllAt(x3, BatchOf(t), Sort!After(z))
  <2>1. z \in {"raw", "plate1", "rough", "plate2"}
    BY <1>0
  <2> HIDE DEF d1, d2, d3
  <2>2. ~k.direct => BatchMoves(k, x, t, BatchOf(t), z, d1, d2, d3)
    BY <1>0, <1>1, <2>1, BatchMoved
  <2> QED BY <2>2 DEF BatchMoves
<1>3. Sort!After(z) = z1
  BY <1>0, StopNames
<1> HIDE DEF d1, d2, d3, x1, x2, x3
<1>4. Leads(k, Ground_PutAction(how, d2, TRUE), v0, v1)
  <2>1. 0 \in {0, 1} /\ 0 + 1 = 1
    OBVIOUS
  <2> QED BY <1>0, <1>1, <1>2, <2>1, PutMore DEF x1
<1>5. Leads(k, Ground_PutAction(how, d3, TRUE), v1, v2)
  <2>1. 1 \in {0, 1} /\ 1 + 1 = 2 /\ "Avoid" # "Grasp"
    OBVIOUS
  <2> QED BY <1>0, <1>1, <1>2, <2>1, PutMore DEF x2
<1>6. Leads(k, Ground_PutAction(how, f, r), v2, v3)
  <2>1. "Avoid" # "Grasp"
    OBVIOUS
  <2>2. Leads(k, Ground_PutAction(how, f, r), v2,
              View(b, <<IF t = "PutStag2" THEN "Reset" ELSE "Places", IF r THEN "Reset" ELSE "Vision", "Avoid">>,
                   IF f \in Color THEN f ELSE d3, q, None, x3))
    BY <1>0, <1>1, <1>2, <2>1, PutLast DEF x3
  <2> QED BY <1>0, <2>2 DEF d3
<1>7. Moved3(k, x, t, d) = x3
  BY DEF Moved3, x1, x2, x3, d1, d2, d3
<1> QED BY <1>2, <1>3, <1>4, <1>5, <1>6, <1>7 DEF ThreePuts, d1, d2, d3, x1, x2

\* The three takes from the rings, in the order of the puts.
LEMMA TakeThreeLeads ==
  ASSUME NEW k, NEW t \in {"TPRough1", "TPRough2"}, NEW o, NEW e, NEW y, NEW l, NEW c,
         NEW h, NEW x, NEW d \in [1 .. 3 -> Color], d[1] # d[2], d[1] # d[3], d[2] # d[3],
         c # "Grasp", k.code # NoCode, ~k.direct => AllAt(x, BatchOf(t), "rough")
  PROVE  LET b  == Who(t, o, 0, 0, 0, e, y)
             b1 == Who(t, o, 0, 1, 0, e, y)
             b2 == Who(t, o, 0, 2, 0, e, y)
             x1 == MovedOn(k, x, Piece(t, d[1]))
             x2 == MovedOn(k, x1, Piece(t, d[2]))
             a  == <<"Stuff", "Vision", "Release">>
             v0 == View(b, <<l, "Vision", c>>, d[1], Ring("Rough", d[1]), h, x)
             v1 == View(b1, a, d[2], Ring("Rough", d[2]), None, x1)
             v2 == View(b2, a, d[3], Ring("Rough", d[3]), None, x2)
             v3 == View(b, a, d[1], Ring("Staging", d[1]), None, Moved3(k, x, t, d))
         IN  /\ Leads(k, Ground_TakeAction(d[2]), v0, v1) /\ Leads(k, Ground_TakeAction(d[3]), v1, v2)
             /\ Leads(k, Ground_TakeAction(d[1]), v2, v3)
             /\ ~k.direct => AllAt(Moved3(k, x, t, d), BatchOf(t), "plate2")
<1> DEFINE d1 == d[1]
           d2 == d[2]
           d3 == d[3]
           b  == Who(t, o, 0, 0, 0, e, y)
           b1 == Who(t, o, 0, 1, 0, e, y)
           b2 == Who(t, o, 0, 2, 0, e, y)
           x1 == MovedOn(k, x, Piece(t, d1))
           x2 == MovedOn(k, x1, Piece(t, d2))
           x3 == MovedOn(k, x2, Piece(t, d3))
           a  == <<"Stuff", "Vision", "Release">>
           v0 == View(b, <<l, "Vision", c>>, d1, Ring("Rough", d1), h, x)
           v1 == View(b1, a, d2, Ring("Rough", d2), None, x1)
           v2 == View(b2, a, d3, Ring("Rough", d3), None, x2)
           v3 == View(b, a, d1, Ring("Staging", d1), None, x3)
<1>1. d1 \in Color /\ d2 \in Color /\ d3 \in Color /\ d1 # d2 /\ d1 # d3 /\ d2 # d3
  OBVIOUS
<1>2. /\ ~k.direct => Movable(x, Piece(t, d1), "rough")
      /\ ~k.direct => Movable(x1, Piece(t, d2), "rough")
      /\ ~k.direct => Movable(x2, Piece(t, d3), "rough")
      /\ ~k.direct => AllAt(x3, BatchOf(t), "plate2")
  <2>1. "rough" \in {"raw", "plate1", "rough", "plate2"}
    OBVIOUS
  <2> HIDE DEF d1, d2, d3
  <2>2. ~k.direct => BatchMoves(k, x, t, BatchOf(t), "rough", d1, d2, d3)
    BY <1>1, <2>1, BatchMoved
  <2> QED BY <2>2, StopNames DEF BatchMoves
<1> HIDE DEF d1, d2, d3, x1, x2, x3
<1>3. /\ 0 \in 0 .. 2 /\ 0 < 2 /\ (0 + 1) % 3 = 1 /\ 1 \in 0 .. 2 /\ 1 < 2 /\ (1 + 1) % 3 = 2
      /\ 2 \in 0 .. 2 /\ ~(2 < 2) /\ (2 + 1) % 3 = 0 /\ "Release" # "Grasp"
  OBVIOUS
<1>4. Leads(k, Ground_TakeAction(d2), v0, v1)
  <2> DEFINE w == View(Who(t, o, 0, (0 + 1) % 3, 0, e, y), <<"Stuff", "Vision", "Release">>, d2,
                       Ring(IF 0 < 2 THEN "Rough" ELSE "Staging", d2), None, MovedOn(k, x, Piece(t, d1)))
  <2>1. w = v1
    BY <1>3 DEF x1
  <2>2. Leads(k, Ground_TakeAction(d2), v0, w)
    BY <1>1, <1>2, <1>3, GroundTakeLeads
  <2> QED BY <2>1, <2>2
<1>5. Leads(k, Ground_TakeAction(d3), v1, v2)
  <2> DEFINE w == View(Who(t, o, 0, (1 + 1) % 3, 0, e, y), <<"Stuff", "Vision", "Release">>, d3,
                       Ring(IF 1 < 2 THEN "Rough" ELSE "Staging", d3), None, MovedOn(k, x1, Piece(t, d2)))
  <2>1. w = v2
    BY <1>3 DEF x2
  <2>2. Leads(k, Ground_TakeAction(d3), v1, w)
    BY <1>1, <1>2, <1>3, GroundTakeLeads
  <2> QED BY <2>1, <2>2
<1>6. Leads(k, Ground_TakeAction(d1), v2, v3)
  <2> DEFINE w == View(Who(t, o, 0, (2 + 1) % 3, 0, e, y), <<"Stuff", "Vision", "Release">>, d1,
                       Ring(IF 2 < 2 THEN "Rough" ELSE "Staging", d1), None, MovedOn(k, x2, Piece(t, d3)))
  <2>1. w = v3
    BY <1>3 DEF x3
  <2>2. Leads(k, Ground_TakeAction(d1), v2, w)
    BY <1>1, <1>2, <1>3, GroundTakeLeads
  <2> QED BY <2>1, <2>2
<1>7. Moved3(k, x, t, d) = x3
  BY DEF Moved3, x1, x2, x3, d1, d2, d3
<1> QED BY <1>2, <1>4, <1>5, <1>6, <1>7 DEF d1, d2, d3, x1, x2

\* Three objects are put into the rough area and taken up again.
LEMMA PutTakeThreePath ==
  ASSUME NEW k, NEW t \in {"TPRough1", "TPRough2"}, NEW o, NEW e, NEW y, NEW l, NEW c, NEW h, NEW x,
         NEW d \in [1 .. 3 -> Color], d[1] # d[2], d[1] # d[3], d[2] # d[3], NEW height,
         c # "Grasp", k.code # NoCode, ~k.direct => AllAt(x, BatchOf(t), "plate1"),
         height \notin {"Places", "Stack"}
  PROVE  LET z == Moved3(k, Moved3(k, x, t, d), t, d)
         IN  /\ Path(k, PutTakeThree(d, height),
                     View(Who(t, o, 0, 0, 0, e, y), <<l, "Reset", c>>, d[1], Ring("Rough", d[1]), h, x),
                     View(Who("Calibrat", t, 0, 0, 0, e, y), <<height, "Vision", "Avoid">>, d[1],
                          Ring("Staging", d[1]), None, z))
             /\ ~k.direct => AllAt(z, BatchOf(t), "plate2")
<1> DEFINE d1 == d[1]
           d2 == d[2]
           d3 == d[3]
           b  == Who(t, o, 0, 0, 0, e, y)
           b4 == Who("Calibrat", t, 0, 0, 0, e, y)
           x1 == MovedOn(k, x, Piece(t, d1))
           x2 == MovedOn(k, x1, Piece(t, d2))
           x3 == Moved3(k, x, t, d)
           x4 == MovedOn(k, x3, Piece(t, d1))
           x5 == MovedOn(k, x4, Piece(t, d2))
           x6 == Moved3(k, x3, t, d)
           a  == <<"Stuff", "Vision", "Release">>
           v0 == View(b, <<l, "Reset", c>>, d1, Ring("Rough", d1), h, x)
           v1 == View(Who(t, o, 1, 0, 0, e, y), <<"Reset", "Reset", "Avoid">>, d2, Ring("Rough", d2), None, x1)
           v2 == View(Who(t, o, 2, 0, 0, e, y), <<"Reset", "Reset", "Avoid">>, d3, Ring("Rough", d3), None, x2)
           v3 == View(b, <<"Places", "Vision", "Avoid">>, d1, Ring("Rough", d1), None, x3)
           v4 == View(Who(t, o, 0, 1, 0, e, y), a, d2, Ring("Rough", d2), None, x4)
           v5 == View(Who(t, o, 0, 2, 0, e, y), a, d3, Ring("Rough", d3), None, x5)
           v6 == View(b, a, d1, Ring("Staging", d1), None, x6)
           v7 == View(b, <<"Stuff", "Vision", "Avoid">>, d1, Ring("Staging", d1), None, x6)
           v8 == View(b, <<height, "Vision", "Avoid">>, d1, Ring("Staging", d1), None, x6)
           v9 == View(b4, <<height, "Vision", "Avoid">>, d1, Ring("Staging", d1), None, x6)
           p1 == Ground_PutAction("Normal", d2, TRUE)
           p2 == Ground_PutAction("Normal", d3, TRUE)
           p3 == Ground_PutAction("Normal", d1, FALSE)
           g1 == Ground_TakeAction(d2)
           g2 == Ground_TakeAction(d3)
           g3 == Ground_TakeAction(d1)
<1>1. b.task = t /\ b.task # "Restart" /\ t # "Restart" /\ d1 \in Color
  BY DEF Who
<1>2. /\ Leads(k, p1, v0, v1) /\ Leads(k, p2, v1, v2) /\ Leads(k, p3, v2, v3)
      /\ ~k.direct => AllAt(x3, BatchOf(t), "rough")
  <2>1. CanPutThree(k, t, c, x, d, "Normal", d1, FALSE, "Rough", "rough", "Places", "Vision", d1, Ring("Rough", d1))
    BY <1>1 DEF CanPutThree, Area
  <2>2. ThreePuts(k, t, o, e, y, l, c, h, x, d, "Normal", d1, FALSE, "Rough", "rough", "Places", "Vision", d1,
                  Ring("Rough", d1))
    BY <2>1, PutThreeLeads
  <2> QED BY <2>2 DEF ThreePuts
<1>3. /\ Leads(k, g1, v3, v4) /\ Leads(k, g2, v4, v5) /\ Leads(k, g3, v5, v6)
      /\ ~k.direct => AllAt(x6, BatchOf(t), "plate2")
  <2> HIDE DEF x3
  <2>1. "Avoid" # "Grasp"
    OBVIOUS
  <2> QED BY <1>2, <2>1, TakeThreeLeads, ZenonT(60)
<1> HIDE DEF d1, d2, d3, x3, x6
<1>4. Leads(k, MutexTake, v0, v0)
  <2>1. Staged(k, v0)
    BY <1>1 DEF Staged, View
  <2> HIDE DEF v0
  <2> QED BY <2>1, QuietLeads
<1>5. /\ Leads(k, ArmClipTakeState("Avoid"), v6, v7) /\ Leads(k, MotorMotion_Lift(height), v7, v8)
      /\ Leads(k, MutexRelease, v8, v8) /\ Leads(k, CalibratThenOn, v8, v9)
  <2>1. b4 = Who("Calibrat", IF TRUE THEN b.task ELSE b.old, b.put, b.take, b.act, b.seen, b.last)
    BY DEF Who
  <2> HIDE DEF b, b4
  <2>2. Leads(k, ArmClipTakeState("Avoid"), v6, v7)
    BY <1>1, OpenLeads
  <2>3. Leads(k, MotorMotion_Lift(height), v7, v8)
    BY <1>1, LiftLeads
  <2>4. Staged(k, v8)
    BY <1>1 DEF Staged, View
  <2>5. Leads(k, MutexRelease, v8, v8)
    <3> HIDE DEF v8
    <3> QED BY <2>4, QuietLeads
  <2>6. Leads(k, CalibratThenOn, v8, v9)
    <3>1. CalibratThenOn \in {[op |-> "goto", task |-> "Calibrat", keep |-> TRUE]}
      BY DEF CalibratThenOn
    <3> QED BY <2>1, <2>4, <3>1, GotoLeads
  <2> QED BY <2>2, <2>3, <2>5, <2>6
<1>6. Path(k, <<MutexTake, p1, p2, p3, g1, g2, g3, ArmClipTakeState("Avoid"), MotorMotion_Lift(height),
                MutexRelease, CalibratThenOn>>, v0, v9)
  <2> HIDE DEF v0, v1, v2, v3, v4, v5, v6, v7, v8, v9, p1, p2, p3, g1, g2, g3
  <2> QED BY <1>2, <1>3, <1>4, <1>5, LeadsMoves, Path11
<1>7. Path(k, PutTakeThree(d, height), v0, v9)
  BY <1>6 DEF PutTakeThree, d1, d2, d3
<1> QED BY <1>3, <1>7 DEF d1, x3, x6
-----------------------------------------------------------------------------
(***************************************************************************)
(* The rounds: what the case of a task needs, and that it leaves what the  *)
(* task after it needs.                                                    *)
(***************************************************************************)
Goal(t, o) == IF t = "Calibrat" THEN AfterCalibrat[o] ELSE t

\* Where the objects are before the case of the task t.
ReadyStop(t, x) ==
  /\ t = "TaskStart" => AllAt(x, 1, "raw") \/ AllAt(x, 2, "staging")
  /\ t \in {"ScanQR", "TakeRaw1"} => AllAt(x, 1, "raw")
  /\ t \in {"GoRough", "TPRough1"} => AllAt(x, 1, "plate1")
  /\ t \in {"GoStaging", "PutStag1"} => AllAt(x, 1, "plate2")
  /\ t \in {"PassRough", "TakeRaw2"} => AllAt(x, 2, "raw")
  /\ t \in {"GoRough2", "TPRough2"} => AllAt(x, 2, "plate1")
  /\ t \in {"GoStag2", "PutStag2"} => AllAt(x, 2, "plate2")
  /\ t = "Restart" => AllAt(x, 2, "staging")

\* With the arm at l, r, the plate at s and the chassis sent to p.
Ready(k, t, l, r, s, p, x) ==
  /\ t \in Task \ {"Calibrat"}
  /\ t \notin {"TaskStart", "ScanQR"} => k.code # NoCode
  /\ t \in {"TaskStart", "ScanQR", "Restart"} => l = "Reset" /\ r = "Reset"
  /\ t \in {"TakeRaw1", "PassRough", "TakeRaw2"} => r = "Vision"
  /\ t \in {"TPRough1", "PutStag1", "TPRough2", "PutStag2"} => r = "Reset"
  /\ t \in {"GoRough", "TPRough1", "GoStaging", "PutStag1"} => s = k.code[1][1]
  /\ t \in {"GoRough2", "TPRough2", "GoStag2", "PutStag2"} => s = k.code[2][1]
  /\ t \in {"GoRough", "TPRough1", "GoRough2", "TPRough2"} => p = Ring("Rough", s)
  /\ t \in {"PutStag1", "PutStag2"} => p = Ring("Staging", s)
  /\ ~k.direct => ReadyStop(t, x)

\* Between two rounds.
Boundary(k, v) ==
  LET b == v.who
      a == v.arm
  IN  /\ v = View(Who(b.task, b.old, 0, 0, 0, b.seen, b.last), <<a[1], a[2], a[3]>>, v.slot, v.place,
                  v.hold, v.stop)
      /\ a[3] # "Grasp" /\ (b.task = "Calibrat" => b.old \in DOMAIN AfterCalibrat)
      /\ Ready(k, Goal(b.task, b.old), a[1], a[2], v.slot, v.place, v.stop)

\* The calls s lead from v to the end of the round.
Ends(k, s, v) == \E u : Path(k, s, v, u) /\ Boundary(k, u)

\* What a round has to lead to.
LEMMA EndsAt ==
  ASSUME NEW k, NEW q, NEW v, NEW t, NEW o, NEW e, NEW y, NEW l, NEW r, NEW c, NEW s, NEW p, NEW h, NEW x,
         Path(k, q, v, View(Who(t, o, 0, 0, 0, e, y), <<l, r, c>>, s, p, h, x)), c # "Grasp",
         t = "Calibrat" => o \in DOMAIN AfterCalibrat, Ready(k, Goal(t, o), l, r, s, p, x)
  PROVE  Ends(k, q, v)
<1> DEFINE u == View(Who(t, o, 0, 0, 0, e, y), <<l, r, c>>, s, p, h, x)
<1>1. Boundary(k, u)
  <2>1. /\ u.who.task = t /\ u.who.old = o /\ u.who.seen = e /\ u.who.last = y
        /\ u.arm[1] = l /\ u.arm[2] = r /\ u.arm[3] = c
        /\ u.slot = s /\ u.place = p /\ u.hold = h /\ u.stop = x
    BY DEF View, Who
  <2>2. u = View(Who(t, o, 0, 0, 0, e, y), <<l, r, c>>, s, p, h, x)
    OBVIOUS
  <2> HIDE DEF u
  <2> QED BY <2>1, <2>2 DEF Boundary
<1> HIDE DEF u
<1> QED BY <1>1 DEF u, Ends

\* At a boundary a wait may follow.
LEMMA EndsDelay ==
  ASSUME NEW k, NEW s \in Seq(Call), NEW v, Ends(k, s, v)
  PROVE  Ends(k, s \o <<Delay>>, v)
<1>1. PICK u : Path(k, s, v, u) /\ Boundary(k, u)
  BY DEF Ends
<1>2. Staged(k, u)
  BY <1>1 DEF Boundary, Staged, Free, Goal, Ready, ReadyStop
<1>3. Path(k, <<Delay>>, u, u) /\ <<Delay>> \in Seq(Call)
  <2>1. Delay \in Call
    BY Calls1
  <2> QED BY <1>2, <2>1, QuietLeads, PathLead
<1>4. Path(k, s \o <<Delay>>, v, u)
  BY <1>1, <1>3, PathConcat
<1> QED BY <1>1, <1>4 DEF Ends

\* Tasks that only send the chassis off and set the next task.
LEMMA EndsTaskStart ==
  ASSUME NEW k, NEW o, NEW e, NEW y, NEW l, NEW r, NEW c, NEW s, NEW p, NEW h, NEW x, c # "Grasp",
         Ready(k, "TaskStart", l, r, s, p, x)
  PROVE  Ends(k, Body("TaskStart"), View(Who("TaskStart", o, 0, 0, 0, e, y), <<l, r, c>>, s, p, h, x))
<1> DEFINE b == Who("TaskStart", o, 0, 0, 0, e, y)
           z == IF ~k.direct THEN [q \in Object |-> "raw"] ELSE x
           v0 == View(b, <<l, r, c>>, s, p, h, x)
           v1 == View(b, <<l, r, c>>, s, Raw, h, z)
           v2 == View(Who("ScanQR", o, 0, 0, 0, e, y), <<l, r, c>>, s, Raw, h, z)
<1>1. b.task = "TaskStart" /\ "TaskStart" # "Restart" /\ "TaskStart" # "Calibrat"
  BY DEF Who
<1>2. Leads(k, SendOrderToCar(Raw), v0, v1)
  <2>1. /\ SendOrderToCar(Raw).op = "order" /\ SendOrderToCar(Raw).dest = Raw
        /\ ~Closes(SendOrderToCar(Raw)) /\ ~Opens(SendOrderToCar(Raw)) /\ SendOrderToCar(Raw).op \notin Takes
    BY DEF SendOrderToCar, Closes, Opens, Takes
  <2>2. /\ v0.who = b /\ v0.arm[3] = c /\ v0.arm = <<l, r, c>> /\ v0.slot = s /\ v0.place = p /\ v0.hold = h
        /\ v0.stop = x
    BY DEF View
  <2>3. ~k.direct => AllAt(x, 1, "raw") \/ AllAt(x, 2, "staging")
    BY DEF Ready, ReadyStop
  <2> HIDE DEF v0, b
  <2>4. Staged(k, v0) /\ Fresh(k, v0)
    BY <1>1, <2>2, <2>3 DEF Staged, Fresh, Free
  <2>5. v1 = AfterOrder(k, SendOrderToCar(Raw), v0)
    BY <1>1, <2>1, <2>2 DEF AfterOrder
  <2> HIDE DEF v1
  <2> QED BY <2>1, <2>4, <2>5 DEF Leads, Before, Effect
<1>3. Leads(k, Goto("ScanQR"), v1, v2)
  <2>1. Staged(k, v1)
    BY <1>1 DEF Staged, View
  <2>2. Who("ScanQR", o, 0, 0, 0, e, y) = Who("ScanQR", IF FALSE THEN b.task ELSE b.old, b.put, b.take, b.act, b.seen, b.last)
    BY DEF Who
  <2>3. Goto("ScanQR") \in {[op |-> "goto", task |-> "ScanQR", keep |-> FALSE]}
    BY DEF Goto
  <2> HIDE DEF b, z
  <2> QED BY <2>1, <2>2, <2>3, GotoLeads
<1>4. Path(k, Body("TaskStart"), v0, v2)
  <2>1. Body("TaskStart") = <<SendOrderToCar(Raw), Goto("ScanQR")>>
    BY DEF Body
  <2> HIDE DEF v0, v1, v2
  <2> QED BY <1>2, <1>3, <2>1, LeadsMoves, Path2
<1>5. Ready(k, Goal("ScanQR", o), l, r, s, Raw, z)
  <2>1. ~k.direct => AllAt(z, 1, "raw")
    BY DEF AllAt
  <2> HIDE DEF z
  <2> QED BY <2>1 DEF Ready, ReadyStop, Goal, Task
<1> HIDE DEF z
<1> QED BY <1>4, <1>5, EndsAt

\* After the last task the machine stops where it started.
LEMMA EndsRestart ==
  ASSUME NEW k, NEW o, NEW e, NEW y, NEW l, NEW r, NEW c, NEW s, NEW p, NEW h, NEW x, c # "Grasp",
         Ready(k, "Restart", l, r, s, p, x)
  PROVE  Ends(k, Body("Restart"), View(Who("Restart", o, 0, 0, 0, e, y), <<l, r, c>>, s, p, h, x))
<1> DEFINE b == Who("Restart", o, 0, 0, 0, e, y)
           v0 == View(b, <<l, r, c>>, s, p, h, x)
           v1 == View(Who("TaskStart", o, 0, 0, 0, e, y), <<l, r, c>>, s, p, h, x)
<1>1. Staged(k, v0) /\ Staged(k, v1)
  <2>1. v0.stop = x /\ v0.arm[3] = c /\ v1.who.task = "TaskStart"
    BY DEF View, Who
  <2>2. ~k.direct => AllAt(x, 2, "staging")
    BY DEF Ready, ReadyStop
  <2> HIDE DEF v0, v1
  <2> QED BY <2>1, <2>2 DEF Staged, Free
<1>2. Leads(k, Goto("TaskStart"), v0, v1)
  <2>2. Who("TaskStart", o, 0, 0, 0, e, y) = Who("TaskStart", IF FALSE THEN b.task ELSE b.old, b.put, b.take, b.act, b.seen, b.last)
    BY DEF Who
  <2>3. Goto("TaskStart") \in {[op |-> "goto", task |-> "TaskStart", keep |-> FALSE]}
    BY DEF Goto
  <2> HIDE DEF b
  <2> QED BY <1>1, <2>2, <2>3, GotoLeads
<1>3. Path(k, Body("Restart"), v0, v1)
  <2>1. Body("Restart") = <<Goto("TaskStart"), Stop>>
    BY DEF Body
  <2> HIDE DEF v0, v1
  <2>2. Leads(k, Stop, v1, v1)
    BY <1>1, QuietLeads
  <2> QED BY <1>2, <2>1, <2>2, LeadsMoves, Path2
<1>4. Ready(k, Goal("TaskStart", o), l, r, s, p, x)
  BY DEF Ready, ReadyStop, Goal, Task
<1> QED BY <1>3, <1>4, EndsAt

\* After a calibration the task goes on where calibration knows.
LEMMA EndsCalibrat ==
  ASSUME NEW k, NEW o \in DOMAIN AfterCalibrat, NEW e, NEW y, NEW l, NEW r, NEW c, NEW s, NEW p, NEW h, NEW x,
         c # "Grasp", oldTask = o, Ready(k, Goal("Calibrat", o), l, r, s, p, x)
  PROVE  Ends(k, Body("Calibrat"), View(Who("Calibrat", o, 0, 0, 0, e, y), <<l, r, c>>, s, p, h, x))
<1> DEFINE b == Who("Calibrat", o, 0, 0, 0, e, y)
           t == AfterCalibrat[o]
           v0 == View(b, <<l, r, c>>, s, p, h, x)
           v1 == View(Who(t, o, 0, 0, 0, e, y), <<l, r, c>>, s, p, h, x)
<1>1. t # "Calibrat" /\ Goal("Calibrat", o) = t
  BY AfterKnown DEF Goal
<1>2. Body("Calibrat") = <<Goto(t)>>
  BY DEF Body
<1> HIDE DEF t
<1>3. Leads(k, Goto(t), v0, v1)
  <2>1. Staged(k, v0)
    BY DEF Staged, View, Who
  <2>2. Who(t, o, 0, 0, 0, e, y) = Who(t, IF FALSE THEN b.task ELSE b.old, b.put, b.take, b.act, b.seen, b.last)
    BY DEF Who
  <2>3. Goto(t) \in {[op |-> "goto", task |-> t, keep |-> FALSE]}
    BY DEF Goto
  <2> HIDE DEF b
  <2> QED BY <2>1, <2>2, <2>3, GotoLeads
<1>4. Path(k, Body("Calibrat"), v0, v1)
  <2> HIDE DEF v0, v1
  <2> QED BY <1>2, <1>3, PathLead
<1>5. Goal(t, o) = t
  BY <1>1 DEF Goal
<1> QED BY <1>1, <1>4, <1>5, EndsAt

\* The next task is set, and nothing else changes.
LEMMA OnLeads ==
  ASSUME NEW k, NEW t, NEW u, NEW o, NEW e, NEW y, NEW l, NEW r, NEW c, NEW s, NEW p, NEW h, NEW x, c # "Grasp",
         t # "Restart"
  PROVE  /\ Leads(k, Goto(u), View(Who(t, o, 0, 0, 0, e, y), <<l, r, c>>, s, p, h, x),
                  View(Who(u, o, 0, 0, 0, e, y), <<l, r, c>>, s, p, h, x))
         /\ Leads(k, CalibratThenOn, View(Who(t, o, 0, 0, 0, e, y), <<l, r, c>>, s, p, h, x),
                  View(Who("Calibrat", t, 0, 0, 0, e, y), <<l, r, c>>, s, p, h, x))
<1> DEFINE b == Who(t, o, 0, 0, 0, e, y)
           v0 == View(b, <<l, r, c>>, s, p, h, x)
<1>1. Staged(k, v0)
  BY DEF Staged, View, Who
<1>2. /\ Who(u, o, 0, 0, 0, e, y) = Who(u, IF FALSE THEN b.task ELSE b.old, b.put, b.take, b.act, b.seen, b.last)
      /\ Who("Calibrat", t, 0, 0, 0, e, y) =
           Who("Calibrat", IF TRUE THEN b.task ELSE b.old, b.put, b.take, b.act, b.seen, b.last)
  BY DEF Who
<1>3. /\ Goto(u) \in {[op |-> "goto", task |-> u, keep |-> FALSE]}
      /\ CalibratThenOn \in {[op |-> "goto", task |-> "Calibrat", keep |-> TRUE]}
  BY DEF Goto, CalibratThenOn
<1> HIDE DEF b
<1>4. Leads(k, Goto(u), v0, View(Who(u, o, 0, 0, 0, e, y), <<l, r, c>>, s, p, h, x))
  BY <1>1, <1>2, <1>3, GotoLeads
<1>5. Leads(k, CalibratThenOn, v0, View(Who("Calibrat", t, 0, 0, 0, e, y), <<l, r, c>>, s, p, h, x))
  BY <1>1, <1>2, <1>3, GotoLeads
<1> QED BY <1>4, <1>5 DEF b

\* A call that moves nothing.
LEMMA StillLeads ==
  ASSUME NEW k, NEW b, NEW a, NEW s, NEW p, NEW h, NEW x, NEW c \in {WaitArrive, MutexTake, MutexRelease, Delay, Stop},
         b.task # "Restart"
  PROVE  Leads(k, c, View(b, a, s, p, h, x), View(b, a, s, p, h, x))
<1> DEFINE v == View(b, a, s, p, h, x)
<1>1. Staged(k, v)
  BY DEF Staged, View
<1> HIDE DEF v
<1>2. Leads(k, c, v, v)
  BY <1>1, QuietLeads
<1> QED BY <1>2 DEF v

\* The arm goes to look at the code, and waits for it.
LEMMA EndsScanQR ==
  ASSUME NEW k, NEW o, NEW e, NEW y, NEW l, NEW r, NEW c, NEW s, NEW p, NEW h, NEW x, c # "Grasp",
         Ready(k, "ScanQR", l, r, s, p, x), k.code # NoCode
  PROVE  Ends(k, Body("ScanQR"), View(Who("ScanQR", o, 0, 0, 0, e, y), <<l, r, c>>, s, p, h, x))
<1> DEFINE b == Who("ScanQR", o, 0, 0, 0, e, y)
           b1 == Who("TakeRaw1", o, 0, 0, 0, e, y)
           v0 == View(b, <<l, r, c>>, s, p, h, x)
           v1 == View(b, <<"Reset", r, "Avoid">>, s, p, None, x)
           v2 == View(b, <<"Reset", "Vision", "Avoid">>, s, p, None, x)
           v3 == View(b, <<"Raw", "Vision", "Avoid">>, s, p, None, x)
           v4 == View(b1, <<"Raw", "Vision", "Avoid">>, s, p, None, x)
<1>1. b.task # "Restart" /\ l = "Reset" /\ "Avoid" # "Grasp" /\ "ScanQR" # "Restart"
  BY DEF Who, Ready
<1>2. Leads(k, Goto("TakeRaw1"), v3, v4)
  BY <1>1, OnLeads
<1> HIDE DEF b, b1
<1>3. /\ Leads(k, MutexTake, v0, v0) /\ Leads(k, MutexRelease, v3, v3)
  BY <1>1, StillLeads
<1>4. Leads(k, ArmClipTakeState("Avoid"), v0, v1)
  BY <1>1, OpenLeads
<1>5. Leads(k, MotorMotion_Rotate("Vision"), v1, v2)
  BY <1>1, RotateLeads
<1>6. Leads(k, MotorMotion_Lift("Raw"), v2, v3)
  BY <1>1, LiftLeads
<1>7. Path(k, Body("ScanQR"), v0, v4)
  <2>1. Body("ScanQR") = <<MutexTake, ArmClipTakeState("Avoid"), MotorMotion_Rotate("Vision"),
                           MotorMotion_Lift("Raw"), MutexRelease, Goto("TakeRaw1")>>
    BY DEF Body
  <2> HIDE DEF v0, v1, v2, v3, v4
  <2> QED BY <1>2, <1>3, <1>4, <1>5, <1>6, <2>1, LeadsMoves, Path6
<1>8. Ready(k, Goal("TakeRaw1", o), "Raw", "Vision", s, p, x)
  BY DEF Ready, ReadyStop, Goal, Task
<1>9. "TakeRaw1" # "Calibrat"
  OBVIOUS
<1> QED BY <1>1, <1>7, <1>8, <1>9, EndsAt DEF b, b1

\* The arm goes home on the way to the rough area.
LEMMA EndsResetArm ==
  ASSUME NEW k, NEW t \in {"GoRough", "GoRough2"}, NEW n, n = IF t = "GoRough" THEN "TPRough1" ELSE "TPRough2",
         NEW o, NEW e, NEW y, NEW l, NEW r, NEW c, NEW s, NEW p, NEW h, NEW x, c # "Grasp",
         Ready(k, t, l, r, s, p, x)
  PROVE  Ends(k, ResetArm(n), View(Who(t, o, 0, 0, 0, e, y), <<l, r, c>>, s, p, h, x))
<1> DEFINE b == Who(t, o, 0, 0, 0, e, y)
           b1 == Who(n, o, 0, 0, 0, e, y)
           v0 == View(b, <<l, r, c>>, s, p, h, x)
           v1 == View(b, <<"Reset", r, c>>, s, p, h, x)
           v2 == View(b, <<"Reset", "Reset", c>>, s, p, h, x)
           v3 == View(b1, <<"Reset", "Reset", c>>, s, p, h, x)
<1>1. b.task # "Restart" /\ t # "Restart"
  BY DEF Who
<1>2. Leads(k, Goto(n), v2, v3)
  BY <1>1, OnLeads
<1> HIDE DEF b, b1
<1>3. /\ Leads(k, MutexTake, v0, v0) /\ Leads(k, MutexRelease, v2, v2)
  BY <1>1, StillLeads
<1>4. Leads(k, MotorMotion_Lift("Reset"), v0, v1)
  BY <1>1, LiftLeads
<1>5. Leads(k, MotorMotion_Rotate("Reset"), v1, v2)
  BY <1>1, RotateLeads
<1>6. Path(k, ResetArm(n), v0, v3)
  <2>1. ResetArm(n) = <<MutexTake, MotorMotion_Lift("Reset"), MotorMotion_Rotate("Reset"), MutexRelease, Goto(n)>>
    BY DEF ResetArm
  <2> HIDE DEF v0, v1, v2, v3
  <2> QED BY <1>2, <1>3, <1>4, <1>5, <2>1, LeadsMoves, Path5
<1>7. Ready(k, Goal(n, o), "Reset", "Reset", s, p, x) /\ n # "Calibrat"
  BY DEF Ready, ReadyStop, Goal, Task
<1> QED BY <1>6, <1>7, EndsAt DEF b, b1

\* The first batch is left in the staging area.
LEMMA EndsPassRough ==
  ASSUME NEW k, NEW o, NEW e, NEW y, NEW l, NEW r, NEW c, NEW s, NEW p, NEW h, NEW x, c # "Grasp",
         Ready(k, "PassRough", l, r, s, p, x)
  PROVE  Ends(k, Body("PassRough"), View(Who("PassRough", o, 0, 0, 0, e, y), <<l, r, c>>, s, p, h, x))
<1> DEFINE b == Who("PassRough", o, 0, 0, 0, e, y)
           b1 == Who("TakeRaw2", o, 0, 0, 0, e, y)
           v0 == View(b, <<l, r, c>>, s, p, h, x)
           v1 == View(b, <<l, r, c>>, s, Raw, h, x)
           v2 == View(b, <<"Raw", r, c>>, s, Raw, h, x)
           v3 == View(b1, <<"Raw", r, c>>, s, Raw, h, x)
<1>1. b.task # "Restart" /\ b.task \notin {"Restart", "TaskStart"} /\ "PassRough" # "Restart" /\ r = "Vision"
  BY DEF Who, Ready
<1>2. Leads(k, Goto("TakeRaw2"), v2, v3)
  BY <1>1, OnLeads
<1> HIDE DEF b, b1
<1>3. /\ Leads(k, MutexTake, v0, v0) /\ Leads(k, MutexRelease, v2, v2)
  BY <1>1, StillLeads
<1>4. Leads(k, SendOrderToCar(Raw), v0, v1)
  BY <1>1, OrderLeads
<1>5. Leads(k, MotorMotion_Lift("Raw"), v1, v2)
  BY <1>1, LiftLeads
<1>6. Path(k, Body("PassRough"), v0, v3)
  <2>1. Body("PassRough") = <<MutexTake, SendOrderToCar(Raw), MotorMotion_Lift("Raw"), MutexRelease,
                              Goto("TakeRaw2")>>
    BY DEF Body
  <2> HIDE DEF v0, v1, v2, v3
  <2> QED BY <1>2, <1>3, <1>4, <1>5, <2>1, LeadsMoves, Path5
<1>7. Ready(k, Goal("TakeRaw2", o), "Raw", r, s, Raw, x) /\ "TakeRaw2" # "Calibrat"
  BY <1>1 DEF Ready, ReadyStop, Goal, Task
<1> QED BY <1>6, <1>7, EndsAt DEF b, b1

\* The chassis goes to the staging area with the arm home.
LEMMA EndsGoStag ==
  ASSUME NEW k, NEW t \in {"GoStaging", "GoStag2"}, NEW n, n = IF t = "GoStaging" THEN "PutStag1" ELSE "PutStag2",
         NEW o, NEW e, NEW y, NEW l, NEW r, NEW c, NEW s \in Color, NEW p, NEW h, NEW x, c # "Grasp",
         Ready(k, t, l, r, s, p, x)
  PROVE  Ends(k, SendRingToCar("Staging", TRUE, s, TRUE) \o <<Goto(n)>>,
              View(Who(t, o, 0, 0, 0, e, y), <<l, r, c>>, s, p, h, x))
<1> DEFINE b == Who(t, o, 0, 0, 0, e, y)
           b1 == Who(n, o, 0, 0, 0, e, y)
           q == SendRingToCar("Staging", TRUE, s, TRUE)
           v0 == View(b, <<l, r, c>>, s, p, h, x)
           v1 == View(b, <<"Reset", "Reset", c>>, s, Ring("Staging", s), h, x)
           v2 == View(b1, <<"Reset", "Reset", c>>, s, Ring("Staging", s), h, x)
<1>1. b.task \notin {"Restart", "TaskStart"} /\ t # "Restart"
  BY DEF Who
<1>2. Leads(k, Goto(n), v1, v2)
  BY <1>1, OnLeads
<1> HIDE DEF b, b1
<1>3. "Staging" \in {"Rough", "Staging"} /\ TRUE \in BOOLEAN /\ s \in Maybe
  BY DEF Maybe
<1>4. Path(k, q, v0, v1)
  <2>1. Path(k, q, v0, View(b, IF TRUE THEN <<"Reset", "Reset", c>> ELSE <<l, r, c>>, s, Ring("Staging", s), h, x))
    BY <1>1, <1>3, SendRingPath
  <2> QED BY <2>1
<1>5. q \in Seq(Call) /\ <<Goto(n)>> \in Seq(Call)
  <2>1. Goto(n) \in Call
    BY Calls1 DEF Task
  <2>2. q \in Seq(Call)
    BY <1>3, SendRingCalls
  <2> HIDE DEF q
  <2> QED BY <2>1, <2>2
<1>6. Path(k, q \o <<Goto(n)>>, v0, v2)
  <2> HIDE DEF q, v0, v1, v2
  <2> QED BY <1>2, <1>4, <1>5, PathLead, PathConcat
<1>7. Ready(k, Goal(n, o), "Reset", "Reset", s, Ring("Staging", s), x) /\ n # "Calibrat"
  BY DEF Ready, ReadyStop, Goal, Task
<1> QED BY <1>6, <1>7, EndsAt DEF b, b1, q

\* The digits of a task code are colours, in each order three.
LEMMA OrderDigits ==
  ASSUME NEW c \in Code, NEW b \in 1 .. 2
  PROVE  /\ c[b] \in [1 .. 3 -> Color] /\ c[b][1] # c[b][2] /\ c[b][1] # c[b][3] /\ c[b][2] # c[b][3]
         /\ c[b][1] \in Color /\ c[b][2] \in Color /\ c[b][3] \in Color
<1>1. c \in [1 .. 2 -> [1 .. 3 -> Color]] /\ \A i, j \in 1 .. 3 : c[b][i] = c[b][j] => i = j
  BY CodeAssumption
<1> QED BY <1>1

\* Where the tasks with three objects go on.
LEMMA AfterNames ==
  /\ AfterCalibrat["TakeRaw1"] = "GoRough" /\ AfterCalibrat["TPRough1"] = "GoStaging"
  /\ AfterCalibrat["PutStag1"] = "PassRough" /\ AfterCalibrat["TakeRaw2"] = "GoRough2"
  /\ AfterCalibrat["TPRough2"] = "GoStag2"
BY DEF AfterCalibrat

\* A batch is taken from the turntable.
LEMMA EndsTakeRaw ==
  ASSUME NEW k, NEW t \in {"TakeRaw1", "TakeRaw2"}, NEW o, NEW e, NEW y, NEW l, NEW r, NEW c, NEW s, NEW p,
         NEW h, NEW x, c # "Grasp", Ready(k, t, l, r, s, p, x), k.code \in Code
  PROVE  Ends(k, TakeRawThree(k.code[BatchOf(t)]), View(Who(t, o, 0, 0, 0, e, y), <<l, r, c>>, s, p, h, x))
<1> DEFINE d == k.code[BatchOf(t)]
           z == Moved3(k, x, t, d)
           v == View(Who(t, o, 0, 0, 0, e, y), <<l, "Vision", c>>, s, p, h, x)
<1>1. /\ BatchOf(t) \in 1 .. 2 /\ k.code # NoCode /\ r = "Vision" /\ First(k, t) = d[1]
      /\ ~k.direct => AllAt(x, BatchOf(t), "raw")
  BY DEF BatchOf, First, Ready, ReadyStop
<1>2. d \in [1 .. 3 -> Color] /\ d[1] # d[2] /\ d[1] # d[3] /\ d[2] # d[3]
  BY <1>1, OrderDigits
<1> HIDE DEF d
<1>3. /\ Path(k, TakeRawThree(d), v, View(Who("Calibrat", t, 0, 0, 0, Told(k, d[3]), Any), <<"Aim", "Vision", "Avoid">>,
                                          d[1], Ring("Rough", d[1]), None, z))
      /\ ~k.direct => AllAt(z, BatchOf(t), "plate1")
  BY <1>1, <1>2, TakeRawThreePath
<1>4. Ready(k, Goal("Calibrat", t), "Aim", "Vision", d[1], Ring("Rough", d[1]), z)
  <2> HIDE DEF z
  <2> QED BY <1>1, <1>3, AfterNames DEF Ready, ReadyStop, Goal, Task, BatchOf, d
<1>5. t \in DOMAIN AfterCalibrat /\ "Avoid" # "Grasp"
  BY AfterKnown
<1> HIDE DEF z, v
<1>6. Ends(k, TakeRawThree(d), v)
  BY <1>3, <1>4, <1>5, EndsAt
<1> QED BY <1>1, <1>6 DEF d, v

\* A batch is put down in the rough area and taken up again.
LEMMA EndsTPRough ==
  ASSUME NEW k, NEW t \in {"TPRough1", "TPRough2"}, NEW height, height \notin {"Places", "Stack"}, NEW o, NEW e, NEW y,
         NEW l, NEW r, NEW c, NEW s, NEW p, NEW h, NEW x, c # "Grasp", Ready(k, t, l, r, s, p, x), k.code \in Code
  PROVE  Ends(k, PutTakeThree(k.code[BatchOf(t)], height),
              View(Who(t, o, 0, 0, 0, e, y), <<l, r, c>>, s, p, h, x))
<1> DEFINE d == k.code[BatchOf(t)]
           z == Moved3(k, Moved3(k, x, t, d), t, d)
           v == View(Who(t, o, 0, 0, 0, e, y), <<l, "Reset", c>>, d[1], Ring("Rough", d[1]), h, x)
<1>1. /\ BatchOf(t) \in 1 .. 2 /\ k.code # NoCode /\ r = "Reset" /\ s = d[1] /\ p = Ring("Rough", d[1])
      /\ ~k.direct => AllAt(x, BatchOf(t), "plate1")
  BY DEF BatchOf, Ready, ReadyStop
<1>2. d \in [1 .. 3 -> Color] /\ d[1] # d[2] /\ d[1] # d[3] /\ d[2] # d[3]
  BY <1>1, OrderDigits
<1> HIDE DEF d
<1>3. /\ Path(k, PutTakeThree(d, height), v,
              View(Who("Calibrat", t, 0, 0, 0, e, y), <<height, "Vision", "Avoid">>, d[1],
                   Ring("Staging", d[1]), None, z))
      /\ ~k.direct => AllAt(z, BatchOf(t), "plate2")
  BY <1>1, <1>2, PutTakeThreePath
<1> HIDE DEF z
<1>4. Ready(k, Goal("Calibrat", t), height, "Vision", d[1], Ring("Staging", d[1]), z)
  BY <1>1, <1>3, AfterNames DEF Ready, ReadyStop, Goal, Task, BatchOf, d
<1>5. t \in DOMAIN AfterCalibrat /\ "Avoid" # "Grasp"
  BY AfterKnown
<1> HIDE DEF v
<1>6. Ends(k, PutTakeThree(d, height), v)
  BY <1>3, <1>4, <1>5, EndsAt
<1> QED BY <1>1, <1>6 DEF d, v

\* The first batch has gone all its way when the second has to begin.
LEMMA StagedFirst ==
  ASSUME NEW x, AllAt(x, 1, "staging")
  PROVE  AllAt(x, 2, "raw")
BY DEF AllAt, Object

\* The first batch is put down in the staging area.
LEMMA EndsPutStag1 ==
  ASSUME NEW k, NEW o, NEW e, NEW y, NEW l, NEW r, NEW c, NEW s, NEW p, NEW h, NEW x, c # "Grasp",
         Ready(k, "PutStag1", l, r, s, p, x), k.code \in Code, codeS = k.code
  PROVE  Ends(k, Body("PutStag1"), View(Who("PutStag1", o, 0, 0, 0, e, y), <<l, r, c>>, s, p, h, x))
<1> DEFINE t == "PutStag1"
           d == k.code[1]
           f == k.code[2][1]
           b == Who(t, o, 0, 0, 0, e, y)
           q == Ring("Rough", "red")
           x1 == MovedOn(k, x, Piece(t, d[1]))
           x2 == MovedOn(k, x1, Piece(t, d[2]))
           z  == Moved3(k, x, t, d)
           v0 == View(b, <<l, "Reset", c>>, d[1], Ring("Staging", d[1]), h, x)
           v1 == View(Who(t, o, 1, 0, 0, e, y), <<"Reset", "Reset", "Avoid">>, d[2], Ring("Staging", d[2]), None, x1)
           v2 == View(Who(t, o, 2, 0, 0, e, y), <<"Reset", "Reset", "Avoid">>, d[3], Ring("Staging", d[3]), None, x2)
           v3 == View(b, <<"Places", "Vision", "Avoid">>, f, q, None, z)
           v4 == View(b, <<"Aim", "Vision", "Avoid">>, f, q, None, z)
           v5 == View(Who("Calibrat", t, 0, 0, 0, e, y), <<"Aim", "Vision", "Avoid">>, f, q, None, z)
           p1 == Ground_PutAction("Normal", d[2], TRUE)
           p2 == Ground_PutAction("Normal", d[3], TRUE)
           p3 == Ground_PutAction("Normal", f, FALSE)
<1>1. /\ BatchOf(t) = 1 /\ 1 \in 1 .. 2 /\ 2 \in 1 .. 2 /\ k.code # NoCode /\ r = "Reset" /\ s = d[1]
      /\ p = Ring("Staging", d[1]) /\ (~k.direct => AllAt(x, BatchOf(t), "plate2"))
  BY DEF BatchOf, Ready, ReadyStop
<1>2. d \in [1 .. 3 -> Color] /\ d[1] # d[2] /\ d[1] # d[3] /\ d[2] # d[3] /\ f \in Color
  BY <1>1, OrderDigits
<1> HIDE DEF d, f
<1>3. /\ Leads(k, p1, v0, v1) /\ Leads(k, p2, v1, v2) /\ Leads(k, p3, v2, v3)
      /\ ~k.direct => AllAt(z, BatchOf(t), "staging")
  <2>1. CanPutThree(k, t, c, x, d, "Normal", f, FALSE, "Staging", "staging", "Places", "Vision", f, q)
    BY <1>1, <1>2 DEF CanPutThree, Area
  <2>2. ThreePuts(k, t, o, e, y, l, c, h, x, d, "Normal", f, FALSE, "Staging", "staging", "Places", "Vision", f, q)
    BY <2>1, PutThreeLeads
  <2> QED BY <2>2 DEF ThreePuts
<1>4. b.task # "Restart" /\ t # "Restart" /\ "Avoid" # "Grasp"
  BY DEF Who
<1> HIDE DEF z
<1>5. Leads(k, CalibratThenOn, v4, v5)
  BY <1>4, OnLeads
<1> HIDE DEF b
<1>6. Leads(k, MutexTake, v0, v0) /\ Leads(k, MutexRelease, v4, v4)
  BY <1>4, StillLeads
<1>7. Leads(k, MotorMotion_Lift("Aim"), v3, v4)
  BY <1>4, LiftLeads
<1>8. Body(t) = <<MutexTake, p1, p2, p3, MotorMotion_Lift("Aim"), MutexRelease, CalibratThenOn>>
  BY DEF Body, Code1, Code2, d, f
<1>9. Path(k, Body(t), v0, v5)
  <2> HIDE DEF v0, v1, v2, v3, v4, v5, p1, p2, p3
  <2> QED BY <1>3, <1>5, <1>6, <1>7, <1>8, LeadsMoves, Path7
<1>10. Ready(k, Goal("Calibrat", t), "Aim", "Vision", f, q, z)
  BY <1>1, <1>3, AfterNames, StagedFirst DEF Ready, ReadyStop, Goal, Task
<1>11. t \in DOMAIN AfterCalibrat
  BY AfterKnown
<1>12. Ends(k, Body(t), v0)
  <2> HIDE DEF v0
  <2> QED BY <1>4, <1>9, <1>10, <1>11, EndsAt
<1> QED BY <1>1, <1>12 DEF b

\* The second batch is stacked on it, and the machine goes home.
LEMMA EndsPutStag2 ==
  ASSUME NEW k, NEW o, NEW e, NEW y, NEW l, NEW r, NEW c, NEW s, NEW p, NEW h, NEW x, c # "Grasp",
         Ready(k, "PutStag2", l, r, s, p, x), k.code \in Code, codeS = k.code
  PROVE  Ends(k, Body("PutStag2"), View(Who("PutStag2", o, 0, 0, 0, e, y), <<l, r, c>>, s, p, h, x))
<1> DEFINE t == "PutStag2"
           d == k.code[2]
           b == Who(t, o, 0, 0, 0, e, y)
           x1 == MovedOn(k, x, Piece(t, d[1]))
           x2 == MovedOn(k, x1, Piece(t, d[2]))
           z  == Moved3(k, x, t, d)
           a  == <<"Reset", "Reset", "Avoid">>
           v0 == View(b, <<l, "Reset", c>>, d[1], Ring("Staging", d[1]), h, x)
           v1 == View(Who(t, o, 1, 0, 0, e, y), a, d[2], Ring("Staging", d[2]), None, x1)
           v2 == View(Who(t, o, 2, 0, 0, e, y), a, d[3], Ring("Staging", d[3]), None, x2)
           v3 == View(b, a, d[3], Start, None, z)
           v4 == View(Who("Restart", o, 0, 0, 0, e, y), a, d[3], Start, None, z)
           p1 == Ground_PutAction("StackUp", d[2], TRUE)
           p2 == Ground_PutAction("StackUp", d[3], TRUE)
           p3 == Ground_PutAction("StackUp", None, TRUE)
<1>1. /\ BatchOf(t) = 2 /\ 2 \in 1 .. 2 /\ k.code # NoCode /\ r = "Reset" /\ s = d[1]
      /\ p = Ring("Staging", d[1]) /\ (~k.direct => AllAt(x, BatchOf(t), "plate2"))
  BY DEF BatchOf, Ready, ReadyStop
<1>2. d \in [1 .. 3 -> Color] /\ d[1] # d[2] /\ d[1] # d[3] /\ d[2] # d[3] /\ None \notin Color
  BY <1>1, OrderDigits DEF None, Color
<1> HIDE DEF d
<1>3. /\ Leads(k, p1, v0, v1) /\ Leads(k, p2, v1, v2) /\ Leads(k, p3, v2, v3)
      /\ ~k.direct => AllAt(z, BatchOf(t), "staging")
  <2>1. CanPutThree(k, t, c, x, d, "StackUp", None, TRUE, "Staging", "staging", "Reset", "Reset", d[3], Start)
    BY <1>1, <1>2 DEF CanPutThree, Area
  <2>2. ThreePuts(k, t, o, e, y, l, c, h, x, d, "StackUp", None, TRUE, "Staging", "staging", "Reset", "Reset",
                  d[3], Start)
    BY <2>1, PutThreeLeads
  <2> QED BY <2>2 DEF ThreePuts
<1>4. b.task # "Restart" /\ t # "Restart" /\ "Avoid" # "Grasp"
  BY DEF Who
<1> HIDE DEF z
<1>5. Leads(k, Goto("Restart"), v3, v4)
  BY <1>4, OnLeads
<1> HIDE DEF b
<1>6. Leads(k, MutexTake, v0, v0) /\ Leads(k, MutexRelease, v3, v3)
  BY <1>4, StillLeads
<1>7. Body(t) = <<MutexTake, p1, p2, p3, MutexRelease, Goto("Restart")>>
  BY DEF Body, Code2, d
<1>8. Path(k, Body(t), v0, v4)
  <2> HIDE DEF v0, v1, v2, v3, v4, p1, p2, p3
  <2> QED BY <1>3, <1>5, <1>6, <1>7, LeadsMoves, Path6
<1>9. Ready(k, Goal("Restart", o), "Reset", "Reset", d[3], Start, z) /\ "Restart" # "Calibrat"
  BY <1>1, <1>3 DEF Ready, ReadyStop, Goal, Task
<1>10. Ends(k, Body(t), v0)
  <2> HIDE DEF v0
  <2> QED BY <1>4, <1>8, <1>9, EndsAt
<1> QED BY <1>1, <1>10 DEF b

\* Every case of the switch ends as the next needs it.
LEMMA EndsBody ==
  ASSUME NEW k, NEW v, Boundary(k, v), v.who.task \in Task, v.who.old = oldTask, codeS = k.code,
         codeS \in Code \cup {NoCode}, v.who.task = "ScanQR" => k.code # NoCode
  PROVE  Ends(k, Body(v.who.task), v)
<1> DEFINE t == v.who.task
           o == v.who.old
           e == v.who.seen
           y == v.who.last
           l == v.arm[1]
           r == v.arm[2]
           c == v.arm[3]
           s == v.slot
           p == v.place
           h == v.hold
           x == v.stop
<1>1. /\ v = View(Who(t, o, 0, 0, 0, e, y), <<l, r, c>>, s, p, h, x)
      /\ c # "Grasp" /\ (t = "Calibrat" => o \in DOMAIN AfterCalibrat) /\ Ready(k, Goal(t, o), l, r, s, p, x)
      /\ t \in Task /\ o = oldTask /\ (t = "ScanQR" => k.code # NoCode)
  BY DEF Boundary
<1> HIDE DEF t, o, e, y, l, r, c, s, p, h, x
<1>2. CASE t = "Calibrat"
  <2>1. Ends(k, Body("Calibrat"), View(Who("Calibrat", o, 0, 0, 0, e, y), <<l, r, c>>, s, p, h, x))
    <3>1. o \in DOMAIN AfterCalibrat /\ c # "Grasp" /\ oldTask = o /\ Ready(k, Goal("Calibrat", o), l, r, s, p, x)
      BY <1>1, <1>2
    <3> QED BY <3>1, EndsCalibrat
  <2> QED BY <1>1, <1>2, <2>1 DEF t
<1>3. CASE t # "Calibrat"
  <2>1. Ready(k, t, l, r, s, p, x)
    BY <1>1, <1>3 DEF Goal
  <2>2. CASE t \in {"TaskStart", "ScanQR", "Restart", "PassRough"}
    <3>1. CASE t = "TaskStart"
      <4>1. Ends(k, Body("TaskStart"), View(Who("TaskStart", o, 0, 0, 0, e, y), <<l, r, c>>, s, p, h, x))
        BY <1>1, <2>1, <3>1, EndsTaskStart
      <4> QED BY <1>1, <3>1, <4>1 DEF t
    <3>2. CASE t = "ScanQR"
      <4>1. Ends(k, Body("ScanQR"), View(Who("ScanQR", o, 0, 0, 0, e, y), <<l, r, c>>, s, p, h, x))
        BY <1>1, <2>1, <3>2, EndsScanQR
      <4> QED BY <1>1, <3>2, <4>1 DEF t
    <3>3. CASE t = "Restart"
      <4>1. Ends(k, Body("Restart"), View(Who("Restart", o, 0, 0, 0, e, y), <<l, r, c>>, s, p, h, x))
        BY <1>1, <2>1, <3>3, EndsRestart
      <4> QED BY <1>1, <3>3, <4>1 DEF t
    <3>4. CASE t = "PassRough"
      <4>1. Ends(k, Body("PassRough"), View(Who("PassRough", o, 0, 0, 0, e, y), <<l, r, c>>, s, p, h, x))
        BY <1>1, <2>1, <3>4, EndsPassRough
      <4> QED BY <1>1, <3>4, <4>1 DEF t
    <3> QED BY <2>2, <3>1, <3>2, <3>3, <3>4
  <2>3. CASE t \notin {"TaskStart", "ScanQR", "Restart", "PassRough"}
    <3>1. k.code \in Code /\ k.code # NoCode
      BY <2>1, <2>3 DEF Ready
    <3>2. CASE t \in {"TakeRaw1", "TakeRaw2"}
      <4>1. Ends(k, TakeRawThree(k.code[BatchOf(t)]), v)
        BY <1>1, <2>1, <3>1, <3>2, EndsTakeRaw
      <4>2. Body(t) = TakeRawThree(k.code[BatchOf(t)])
        BY <3>2 DEF Body, BatchOf, Code1, Code2
      <4> QED BY <4>1, <4>2 DEF t
    <3>3. CASE t \in {"GoRough", "GoRough2"}
      <4> DEFINE n == IF t = "GoRough" THEN "TPRough1" ELSE "TPRough2"
      <4>1. Body(t) = ResetArm(n)
        BY <3>3 DEF Body
      <4>2. n = IF t = "GoRough" THEN "TPRough1" ELSE "TPRough2"
        OBVIOUS
      <4> HIDE DEF n
      <4>3. Ends(k, ResetArm(n), v)
        BY <1>1, <2>1, <3>3, <4>2, EndsResetArm
      <4> QED BY <4>1, <4>3 DEF t
    <3>4. CASE t \in {"TPRough1", "TPRough2"}
      <4> DEFINE height == IF t = "TPRough1" THEN "Aim" ELSE "Pile"
      <4>0. height \in {"Aim", "Pile"}
        OBVIOUS
      <4>1. Body(t) = PutTakeThree(k.code[BatchOf(t)], height)
        BY <3>4 DEF Body, BatchOf, Code1, Code2
      <4> HIDE DEF height
      <4>2. Ends(k, PutTakeThree(k.code[BatchOf(t)], height), v)
        BY <1>1, <2>1, <3>1, <3>4, <4>0, EndsTPRough
      <4> QED BY <4>1, <4>2 DEF t
    <3>5. CASE t \in {"GoStaging", "GoStag2"}
      <4> DEFINE n == IF t = "GoStaging" THEN "PutStag1" ELSE "PutStag2"
      <4>1. s = k.code[IF t = "GoStaging" THEN 1 ELSE 2][1]
        BY <2>1, <3>5 DEF Ready
      <4>2. Body(t) = SendRingToCar("Staging", TRUE, s, TRUE) \o <<Goto(n)>>
        BY <3>5, <4>1 DEF Body, Code1, Code2
      <4>3. n = (IF t = "GoStaging" THEN "PutStag1" ELSE "PutStag2") /\ s \in Color
        <5>1. 1 \in 1 .. 2 /\ 2 \in 1 .. 2
          OBVIOUS
        <5>2. k.code[1][1] \in Color /\ k.code[2][1] \in Color
          BY <3>1, <5>1, OrderDigits
        <5> QED BY <4>1, <5>2
      <4> HIDE DEF n
      <4>4. Ends(k, SendRingToCar("Staging", TRUE, s, TRUE) \o <<Goto(n)>>, v)
        BY <1>1, <2>1, <3>5, <4>3, EndsGoStag
      <4> QED BY <4>2, <4>4 DEF t
    <3>6. CASE t = "PutStag1"
      BY <1>1, <2>1, <3>1, <3>6, EndsPutStag1 DEF t
    <3>7. CASE t = "PutStag2"
      BY <1>1, <2>1, <3>1, <3>7, EndsPutStag2 DEF t
    <3> QED BY <1>1, <1>3, <2>3, <3>2, <3>3, <3>4, <3>5, <3>6, <3>7 DEF Task
  <2> QED BY <2>2, <2>3 DEF t
<1> QED BY <1>2, <1>3 DEF t

\* To forget is to forget once, and what calls lead to may be forgotten.
LEMMA ForgetTwice ==
  ASSUME NEW k, NEW v
  PROVE  Forget(k, Forget(k, v)) = Forget(k, v)
<1> DEFINE w == Forget(k, v)
<1>1. /\ w.who.task = v.who.task /\ w.who.old = v.who.old /\ w.who.put = v.who.put /\ w.who.take = v.who.take
      /\ w.who.act = v.who.act /\ w.who.seen = Told(k, v.who.seen) /\ w.arm = v.arm /\ w.slot = Told(k, v.slot)
      /\ w.place = v.place /\ w.hold = v.hold /\ w.stop = v.stop
  BY DEF Forget, View, Who
<1>2. Told(k, Told(k, v.who.seen)) = Told(k, v.who.seen) /\ Told(k, Told(k, v.slot)) = Told(k, v.slot)
  BY DEF Told
<1>3. Forget(k, v) = View(Who(v.who.task, v.who.old, v.who.put, v.who.take, v.who.act, Told(k, v.who.seen), Any),
                          v.arm, Told(k, v.slot), v.place, v.hold, v.stop)
  BY DEF Forget
<1> HIDE DEF w
<1>4. Forget(k, w) = View(Who(v.who.task, v.who.old, v.who.put, v.who.take, v.who.act, Told(k, v.who.seen), Any),
                          v.arm, Told(k, v.slot), v.place, v.hold, v.stop)
  BY <1>1, <1>2 DEF Forget
<1> QED BY <1>3, <1>4 DEF w

\* The last of some calls may be followed by forgetting.
LEMMA PathForget ==
  ASSUME NEW k, NEW s \in Seq(Call), s # <<>>, NEW v, NEW w, Path(k, s, v, w)
  PROVE  Path(k, s, v, Forget(k, w))
<1> DEFINE n == Len(s)
<1>1. n \in Nat \ {0}
  BY Rest
<1>2. PICK S : S[1] = v /\ S[n + 1] = w /\ \A i \in 1 .. n : Moves(k, s[i], S[i], S[i + 1])
  BY DEF Path
<1> HIDE DEF n
<1> DEFINE R == [i \in 1 .. n + 1 |-> IF i = n + 1 THEN Forget(k, w) ELSE S[i]]
<1>3. R[1] = v /\ R[n + 1] = Forget(k, w)
  BY <1>1, <1>2
<1>4. ASSUME NEW i \in 1 .. n PROVE Moves(k, s[i], R[i], R[i + 1])
  <2>1. R[i] = S[i] /\ Moves(k, s[i], S[i], S[i + 1])
    BY <1>1, <1>2
  <2>2. CASE i = n
    <3>1. PICK e : Leads(k, s[i], S[i], e) /\ w \in {e, Forget(k, e)}
      BY <1>2, <2>1, <2>2 DEF Moves
    <3>2. Forget(k, w) = Forget(k, e)
      BY <3>1, ForgetTwice
    <3>3. R[i + 1] = Forget(k, w)
      BY <1>3, <2>2
    <3> HIDE DEF R
    <3> QED BY <2>1, <3>1, <3>2, <3>3 DEF Moves
  <2>3. CASE i # n
    <3>1. R[i + 1] = S[i + 1]
      BY <1>1, <2>3
    <3> HIDE DEF R
    <3> QED BY <2>1, <3>1
  <2> QED BY <2>2, <2>3
<1> HIDE DEF R
<1> QED BY <1>3, <1>4 DEF Path, n

\* The first call, and what is left.
LEMMA EndsFirst ==
  ASSUME NEW k, NEW s \in Seq(Call), s # <<>>, NEW v, Ends(k, s, v)
  PROVE  \E w : Moves(k, Head(s), v, w) /\ Ends(k, Tail(s), w)
<1>1. PICK u : Path(k, s, v, u) /\ Boundary(k, u)
  BY DEF Ends
<1>2. PICK w : Moves(k, Head(s), v, w) /\ Path(k, Tail(s), w, u)
  BY <1>1, PathFirst
<1> QED BY <1>1, <1>2 DEF Ends

\* Calls before what is left.
LEMMA EndsConcat ==
  ASSUME NEW k, NEW a \in Seq(Call), NEW s \in Seq(Call), NEW v, NEW w, Path(k, a, v, w), Ends(k, s, w)
  PROVE  Ends(k, a \o s, v)
<1>1. PICK u : Path(k, s, w, u) /\ Boundary(k, u)
  BY DEF Ends
<1>2. Path(k, a \o s, v, u)
  BY <1>1, PathConcat
<1> QED BY <1>1, <1>2 DEF Ends
-----------------------------------------------------------------------------
(***************************************************************************)
(* A view agrees with the state, and the calls that are left lead from it  *)
(* to the end of the round.                                                *)
(***************************************************************************)
Given == [code |-> codeS, direct |-> directGrab]

\* What is given is the task code and the way of taking.
LEMMA GivenFields == Given.code = codeS /\ Given.direct = directGrab
BY DEF Given

\* MainCtrl, its statics, the arm, the plate and the chassis.
Sees(v) ==
  /\ v.who.task = nowTask /\ v.who.old = oldTask
  /\ v.who.put = putCount /\ v.who.take = takeCount /\ v.who.act = actionCount
  /\ v.who.seen \in {seen, None} /\ v.who.last \in {oldValue, Any}
  /\ v.arm[1] = lift /\ v.arm[2] = rot /\ v.arm[3] = clip
  /\ v.slot \in {plate, None} /\ v.place = place

\* The clip and the objects.
Field(v) ==
  /\ \A o \in Object : at[o] = InClip => clip = "Grasp" /\ o.color = v.hold
  /\ ~directGrab =>
       /\ clip = "Grasp" => at[Piece(v.who.task, v.hold)] = InClip
       /\ \A o \in Object : /\ v.stop[o] \in Stops /\ legs[o] = StopLegs(v.stop[o])
                            /\ at[o] \in {InClip, StopPlace(v.stop[o], o.color)}

Agrees(v) == Sees(v) /\ Field(v)

\* On the plate and on the rings are objects of the colour of their place only.
Slots == \A o \in Object : at[o][1] \in {"Plate", "Rough", "Staging"} => at[o][2] = o.color

PathInv == Slots /\ \E v : Agrees(v) /\ Ends(Given, todo, v)

\* What was forgotten was not needed for a view to agree with the state.
LEMMA ForgetAgrees ==
  ASSUME NEW k, NEW v, Agrees(v)'
  PROVE  Agrees(Forget(k, v))'
<1> DEFINE w == Forget(k, v)
<1>1. /\ w.who.task = v.who.task /\ w.who.old = v.who.old /\ w.who.put = v.who.put /\ w.who.take = v.who.take
      /\ w.who.act = v.who.act /\ w.who.seen \in {v.who.seen, None} /\ w.who.last = Any /\ w.arm = v.arm
      /\ w.slot \in {v.slot, None} /\ w.place = v.place /\ w.hold = v.hold /\ w.stop = v.stop
  BY DEF Forget, View, Who, Told
<1> HIDE DEF w
<1>2. Sees(w)'
  BY <1>1 DEF Agrees, Sees
<1>3. Field(w)'
  BY <1>1 DEF Agrees, Field
<1> QED BY <1>2, <1>3 DEF w, Agrees

\* A call that is made is gone, and what it led to is what the state agrees with.
LEMMA CallMade ==
  ASSUME Inv, PathInv, todo # <<>>, todo' = Tail(todo), UNCHANGED <<codeS, directGrab>>, Slots',
         \A v, e : Agrees(v) /\ Leads(Given, Head(todo), v, e) => Agrees(e)'
  PROVE  PathInv'
<1>1. todo \in Seq(Call)
  BY DEF Inv, Types
<1>2. PICK v : Agrees(v) /\ Ends(Given, todo, v)
  BY DEF PathInv
<1>3. PICK w : Moves(Given, Head(todo), v, w) /\ Ends(Given, Tail(todo), w)
  BY <1>1, <1>2, EndsFirst
<1>4. PICK e : Leads(Given, Head(todo), v, e) /\ w \in {e, Forget(Given, e)}
  BY <1>3 DEF Moves
<1>5. Agrees(e)'
  BY <1>2, <1>4
<1>6. Agrees(w)'
  <2>1. PICK k : k = Given
    OBVIOUS
  <2>2. Agrees(Forget(k, e))'
    BY <1>5, ForgetAgrees
  <2>3. PICK f : f = Forget(k, e)
    OBVIOUS
  <2>4. Agrees(f)'
    BY <2>2, <2>3
  <2> QED BY <1>4, <1>5, <2>1, <2>3, <2>4
<1>7. Given' = Given
  BY DEF Given
<1>8. Ends(Given', todo', w)
  BY <1>3, <1>7
<1> QED BY <1>6, <1>8 DEF PathInv

\* An action group makes way for the calls it makes.
LEMMA GroupMade ==
  ASSUME Inv, PathInv, todo # <<>>, NEW G \in Seq(Call), todo' = G \o Tail(todo),
         UNCHANGED <<codeS, directGrab>>, Slots',
         \A v, e : Agrees(v) /\ Leads(Given, Head(todo), v, e) => \E u : Agrees(u)' /\ Path(Given, G, u, e)
  PROVE  PathInv'
<1>1. todo \in Seq(Call) /\ Tail(todo) \in Seq(Call)
  BY Rest DEF Inv, Types
<1>2. PICK v : Agrees(v) /\ Ends(Given, todo, v)
  BY DEF PathInv
<1>3. PICK w : Moves(Given, Head(todo), v, w) /\ Ends(Given, Tail(todo), w)
  BY <1>1, <1>2, EndsFirst
<1>4. PICK e : Leads(Given, Head(todo), v, e) /\ w \in {e, Forget(Given, e)}
  BY <1>3 DEF Moves
<1>5. PICK u : Agrees(u)' /\ Path(Given, G, u, e)
  BY <1>2, <1>4
<1>6. \E z : Agrees(z)' /\ Path(Given, G, z, w)
  <2>1. PICK k : k = Given
    OBVIOUS
  <2>2. CASE G = <<>>
    <3>1. u = e
      BY <1>5, <2>2, PathNone
    <3>2. PICK f : f = Forget(k, u)
      OBVIOUS
    <3>3. Agrees(f)'
      BY <1>5, <3>2, ForgetAgrees
    <3>4. Path(Given, G, w, w)
      BY <2>2, PathNone
    <3>5. w \in {u, f}
      BY <1>4, <2>1, <3>1, <3>2
    <3> QED BY <1>5, <3>3, <3>4, <3>5
  <2>3. CASE G # <<>>
    BY <1>4, <1>5, <2>3, PathForget
  <2> QED BY <2>2, <2>3
<1>7. PICK z : Agrees(z)' /\ Path(Given, G, z, w)
  BY <1>6
<1>8. Ends(Given, G \o Tail(todo), z)
  BY <1>1, <1>3, <1>7, EndsConcat
<1>9. Given' = Given
  BY DEF Given
<1>10. Ends(Given', todo', z)
  BY <1>8, <1>9
<1> QED BY <1>7, <1>10 DEF PathInv
-----------------------------------------------------------------------------
(***************************************************************************)
(* The steps that make one call.                                           *)
(***************************************************************************)

\* Motors and the plate.
LEMMA PathArm ==
  ASSUME Inv, PathInv, LiftStep \/ RotateStep \/ PlateStep
  PROVE  PathInv'
<1>1. /\ todo # <<>> /\ todo' = Tail(todo) /\ UNCHANGED <<codeS, directGrab, at, legs, clip>>
      /\ UNCHANGED <<nowTask, oldTask, putCount, takeCount, actionCount, seen, oldValue, place>>
  BY DEF LiftStep, RotateStep, PlateStep, Calls, Done, system, count, world, car
<1>2. Slots'
  BY <1>1 DEF PathInv, Slots
<1>3. ASSUME NEW v, NEW e, Agrees(v), Leads(Given, Head(todo), v, e)
      PROVE  Agrees(e)'
  <2>1. PICK c : c = Head(todo)
    OBVIOUS
  <2>2. /\ e.who = v.who /\ e.place = v.place /\ e.hold = v.hold /\ e.stop = v.stop
        /\ e.arm[1] = lift' /\ e.arm[2] = rot' /\ e.arm[3] = clip' /\ e.slot \in {plate', None}
    <3>1. CASE LiftStep
      <4>1. c.op = "lift" /\ lift' = c.pos /\ UNCHANGED <<rot, clip, plate>>
        BY <2>1, <3>1 DEF LiftStep, Calls
      <4>2. e = AfterLift(c, v)
        BY <2>1, <1>3, <4>1 DEF Leads, Effect
      <4> QED BY <1>3, <4>1, <4>2 DEF AfterLift, View, Agrees, Sees
    <3>2. CASE RotateStep
      <4>1. c.op = "rotate" /\ rot' = c.pos /\ UNCHANGED <<lift, clip, plate>>
        BY <2>1, <3>2 DEF RotateStep, Calls
      <4>2. e = AfterRotate(c, v)
        BY <2>1, <1>3, <4>1 DEF Leads, Effect
      <4> QED BY <1>3, <4>1, <4>2 DEF AfterRotate, View, Agrees, Sees
    <3>3. CASE PlateStep
      <4>1. c.op = "plate" /\ plate' = (IF c.color \in Color THEN c.color ELSE plate) /\ UNCHANGED <<lift, rot, clip>>
        BY <2>1, <3>3 DEF PlateStep, Calls
      <4>2. e = AfterPlate(c, v)
        BY <2>1, <1>3, <4>1 DEF Leads, Effect
      <4> QED BY <1>3, <4>1, <4>2 DEF AfterPlate, View, Agrees, Sees
    <3> QED BY <3>1, <3>2, <3>3
  <2>3. Sees(e)'
    BY <1>1, <1>3, <2>2 DEF Agrees, Sees
  <2>4. Field(e)'
    BY <1>1, <1>3, <2>2 DEF Agrees, Field
  <2> QED BY <2>3, <2>4 DEF Agrees
<1> QED BY <1>1, <1>2, <1>3, CallMade

\* Calls after which nothing is where it was not before.
LEMMA PathQuiet ==
  ASSUME Inv, PathInv, WaitStep \/ MuxStep \/ DelayStep \/ StopStep \/ KeyShort
  PROVE  PathInv'
<1>1. /\ todo # <<>> /\ todo' = Tail(todo) /\ UNCHANGED <<codeS, directGrab, at, legs, lift, rot, clip, plate>>
      /\ UNCHANGED <<nowTask, oldTask, putCount, takeCount, actionCount, seen, oldValue, place>>
      /\ Head(todo).op \in {"wait", "take_mux", "release_mux", "delay", "stop"}
  BY DEF WaitStep, MuxStep, DelayStep, StopStep, KeyShort, Calls, Done, system, count, arm, world, car
<1>2. Slots'
  BY <1>1 DEF PathInv, Slots
<1>3. ASSUME NEW v, NEW e, Agrees(v), Leads(Given, Head(todo), v, e)
      PROVE  Agrees(e)'
  <2>1. e = v
    BY <1>1, <1>3 DEF Leads, Effect
  <2>2. Sees(v)' /\ Field(v)'
    BY <1>1, <1>3 DEF Agrees, Sees, Field
  <2> QED BY <2>1, <2>2 DEF Agrees
<1> QED BY <1>1, <1>2, <1>3, CallMade

\* The next task; the clip is empty.
LEMMA PathGoto ==
  ASSUME Inv, PathInv, GotoStep
  PROVE  PathInv'
<1>1. /\ todo # <<>> /\ todo' = Tail(todo) /\ UNCHANGED <<codeS, directGrab, at, legs, lift, rot, clip, plate>>
      /\ UNCHANGED <<putCount, takeCount, actionCount, seen, oldValue, place>>
      /\ Head(todo).op = "goto"
      /\ nowTask' = Head(todo).task /\ oldTask' = IF Head(todo).keep THEN nowTask ELSE oldTask
  BY DEF GotoStep, Calls, Done, count, arm, world, car
<1>2. Slots'
  BY <1>1 DEF PathInv, Slots
<1>3. ASSUME NEW v, NEW e, Agrees(v), Leads(Given, Head(todo), v, e)
      PROVE  Agrees(e)'
  <2>1. PICK c : c = Head(todo)
    OBVIOUS
  <2>2. e = AfterGoto(c, v) /\ Free(v)
    BY <1>1, <1>3, <2>1 DEF Leads, Effect, Before
  <2>3. /\ e.who.task = c.task /\ e.who.old = (IF c.keep THEN v.who.task ELSE v.who.old)
        /\ e.who.put = v.who.put /\ e.who.take = v.who.take /\ e.who.act = v.who.act
        /\ e.who.seen = v.who.seen /\ e.who.last = v.who.last /\ e.arm = v.arm /\ e.slot = v.slot
        /\ e.place = v.place /\ e.hold = v.hold /\ e.stop = v.stop
    BY <2>2 DEF AfterGoto, View, Who
  <2>4. clip # "Grasp"
    BY <1>3, <2>2 DEF Agrees, Sees, Free
  <2>5. Sees(e)'
    BY <1>1, <1>3, <2>1, <2>3 DEF Agrees, Sees
  <2>6. Field(e)'
    BY <1>1, <1>3, <2>3, <2>4 DEF Agrees, Field
  <2> QED BY <2>5, <2>6 DEF Agrees
<1> QED BY <1>1, <1>2, <1>3, CallMade

\* An order; at TaskStart the field is set up.
LEMMA PathOrder ==
  ASSUME Inv, PathInv, OrderStep
  PROVE  PathInv'
<1>1. /\ todo # <<>> /\ todo' = Tail(todo) /\ UNCHANGED <<codeS, directGrab, lift, rot, clip, plate>>
      /\ UNCHANGED <<nowTask, oldTask, putCount, takeCount, actionCount, seen, oldValue>>
      /\ Head(todo).op = "order" /\ place' = Head(todo).dest
      /\ nowTask = "TaskStart" => at' = [o \in Object |-> Raw] /\ legs' = [o \in Object |-> 0]
      /\ nowTask # "TaskStart" => UNCHANGED <<at, legs>>
  BY DEF OrderStep, Calls, Done, system, count, arm
<1>2. Slots'
  <2>1. CASE nowTask = "TaskStart"
    BY <1>1, <2>1 DEF Slots, Raw
  <2>2. CASE nowTask # "TaskStart"
    BY <1>1, <2>2 DEF PathInv, Slots
  <2> QED BY <2>1, <2>2
<1>3. ASSUME NEW v, NEW e, Agrees(v), Leads(Given, Head(todo), v, e)
      PROVE  Agrees(e)'
  <2>1. PICK c : c = Head(todo)
    OBVIOUS
  <2>2. PICK k : k = Given
    OBVIOUS
  <2>3. e = AfterOrder(k, c, v) /\ Fresh(k, v)
    BY <1>1, <1>3, <2>1, <2>2 DEF Leads, Effect, Before
  <2>4. /\ e.who = v.who /\ e.arm = v.arm /\ e.slot = v.slot /\ e.place = c.dest /\ e.hold = v.hold
        /\ e.stop = IF v.who.task = "TaskStart" /\ ~k.direct THEN [p \in Object |-> "raw"] ELSE v.stop
    BY <2>3 DEF AfterOrder, View
  <2>5. k.direct = directGrab
    BY <2>2 DEF Given
  <2>6. Sees(e)'
    BY <1>1, <1>3, <2>1, <2>4 DEF Agrees, Sees
  <2>7. CASE nowTask = "TaskStart"
    <3>1. clip # "Grasp"
      BY <1>3, <2>3, <2>7 DEF Agrees, Sees, Fresh, Free
    <3>2. \A o \in Object : at'[o] = Raw /\ legs'[o] = 0 /\ Raw # InClip
      BY <1>1, <2>7 DEF Raw, InClip
    <3>3. ~directGrab => \A o \in Object : e.stop[o] = "raw"
      BY <1>3, <2>4, <2>5, <2>7 DEF Agrees, Sees
    <3>4. "raw" \in Stops /\ StopLegs("raw") = 0 /\ \A d \in Color : StopPlace("raw", d) = Raw
      BY StopNames DEF StopLegs, StopPlace
    <3>5. \A o \in Object : o.color \in Color
      BY DEF Object
    <3>6. Field(e)'
      BY <1>1, <3>1, <3>2, <3>3, <3>4, <3>5 DEF Field
    <3> QED BY <2>6, <3>6 DEF Agrees
  <2>8. CASE nowTask # "TaskStart"
    <3>1. e.stop = v.stop
      BY <1>3, <2>4, <2>8 DEF Agrees, Sees
    <3>2. Field(e)'
      BY <1>1, <1>3, <2>4, <2>8, <3>1 DEF Agrees, Field
    <3> QED BY <2>6, <3>2 DEF Agrees
  <2> QED BY <2>7, <2>8
<1> QED BY <1>1, <1>2, <1>3, CallMade
-----------------------------------------------------------------------------
(***************************************************************************)
(* The clip.                                                               *)
(***************************************************************************)

\* Where an object is at one stop it is not at the next, nor in the clip.
LEMMA StopPlaces ==
  /\ \A x \in Stops, c \in Color : StopPlace(x, c) # InClip /\ StopPlace(x, c) # Floor
  /\ \A x \in Stops, c \in Color : StopPlace(x, c) = Raw => x = "raw"
  /\ \A x \in Stops, c, d \in Color : x # "raw" /\ StopPlace(x, c) = StopPlace(x, d) => c = d
  /\ \A x \in Stops \ {"staging"}, c, d \in Color : StopPlace(Sort!After(x), c) # StopPlace(x, d)
  /\ \A x \in Stops, c, d \in Color : StopPlace(x, c) = Ring("Staging", d) => x = "staging" /\ c = d
  /\ \A c \in Color : StopPlace("raw", c) = Raw /\ StopPlace("staging", c) = Ring("Staging", c)
  /\ \A x \in Stops \ {"staging"} : /\ Sort!After(x) \in Stops /\ Sort!After(x) # "raw"
                                    /\ StopLegs(Sort!After(x)) = StopLegs(x) + 1
<1>1. \A c : /\ StopPlace("raw", c) = <<"Raw", None>> /\ StopPlace("plate1", c) = <<"Plate", c>>
             /\ StopPlace("rough", c) = <<"Rough", c>> /\ StopPlace("plate2", c) = <<"Plate", c>>
             /\ StopPlace("staging", c) = <<"Staging", c>>
  BY DEF StopPlace, Raw, OnPlate, Ring
<1>2. /\ StopLegs("raw") = 0 /\ StopLegs("plate1") = 1 /\ StopLegs("rough") = 2
      /\ StopLegs("plate2") = 3 /\ StopLegs("staging") = 4
  BY DEF StopLegs
<1> QED BY <1>1, <1>2, StopNames DEF Raw, InClip, Floor, Ring

\* The clip is over what the view says, if that names a place.
LEMMA OverUnder ==
  ASSUME NEW v, Sees(v), Over(v.arm, v.slot, v.place) # OnPlate(None)
  PROVE  Under = Over(v.arm, v.slot, v.place)
<1>1. v.arm[1] = lift /\ v.arm[2] = rot /\ v.slot \in {plate, None} /\ v.place = place
  BY DEF Sees
<1> QED BY <1>1 DEF Over, Under

\* What the clip takes when it closes: the object that the view names.
LEMMA Closing ==
  ASSUME Inv, NEW v, Agrees(v), CanClose(Given, v), ~directGrab, Closes(Head(todo)), ClipStep,
         NEW P, P = Piece(v.who.task, Grasped(v))
  PROVE  /\ P \in Object /\ at' = [at EXCEPT ![P] = InClip] /\ legs' = legs
         /\ (\A o \in Object : at[o] # InClip) /\ \E x \in Stops : Movable(v.stop, P, x)
<1> DEFINE c == Grasped(v)
<1>1. /\ v.arm[3] # "Grasp" /\ c \in Color
      /\ Over(v.arm, v.slot, v.place) \in {Raw, OnPlate(c), Ring("Rough", c)}
      /\ Over(v.arm, v.slot, v.place) = Raw => c = v.who.seen /\ v.who.task \in {"TakeRaw1", "TakeRaw2"}
  BY DEF CanClose, Free, Grasped
<1>2. PICK x \in Stops : Movable(v.stop, P, x) /\ StopPlace(x, c) = Over(v.arm, v.slot, v.place)
  BY DEF CanClose, Given
<1>3. /\ P.batch = BatchOf(v.who.task) /\ P.color = c /\ P \in Object
  BY <1>2 DEF Piece, Movable
<1> HIDE DEF c
<1>4. /\ clip # "Grasp" /\ v.who.task = nowTask /\ v.who.seen \in {seen, None}
      /\ \A o \in Object : v.stop[o] \in Stops /\ at[o] \in {InClip, StopPlace(v.stop[o], o.color)}
      /\ \A o \in Object : at[o] # InClip
  BY <1>1 DEF Agrees, Sees, Field
<1>5. Under = StopPlace(x, c)
  <2>1. None \notin Color
    BY DEF None, Color
  <2>2. Over(v.arm, v.slot, v.place) # OnPlate(None)
    BY <1>1, <2>1 DEF Raw, OnPlate, Ring
  <2> QED BY <1>2, <2>2, OverUnder DEF Agrees
<1>6. CanGrasp(P)
  <2>1. at[P] = Under /\ Under # Floor
    BY <1>1, <1>2, <1>3, <1>4, <1>5, StopPlaces DEF Movable
  <2>2. ASSUME Under = Raw PROVE P = [batch |-> Batch, color |-> seen]
    <3>1. c = seen
      <4>1. c # None
        BY <1>1 DEF None, Color
      <4> QED BY <1>1, <1>2, <1>4, <1>5, <2>2, <4>1
    <3>2. BatchOf(nowTask) = Batch
      BY <1>1, <1>2, <1>4, <1>5, <2>2 DEF BatchOf, Batch
    <3>3. P = Piece(nowTask, seen)
      BY <1>4, <3>1 DEF c
    <3> QED BY <3>2, <3>3 DEF Piece
  <2> QED BY <2>1, <2>2 DEF CanGrasp
<1>7. ASSUME NEW o \in Object, CanGrasp(o) PROVE o = P
  <2>1. at[o] = StopPlace(x, c) /\ at[o] = StopPlace(v.stop[o], o.color) /\ o.color \in Color
    BY <1>4, <1>5, <1>7 DEF CanGrasp, Object
  <2>2. CASE x = "raw"
    <3>1. Under = Raw
      BY <1>1, <1>5, <2>2, StopPlaces
    <3> QED BY <1>6, <1>7, <3>1 DEF CanGrasp
  <2>3. CASE x # "raw"
    <3>1. x # "staging" /\ v.stop[o] \in Stops
      BY <1>2, <1>4 DEF Movable
    <3>2. o.batch = P.batch
      <4>1. SUFFICES ASSUME o.batch # P.batch PROVE FALSE
        OBVIOUS
      <4>2. v.stop[o] \in {"raw", "staging"}
        BY <1>2, <4>1 DEF Movable
      <4>3. CASE v.stop[o] = "raw"
        <5>1. StopPlace(x, c) = Raw
          BY <2>1, <4>3, StopPlaces
        <5> QED BY <1>1, <2>3, <5>1, StopPlaces
      <4>4. CASE v.stop[o] = "staging"
        <5>1. StopPlace(x, c) = Ring("Staging", o.color)
          BY <2>1, <4>4, StopPlaces
        <5> QED BY <1>1, <2>1, <3>1, <5>1, StopPlaces
      <4> QED BY <4>2, <4>3, <4>4
    <3>3. v.stop[o] \in {x, Sort!After(x)}
      BY <1>2, <3>2 DEF Movable
    <3>4. v.stop[o] = x
      <4>1. StopPlace(Sort!After(x), o.color) # StopPlace(x, c)
        BY <1>1, <2>1, <3>1, StopPlaces
      <4> QED BY <2>1, <3>3, <4>1
    <3>5. o.color = c
      BY <1>1, <2>1, <2>3, <3>4, StopPlaces
    <3> QED BY <1>3, <3>2, <3>5 DEF Object
  <2> QED BY <2>2, <2>3
<1>8. at' = [at EXCEPT ![P] = InClip] /\ legs' = legs
  <2>1. clip' = "Grasp"
    BY DEF ClipStep, Closes
  <2>2. \E o \in Object : CanGrasp(o) /\ at' = [at EXCEPT ![o] = InClip]
    BY <1>3, <1>4, <1>6, <2>1 DEF ClipStep
  <2>3. legs' = legs
    BY <2>1 DEF ClipStep
  <2> QED BY <1>7, <2>2, <2>3
<1> QED BY <1>2, <1>3, <1>4, <1>8

\* What it takes with DirectGrab has the colour that the view names.
LEMMA ClosingDirect ==
  ASSUME Inv, Slots, NEW v, Agrees(v), CanClose(Given, v), Closes(Head(todo)), ClipStep
  PROVE  /\ Grasped(v) \in Color /\ legs' = legs
         /\ at' = at \/ \E o \in Object : o.color = Grasped(v) /\ at' = [at EXCEPT ![o] = InClip]
<1> DEFINE c == Grasped(v)
<1>1. /\ c \in Color /\ Over(v.arm, v.slot, v.place) \in {Raw, OnPlate(c), Ring("Rough", c)}
      /\ Over(v.arm, v.slot, v.place) = Raw => c = v.who.seen
  BY DEF CanClose, Grasped
<1> HIDE DEF c
<1>2. Under = Over(v.arm, v.slot, v.place) /\ v.who.seen \in {seen, None} /\ None \notin Color
  <2>1. None \notin Color
    BY DEF None, Color
  <2>2. Over(v.arm, v.slot, v.place) # OnPlate(None)
    BY <1>1, <2>1 DEF Raw, OnPlate, Ring
  <2> QED BY <2>1, <2>2, OverUnder DEF Agrees, Sees
<1>3. ASSUME NEW o \in Object, CanGrasp(o) PROVE o.color = c
  <2>1. CASE Under = Raw
    <3>1. o = [batch |-> Batch, color |-> seen] /\ c = seen
      BY <1>1, <1>2, <1>3, <2>1 DEF CanGrasp
    <3> QED BY <3>1
  <2>2. CASE Under # Raw
    <3>1. at[o] \in {OnPlate(c), Ring("Rough", c)}
      BY <1>1, <1>2, <1>3, <2>2 DEF CanGrasp
    <3>2. at[o][1] \in {"Plate", "Rough"} /\ at[o][2] = c
      BY <3>1 DEF OnPlate, Ring
    <3> QED BY <3>2 DEF Slots
  <2> QED BY <2>1, <2>2
<1>4. clip' = "Grasp"
  BY DEF ClipStep, Closes
<1>5. legs' = legs /\ (at' = at \/ \E o \in Object : CanGrasp(o) /\ at' = [at EXCEPT ![o] = InClip])
  BY <1>4 DEF ClipStep
<1> QED BY <1>1, <1>3, <1>5 DEF c

\* Where the clip leaves what it holds: where the view says.
LEMMA Opening ==
  ASSUME Inv, NEW v, Agrees(v), CanOpen(Given, v), ~Free(v), ~directGrab, Opens(Head(todo)), ClipStep,
         NEW P, P = Piece(v.who.task, v.hold)
  PROVE  /\ P \in Object /\ at[P] = InClip /\ (\A o \in Object : at[o] = InClip => o = P)
         /\ \E x \in Stops : /\ Movable(v.stop, P, x)
                             /\ \A o \in Object :
                                  /\ at'[o] = IF o = P THEN StopPlace(Sort!After(x), P.color) ELSE at[o]
                                  /\ legs'[o] = IF o = P THEN legs[o] + 1 ELSE legs[o]
<1> DEFINE c == v.hold
<1>1. /\ v.arm[3] = "Grasp" /\ c \in Color
      /\ Over(v.arm, v.slot, v.place) \in {OnPlate(c), Ring("Rough", c), Ring("Staging", c)}
  BY DEF CanOpen, Free
<1>2. PICK x \in Stops : /\ Movable(v.stop, P, x)
                         /\ StopPlace(Sort!After(x), c) = Over(v.arm, v.slot, v.place)
                         /\ v.arm[1] = "Stack" <=> Sort!After(x) = "staging" /\ BatchOf(v.who.task) = 2
  BY DEF CanOpen, Given
<1> HIDE DEF c
<1>3. /\ P.batch = BatchOf(v.who.task) /\ P.color = c /\ P \in Object /\ x # "staging" /\ P.batch \in 1 .. 2
  BY <1>2 DEF Piece, Movable, c, Object
<1>4. /\ clip = "Grasp" /\ v.arm[1] = lift /\ at[P] = InClip
      /\ \A o \in Object : v.stop[o] \in Stops /\ at[o] \in {InClip, StopPlace(v.stop[o], o.color)}
  BY <1>1 DEF Agrees, Sees, Field
<1>5. \A o \in Object : at[o] = InClip => o = P
  BY <1>3, <1>4 DEF Inv, Types, TypeOK
<1>6. Under = StopPlace(Sort!After(x), c) /\ Under # InClip
  <2>1. None \notin Color
    BY DEF None, Color
  <2>2. Over(v.arm, v.slot, v.place) # OnPlate(None)
    BY <1>1, <2>1 DEF OnPlate, Ring
  <2> QED BY <1>1, <1>2, <1>3, <2>2, OverUnder, StopPlaces DEF Agrees
<1>7. ASSUME NEW o \in Object, at[o] = Under
      PROVE  lift = "Stack"
  <2>1. o # P /\ at[o] = StopPlace(v.stop[o], o.color) /\ o.color \in Color /\ v.stop[o] \in Stops
    BY <1>4, <1>6, <1>7 DEF Object
  <2>2. o.batch # P.batch
    <3>1. SUFFICES ASSUME o.batch = P.batch PROVE FALSE
      OBVIOUS
    <3>2. o.color # c
      BY <1>3, <2>1, <3>1 DEF Object
    <3>3. v.stop[o] \in {x, Sort!After(x)}
      BY <1>2, <3>1 DEF Movable
    <3>4. Sort!After(x) \in Stops /\ Sort!After(x) # "raw" /\ x \in Stops \ {"staging"}
      BY <1>3, StopPlaces
    <3>5. StopPlace(Sort!After(x), c) = StopPlace(v.stop[o], o.color)
      BY <1>6, <1>7, <2>1
    <3>6. CASE v.stop[o] = x
      <4>1. StopPlace(Sort!After(x), c) # StopPlace(x, o.color)
        BY <1>1, <2>1, <3>4, StopPlaces
      <4> QED BY <3>5, <3>6, <4>1
    <3>7. CASE v.stop[o] = Sort!After(x)
      BY <1>1, <2>1, <3>2, <3>4, <3>5, <3>7, StopPlaces
    <3> QED BY <3>3, <3>6, <3>7
  <2>3. v.stop[o] = IF P.batch = 1 THEN "raw" ELSE "staging"
    BY <1>2, <2>2 DEF Movable
  <2>4. P.batch # 1
    <3>1. SUFFICES ASSUME v.stop[o] = "raw" PROVE FALSE
      BY <2>3
    <3>2. StopPlace(Sort!After(x), c) = Raw
      BY <1>6, <1>7, <2>1, <3>1, StopPlaces
    <3> QED BY <1>1, <1>3, <3>2, StopPlaces
  <2>5. Sort!After(x) = "staging"
    <3>1. StopPlace(Sort!After(x), c) = Ring("Staging", o.color)
      BY <1>6, <1>7, <2>1, <2>3, <2>4, StopPlaces
    <3> QED BY <1>1, <1>3, <2>1, <3>1, StopPlaces
  <2> QED BY <1>2, <1>3, <1>4, <2>4, <2>5
<1>8. ASSUME lift = "Stack" PROVE \E o \in Object : at[o] = Under
  <2>1. Sort!After(x) = "staging" /\ P.batch = 2
    BY <1>2, <1>3, <1>4, <1>8
  <2> DEFINE o == [batch |-> 1, color |-> c]
  <2>2. o \in Object /\ o.batch = 1 /\ o.color = c
    BY <1>1 DEF Object
  <2> HIDE DEF o
  <2>3. v.stop[o] = "staging" /\ o # P
    BY <1>2, <2>1, <2>2 DEF Movable
  <2>4. at[o] = StopPlace("staging", c)
    BY <1>4, <1>5, <2>2, <2>3
  <2> QED BY <1>6, <2>1, <2>2, <2>4
<1>9. Lands = Under
  BY <1>7, <1>8 DEF Lands
<1>10. clip' # "Grasp"
  BY DEF ClipStep, Opens
<1>11. /\ at' = [o \in Object |-> IF at[o] = InClip THEN Lands ELSE at[o]]
       /\ legs' = [o \in Object |-> IF at[o] = InClip THEN legs[o] + 1 ELSE legs[o]]
  BY <1>10 DEF ClipStep
<1>12. \A o \in Object : /\ at'[o] = IF o = P THEN StopPlace(Sort!After(x), P.color) ELSE at[o]
                         /\ legs'[o] = IF o = P THEN legs[o] + 1 ELSE legs[o]
  BY <1>3, <1>4, <1>5, <1>6, <1>9, <1>11
<1> QED BY <1>2, <1>3, <1>4, <1>5, <1>12

\* A call is about to be made: it has what it needs.
LEMMA FirstCall ==
  ASSUME Inv, PathInv, todo # <<>>
  PROVE  \E v, e : Agrees(v) /\ Leads(Given, Head(todo), v, e)
<1>1. todo \in Seq(Call)
  BY DEF Inv, Types
<1>2. PICK v : Agrees(v) /\ Ends(Given, todo, v)
  BY DEF PathInv
<1>3. PICK w : Moves(Given, Head(todo), v, w)
  BY <1>1, <1>2, EndsFirst
<1> QED BY <1>2, <1>3 DEF Moves

\* The clip closes.
LEMMA PathClose ==
  ASSUME Inv, PathInv, ClipStep, Closes(Head(todo)), NEW v, NEW e, Agrees(v), Leads(Given, Head(todo), v, e)
  PROVE  Agrees(e)' /\ Slots'
<1>1. /\ clip' = "Grasp" /\ UNCHANGED <<directGrab, lift, rot, plate, place, seen, oldValue>>
      /\ UNCHANGED <<nowTask, oldTask, putCount, takeCount, actionCount>>
  BY DEF ClipStep, Closes, system, count, car
<1>2. CanClose(Given, v) /\ e = AfterClose(v) /\ Slots
  BY DEF Leads, Before, Effect, PathInv
<1>3. /\ e.who = v.who /\ e.arm[1] = v.arm[1] /\ e.arm[2] = v.arm[2] /\ e.arm[3] = "Grasp"
      /\ e.slot = v.slot /\ e.place = v.place /\ e.hold = Grasped(v) /\ e.stop = v.stop
  BY <1>2 DEF AfterClose, View
<1>4. Sees(e)'
  BY <1>1, <1>3 DEF Agrees, Sees
<1>5. clip # "Grasp" /\ \A o \in Object : at[o] # InClip
  BY <1>2 DEF CanClose, Free, Agrees, Sees, Field
<1>6. at \in [Object -> Spot] /\ InClip[1] \notin {"Plate", "Rough", "Staging"}
  BY DEF Inv, Types, InClip
<1>7. CASE directGrab
  <2>1. at' = at \/ \E o \in Object : o.color = Grasped(v) /\ at' = [at EXCEPT ![o] = InClip]
    BY <1>2, ClosingDirect
  <2>2. Field(e)'
    <3>1. \A o \in Object : at'[o] = InClip => o.color = e.hold
      BY <1>3, <1>5, <1>6, <2>1
    <3> QED BY <1>1, <1>7, <3>1 DEF Field
  <2>3. Slots'
    BY <1>2, <1>6, <2>1 DEF Slots
  <2> QED BY <1>4, <2>2, <2>3 DEF Agrees
<1>8. CASE ~directGrab
  <2>1. PICK P : P = Piece(v.who.task, Grasped(v))
    OBVIOUS
  <2>2. P \in Object /\ at' = [at EXCEPT ![P] = InClip] /\ legs' = legs
    BY <1>2, <1>8, <2>1, Closing
  <2>3. \A o \in Object : at'[o] = IF o = P THEN InClip ELSE at[o]
    BY <1>6, <2>2
  <2>4. P = Piece(e.who.task, e.hold) /\ P.color = e.hold
    BY <1>3, <2>1 DEF Piece
  <2>5. \A o \in Object : v.stop[o] \in Stops /\ legs[o] = StopLegs(v.stop[o]) /\ at[o] = StopPlace(v.stop[o], o.color)
    BY <1>5, <1>8 DEF Agrees, Field
  <2>6. Field(e)'
    BY <1>1, <1>3, <1>5, <2>2, <2>3, <2>4, <2>5 DEF Field
  <2>7. Slots'
    BY <1>2, <1>6, <2>3 DEF Slots
  <2> QED BY <1>4, <2>6, <2>7 DEF Agrees
<1> QED BY <1>7, <1>8

\* The clip opens.
LEMMA PathOpen ==
  ASSUME Inv, PathInv, ClipStep, Opens(Head(todo)), NEW v, NEW e, Agrees(v), Leads(Given, Head(todo), v, e)
  PROVE  Agrees(e)' /\ Slots'
<1>0. PICK c : c = Head(todo)
  OBVIOUS
<1>8. PICK k : k = Given /\ k.direct = directGrab
  BY GivenFields
<1>1. /\ clip' = c.state /\ clip' # "Grasp" /\ UNCHANGED <<directGrab, lift, rot, plate, place, seen, oldValue>>
      /\ UNCHANGED <<nowTask, oldTask, putCount, takeCount, actionCount>>
      /\ at' = [o \in Object |-> IF at[o] = InClip THEN Lands ELSE at[o]]
      /\ legs' = [o \in Object |-> IF at[o] = InClip THEN legs[o] + 1 ELSE legs[o]]
  BY <1>0 DEF ClipStep, Opens, system, count, car
<1>2. CanOpen(Given, v) /\ e = AfterOpen(k, c, v) /\ Slots
  BY <1>0, <1>8 DEF Leads, Before, Effect, PathInv
<1>3. /\ e.who = v.who /\ e.arm[1] = v.arm[1] /\ e.arm[2] = v.arm[2] /\ e.arm[3] = c.state
      /\ e.slot = v.slot /\ e.place = v.place
      /\ e.stop = IF Free(v) THEN v.stop ELSE MovedOn(k, v.stop, Piece(v.who.task, v.hold))
  BY <1>2 DEF AfterOpen, View
<1>4. Sees(e)'
  BY <1>1, <1>3 DEF Agrees, Sees
<1>5. v.arm[3] = clip
  BY DEF Agrees, Sees
<1>6. CASE Free(v)
  <2>1. \A o \in Object : at[o] # InClip
    BY <1>5, <1>6 DEF Free, Agrees, Field
  <2>2. \A o \in Object : at'[o] = at[o] /\ legs'[o] = legs[o]
    BY <1>1, <2>1
  <2>3. Field(e)'
    BY <1>1, <1>3, <1>6, <2>1, <2>2 DEF Agrees, Field
  <2>4. Slots'
    BY <1>2, <2>2 DEF Slots
  <2> QED BY <1>4, <2>3, <2>4 DEF Agrees
<1>7. CASE ~Free(v)
  <2>1. /\ v.hold \in Color
        /\ Over(v.arm, v.slot, v.place) \in {OnPlate(v.hold), Ring("Rough", v.hold), Ring("Staging", v.hold)}
    BY <1>2, <1>7 DEF CanOpen
  <2>2. Under = Over(v.arm, v.slot, v.place)
    <3>1. None \notin Color
      BY DEF None, Color
    <3>2. Over(v.arm, v.slot, v.place) # OnPlate(None)
      BY <2>1, <3>1 DEF OnPlate, Ring
    <3> QED BY <3>2, OverUnder DEF Agrees
  <2>3. Lands \in {Under, Floor} /\ Under[2] = v.hold /\ Lands # InClip
    <3>1. Lands \in {Under, Floor}
      BY DEF Lands
    <3> QED BY <2>1, <2>2, <3>1 DEF OnPlate, Ring, Floor, InClip
  <2>4. \A o \in Object : at[o] = InClip => o.color = v.hold
    BY DEF Agrees, Field
  <2>5. Slots'
    BY <1>1, <1>2, <2>3, <2>4 DEF Slots, Floor
  <2>6. \A o \in Object : at'[o] # InClip
    BY <1>1, <2>3
  <2>7. CASE directGrab
    BY <1>1, <1>4, <2>5, <2>6, <2>7 DEF Agrees, Field
  <2>8. CASE ~directGrab
    <3>1. PICK P : P = Piece(v.who.task, v.hold)
      OBVIOUS
    <3>2. P \in Object /\ at[P] = InClip /\ \A o \in Object : at[o] = InClip => o = P
      BY <1>2, <1>7, <2>8, <3>1, Opening
    <3>3. PICK x \in Stops : /\ Movable(v.stop, P, x)
                             /\ \A o \in Object :
                                  /\ at'[o] = IF o = P THEN StopPlace(Sort!After(x), P.color) ELSE at[o]
                                  /\ legs'[o] = IF o = P THEN legs[o] + 1 ELSE legs[o]
      BY <1>2, <1>7, <2>8, <3>1, Opening
    <3>4. \A o \in Object : e.stop[o] = IF o = P THEN Sort!After(x) ELSE v.stop[o]
      <4>1. e.stop = [p \in Object |-> IF p = P THEN Sort!After(v.stop[p]) ELSE v.stop[p]]
        BY <1>8, <1>3, <1>7, <2>8, <3>1 DEF MovedOn
      <4>2. v.stop[P] = x
        BY <3>3 DEF Movable
      <4> QED BY <4>1, <4>2
    <3>5. x # "staging" /\ v.stop[P] = x
      BY <3>3 DEF Movable
    <3>6. Sort!After(x) \in Stops /\ StopLegs(Sort!After(x)) = StopLegs(x) + 1
      BY <3>5, StopPlaces
    <3>7. \A o \in Object : v.stop[o] \in Stops /\ legs[o] = StopLegs(v.stop[o])
                            /\ at[o] \in {InClip, StopPlace(v.stop[o], o.color)}
      BY <2>8 DEF Agrees, Field
    <3>8. \A o \in Object : e.stop[o] \in Stops /\ legs'[o] = StopLegs(e.stop[o])
                            /\ at'[o] = StopPlace(e.stop[o], o.color)
      BY <3>2, <3>3, <3>4, <3>5, <3>6, <3>7
    <3>9. Field(e)'
      BY <1>1, <2>6, <3>8 DEF Field
    <3> QED BY <1>4, <2>5, <3>9 DEF Agrees
  <2> QED BY <2>7, <2>8
<1> QED BY <1>6, <1>7

\* The clip closes or opens.
LEMMA PathClip ==
  ASSUME Inv, PathInv, ClipStep
  PROVE  PathInv'
<1>1. todo # <<>> /\ todo' = Tail(todo) /\ UNCHANGED <<codeS, directGrab>> /\ Head(todo).op = "clip"
  BY DEF ClipStep, Calls, Done, system
<1>2. ASSUME NEW v, NEW e, Agrees(v), Leads(Given, Head(todo), v, e)
      PROVE  Agrees(e)' /\ Slots'
  <2>1. Closes(Head(todo)) \/ Opens(Head(todo))
    BY <1>1 DEF Closes, Opens
  <2> QED BY <1>2, <2>1, PathClose, PathOpen
<1>3. Slots'
  BY <1>1, <1>2, FirstCall
<1> QED BY <1>1, <1>2, <1>3, CallMade
-----------------------------------------------------------------------------
(***************************************************************************)
(* The steps that begin an action group.                                   *)
(***************************************************************************)

\* Ground_PutAction.
LEMMA PathPut ==
  ASSUME Inv, PathInv, PutStep
  PROVE  PathInv'
<1>1. PICK c : c = Head(todo)
  OBVIOUS
<1>2. PICK k : k = Given
  OBVIOUS
<1>3. /\ todo # <<>> /\ c.op = "put" /\ c \in Call /\ putCount' = (putCount + 1) % 3
      /\ UNCHANGED <<codeS, directGrab, at, legs, lift, rot, clip, plate, nowTask, oldTask, takeCount, actionCount>>
      /\ UNCHANGED <<seen, oldValue, place>>
  BY <1>1, Rest DEF Inv, Types, PutStep, Calls, system, arm, world, car
<1>4. c.color \in Maybe /\ c.rotate \in BOOLEAN
  BY <1>3, Arguments
<1> DEFINE G == PutCalls(c.how, c.color, c.rotate)
           g == Ground_PutAction(c.how, c.color, c.rotate)
<1>5. G \in Seq(Call) /\ todo' = G \o Tail(todo)
  <2>1. Expansion(G)
    BY <1>4, PutExpansion
  <2> QED BY <1>1, <2>1 DEF Expansion, PutStep
<1>6. ASSUME NEW v, NEW e, Agrees(v), Leads(k, c, v, e)
      PROVE  \E u : Agrees(u)' /\ Path(k, G, u, e)
  <2> DEFINE b == Who(v.who.task, v.who.old, (v.who.put + 1) % 3, v.who.take, v.who.act, v.who.seen, v.who.last)
  <2>1. CanPut(k, c, v) /\ e = AfterPut(k, c, v)
    BY <1>3, <1>6 DEF Leads, Before, Effect
  <2>2. g.how = c.how /\ g.color = c.color /\ g.rotate = c.rotate
    BY DEF Ground_PutAction
  <2>3. CanPut(k, g, v) /\ e = AfterPut(k, g, v)
    <3> HIDE DEF g
    <3> QED BY <2>1, <2>2 DEF CanPut, AfterPut
  <2>4. v.who.put = putCount /\ v.who.task = nowTask
    BY <1>6 DEF Agrees, Sees
  <2>5. Path(k, G, Entered(v, b), e)
    BY <1>4, <2>3, <2>4, PutPath
  <2>6. PICK u : u = Entered(v, b)
    OBVIOUS
  <2>7. /\ u.who.task = v.who.task /\ u.who.old = v.who.old /\ u.who.put = (v.who.put + 1) % 3
        /\ u.who.take = v.who.take /\ u.who.act = v.who.act /\ u.who.seen = v.who.seen /\ u.who.last = v.who.last
        /\ u.arm[1] = v.arm[1] /\ u.arm[2] = v.arm[2] /\ u.arm[3] = v.arm[3] /\ u.slot = v.slot
        /\ u.place = v.place /\ u.hold = v.hold /\ u.stop = v.stop
    BY <2>6 DEF Entered, View, Who
  <2>8. Sees(u)'
    BY <1>3, <1>6, <2>7 DEF Agrees, Sees
  <2>9. Field(u)'
    BY <1>3, <1>6, <2>7 DEF Agrees, Field
  <2> QED BY <2>5, <2>6, <2>8, <2>9 DEF Agrees
<1> HIDE DEF G
<1>7. Slots'
  BY <1>3 DEF PathInv, Slots
<1> QED BY <1>1, <1>2, <1>3, <1>5, <1>6, <1>7, GroupMade

\* Ground_TakeAction.
LEMMA PathGroundTake ==
  ASSUME Inv, PathInv, GroundTakeStep
  PROVE  PathInv'
<1>1. PICK c : c = Head(todo)
  OBVIOUS
<1>2. PICK k : k = Given
  OBVIOUS
<1>3. /\ todo # <<>> /\ c.op = "ground_take" /\ c \in Call /\ takeCount' = (takeCount + 1) % 3
      /\ UNCHANGED <<codeS, directGrab, at, legs, lift, rot, clip, plate, nowTask, oldTask, putCount, actionCount>>
      /\ UNCHANGED <<seen, oldValue, place>>
  BY <1>1, Rest DEF Inv, Types, GroundTakeStep, Calls, system, arm, world, car
<1>4. c.color \in Color
  BY <1>3, Arguments
<1> DEFINE G == GroundTakeCalls(c.color)
           g == Ground_TakeAction(c.color)
<1>5. G \in Seq(Call) /\ todo' = G \o Tail(todo)
  <2>1. Expansion(G)
    BY <1>4, GroundTakeExpansion
  <2> QED BY <1>1, <2>1 DEF Expansion, GroundTakeStep
<1>6. ASSUME NEW v, NEW e, Agrees(v), Leads(k, c, v, e)
      PROVE  \E u : Agrees(u)' /\ Path(k, G, u, e)
  <2> DEFINE b == Who(v.who.task, v.who.old, v.who.put, (v.who.take + 1) % 3, v.who.act, v.who.seen, v.who.last)
  <2>1. CanTake(k, v) /\ e = AfterGroundTake(k, c, v)
    BY <1>3, <1>6 DEF Leads, Before, Effect
  <2>2. g.color = c.color
    BY DEF Ground_TakeAction
  <2>3. e = AfterGroundTake(k, g, v)
    <3> HIDE DEF g
    <3> QED BY <2>1, <2>2 DEF AfterGroundTake
  <2>4. v.who.take = takeCount
    BY <1>6 DEF Agrees, Sees
  <2>5. Path(k, G, Entered(v, b), e)
    BY <1>4, <2>1, <2>3, <2>4, GroundTakePath
  <2>6. PICK u : u = Entered(v, b)
    OBVIOUS
  <2>7. /\ u.who.task = v.who.task /\ u.who.old = v.who.old /\ u.who.put = v.who.put
        /\ u.who.take = (v.who.take + 1) % 3 /\ u.who.act = v.who.act /\ u.who.seen = v.who.seen
        /\ u.who.last = v.who.last /\ u.arm[1] = v.arm[1] /\ u.arm[2] = v.arm[2] /\ u.arm[3] = v.arm[3]
        /\ u.slot = v.slot /\ u.place = v.place /\ u.hold = v.hold /\ u.stop = v.stop
    BY <2>6 DEF Entered, View, Who
  <2>8. Sees(u)'
    BY <1>3, <1>6, <2>7 DEF Agrees, Sees
  <2>9. Field(u)'
    BY <1>3, <1>6, <2>7 DEF Agrees, Field
  <2> QED BY <2>5, <2>6, <2>8, <2>9 DEF Agrees
<1> HIDE DEF G
<1>7. Slots'
  BY <1>3 DEF PathInv, Slots
<1> QED BY <1>1, <1>2, <1>3, <1>5, <1>6, <1>7, GroupMade

\* TakeRawMaterial.
LEMMA PathTakeRaw ==
  ASSUME Inv, PathInv, TakeRawStep
  PROVE  PathInv'
<1>1. PICK c : c = Head(todo)
  OBVIOUS
<1>2. PICK k : k = Given
  OBVIOUS
<1>3. /\ todo # <<>> /\ c.op = "take_raw" /\ c \in Call /\ actionCount' = (actionCount + 1) % 3 /\ seen' = c.color
      /\ UNCHANGED <<codeS, directGrab, at, legs, lift, rot, clip, plate, nowTask, oldTask, putCount, takeCount>>
      /\ UNCHANGED <<oldValue, place>>
  BY <1>1, Rest DEF Inv, Types, TakeRawStep, Calls, system, arm, car
<1>4. c.color \in Color /\ codeS \in Code
  <2>1. Head(todo).op \in Group
    BY <1>1, <1>3 DEF Group
  <2> QED BY <1>3, <2>1, Arguments, GroupHasCode
<1> DEFINE G == TakeRawCalls
           d == c.color
<1>5. G \in Seq(Call) /\ todo' = G \o Tail(todo)
  <2>1. Expansion(G)
    BY <1>4, TakeRawExpansion
  <2> QED BY <1>1, <2>1 DEF Expansion, TakeRawStep
<1>6. ASSUME NEW v, NEW e, Agrees(v), Leads(k, c, v, e)
      PROVE  \E u : Agrees(u)' /\ Path(k, G, u, e)
  <2> DEFINE b == Who(v.who.task, v.who.old, v.who.put, v.who.take, (v.who.act + 1) % 3, d, v.who.last)
  <2>1. CanTakeRaw(k, d, v) /\ v.slot = d /\ e = AfterTake(k, d, v)
    BY <1>3, <1>6 DEF Leads, Before, Effect, Takes
  <2>2. v.who.act = actionCount /\ v.who.task = nowTask /\ k.code = codeS
    BY <1>2, <1>6 DEF Agrees, Sees, Given
  <2>3. Path(k, G, Entered(v, b), e)
    BY <1>4, <2>1, <2>2, TakeRawPath
  <2>4. PICK u : u = Entered(v, b)
    OBVIOUS
  <2>5. /\ u.who.task = v.who.task /\ u.who.old = v.who.old /\ u.who.put = v.who.put
        /\ u.who.take = v.who.take /\ u.who.act = (v.who.act + 1) % 3 /\ u.who.seen = d
        /\ u.who.last = v.who.last /\ u.arm[1] = v.arm[1] /\ u.arm[2] = v.arm[2] /\ u.arm[3] = v.arm[3]
        /\ u.slot = v.slot /\ u.place = v.place /\ u.hold = v.hold /\ u.stop = v.stop
    BY <2>4 DEF Entered, View, Who
  <2>6. Sees(u)'
    BY <1>3, <1>6, <2>5 DEF Agrees, Sees
  <2>7. Field(u)'
    BY <1>3, <1>6, <2>5 DEF Agrees, Field
  <2> QED BY <2>3, <2>4, <2>6, <2>7 DEF Agrees
<1> HIDE DEF G
<1>7. Slots'
  BY <1>3 DEF PathInv, Slots
<1> QED BY <1>1, <1>2, <1>3, <1>5, <1>6, <1>7, GroupMade

\* IdentifyColorTake turns the plate to the slot and looks.
LEMMA PathIdentify ==
  ASSUME Inv, PathInv, IdentifyStep
  PROVE  PathInv'
<1>1. PICK c : c = Head(todo)
  OBVIOUS
<1>2. PICK k : k = Given /\ k.direct = directGrab
  BY GivenFields
<1>3. /\ todo # <<>> /\ c.op = "identify" /\ c \in Call /\ plate' = IF directGrab THEN plate ELSE c.color
      /\ UNCHANGED <<codeS, directGrab, at, legs, lift, rot, clip, nowTask, oldTask, putCount, takeCount>>
      /\ UNCHANGED <<actionCount, oldValue, seen, place>>
  BY <1>1, Rest DEF Inv, Types, IdentifyStep, Calls, system, count, world, car
<1>4. c.color \in Color /\ c.update \in BOOLEAN
  BY <1>3, Arguments
<1> DEFINE l == Look(c.update, c.color, c.update)
           G == <<l>>
<1>5. l \in Call /\ l.op = "look" /\ l.color = c.color /\ l.update = c.update
  BY <1>4, Calls2 DEF Look
<1>6. G \in Seq(Call) /\ todo' = G \o Tail(todo)
  BY <1>1, <1>5 DEF IdentifyStep
<1> HIDE DEF l
<1>7. ASSUME NEW v, NEW e, Agrees(v), Leads(k, c, v, e)
      PROVE  \E u : Agrees(u)' /\ Path(k, G, u, e)
  <2>1. PICK u : u = View(v.who, v.arm, IF k.direct THEN v.slot ELSE c.color, v.place, v.hold, v.stop)
    OBVIOUS
  <2>2. /\ u.who = v.who /\ u.arm = v.arm /\ u.place = v.place /\ u.hold = v.hold /\ u.stop = v.stop
        /\ u.slot = IF k.direct THEN v.slot ELSE c.color
    BY <2>1 DEF View
  <2>3. /\ CanTakeRaw(k, c.color, v) /\ e = AfterTake(k, c.color, v) /\ (v.who.act = 0 => c.update)
        /\ Staged(k, v)
    BY <1>3, <1>7 DEF Leads, Before, Effect, Takes
  <2>4. Leads(k, l, u, e)
    <3>1. CanTakeRaw(k, l.color, u) /\ Staged(k, u)
      BY <1>5, <2>2, <2>3 DEF CanTakeRaw, Staged, Free
    <3>2. e = AfterTake(k, l.color, u)
      BY <1>5, <2>2, <2>3 DEF AfterTake
    <3>3. (u.who.act = 0 => l.update) /\ (~k.direct => u.slot = l.color)
      BY <1>5, <2>2, <2>3
    <3> QED BY <1>5, <3>1, <3>2, <3>3 DEF Leads, Before, Effect, Closes, Opens, Takes
  <2>5. Path(k, G, u, e)
    BY <2>4, PathLead
  <2>6. Sees(u)'
    BY <1>2, <1>3, <1>7, <2>2 DEF Agrees, Sees
  <2>7. Field(u)'
    BY <1>3, <1>7, <2>2 DEF Agrees, Field
  <2> QED BY <2>5, <2>6, <2>7 DEF Agrees
<1> HIDE DEF G
<1>8. Slots'
  BY <1>3 DEF PathInv, Slots
<1> QED BY <1>1, <1>2, <1>3, <1>6, <1>7, <1>8, GroupMade

\* A colour is seen, and the object is not taken.
LEMMA PathNotTaken ==
  ASSUME Inv, PathInv, LookStep, NEW first \in BOOLEAN,
         todo' = <<Look(Head(todo).update, Head(todo).color, first)>> \o Tail(todo)
  PROVE  PathInv'
<1>1. PICK c : c = Head(todo)
  OBVIOUS
<1>2. PICK k : k = Given /\ k.direct = directGrab
  BY GivenFields
<1>3. /\ todo # <<>> /\ c.op = "look" /\ c \in Call
      /\ UNCHANGED <<codeS, directGrab, at, legs, lift, rot, clip, plate, nowTask, oldTask, putCount, takeCount>>
      /\ UNCHANGED <<actionCount, seen, place>>
  BY <1>1, Rest DEF Inv, Types, LookStep, Calls, system, arm, world, car
<1>4. c.color \in Color /\ c.update \in BOOLEAN
  BY <1>3, Arguments
<1> DEFINE l == Look(c.update, c.color, first)
           G == <<l>>
<1>5. l \in Call /\ l.op = "look" /\ l.color = c.color /\ l.update = c.update
  BY <1>4, Calls2 DEF Look
<1>6. G \in Seq(Call) /\ todo' = G \o Tail(todo)
  BY <1>1, <1>5
<1> HIDE DEF l
<1>7. ASSUME NEW v, NEW e, Agrees(v), Leads(k, c, v, e)
      PROVE  \E u : Agrees(u)' /\ Path(k, G, u, e)
  <2>1. PICK u : u = View(Who(v.who.task, v.who.old, v.who.put, v.who.take, v.who.act, v.who.seen, Any),
                          v.arm, v.slot, v.place, v.hold, v.stop)
    OBVIOUS
  <2>2. /\ u.who.task = v.who.task /\ u.who.old = v.who.old /\ u.who.put = v.who.put
        /\ u.who.take = v.who.take /\ u.who.act = v.who.act /\ u.who.seen = v.who.seen /\ u.who.last = Any
        /\ u.arm = v.arm /\ u.slot = v.slot /\ u.place = v.place /\ u.hold = v.hold /\ u.stop = v.stop
    BY <2>1 DEF View, Who
  <2>3. /\ CanTakeRaw(k, c.color, v) /\ e = AfterTake(k, c.color, v) /\ (v.who.act = 0 => c.update)
        /\ Staged(k, v) /\ (~k.direct => v.slot = c.color)
    BY <1>3, <1>7 DEF Leads, Before, Effect, Takes
  <2>4. Leads(k, l, u, e)
    <3>1. CanTakeRaw(k, l.color, u) /\ Staged(k, u)
      BY <1>5, <2>2, <2>3 DEF CanTakeRaw, Staged, Free
    <3>2. e = AfterTake(k, l.color, u)
      BY <1>5, <2>2, <2>3 DEF AfterTake
    <3>3. (u.who.act = 0 => l.update) /\ (~k.direct => u.slot = l.color)
      BY <1>5, <2>2, <2>3
    <3> QED BY <1>5, <3>1, <3>2, <3>3 DEF Leads, Before, Effect, Closes, Opens, Takes
  <2>5. Path(k, G, u, e)
    BY <2>4, PathLead
  <2>6. Sees(u)'
    BY <1>3, <1>7, <2>2 DEF Agrees, Sees
  <2>7. Field(u)'
    BY <1>3, <1>7, <2>2 DEF Agrees, Field
  <2> QED BY <2>5, <2>6, <2>7 DEF Agrees
<1> HIDE DEF G
<1>8. Slots'
  BY <1>3 DEF PathInv, Slots
<1> QED BY <1>1, <1>2, <1>3, <1>6, <1>7, <1>8, GroupMade

\* The object that is seen is the one that is wanted, and it is taken.
LEMMA PathWanted ==
  ASSUME Inv, PathInv, LookStep, ~directGrab, carSta = Head(todo).color, Head(todo).update => carSta # oldValue,
         oldValue' = oldValue, todo' = <<TakeRawMaterial(carSta)>> \o Tail(todo)
  PROVE  PathInv'
<1>1. PICK c : c = Head(todo)
  OBVIOUS
<1>2. PICK k : k = Given /\ k.direct = directGrab
  BY GivenFields
<1>3. /\ todo # <<>> /\ c.op = "look" /\ c \in Call
      /\ UNCHANGED <<codeS, directGrab, at, legs, lift, rot, clip, plate, nowTask, oldTask, putCount, takeCount>>
      /\ UNCHANGED <<actionCount, seen, place>>
  BY <1>1, Rest DEF Inv, Types, LookStep, Calls, system, arm, world, car
<1>4. c.color \in Color /\ oldValue \in Color \cup {None}
  BY <1>3, Arguments DEF Inv, Types, TypeOK
<1> DEFINE l == TakeRawMaterial(c.color)
           G == <<l>>
<1>5. l \in Call /\ l.op = "take_raw" /\ l.color = c.color
  BY <1>4, Calls2 DEF TakeRawMaterial
<1>6. G \in Seq(Call) /\ todo' = G \o Tail(todo)
  BY <1>1, <1>5
<1> HIDE DEF l
<1>7. ASSUME NEW v, NEW e, Agrees(v), Leads(k, c, v, e)
      PROVE  \E u : Agrees(u)' /\ Path(k, G, u, e)
  <2>0. PICK y : y = oldValue
    OBVIOUS
  <2>1. PICK u : u = View(Who(v.who.task, v.who.old, v.who.put, v.who.take, v.who.act, v.who.seen, y),
                          v.arm, v.slot, v.place, v.hold, v.stop)
    OBVIOUS
  <2>2. /\ u.who.task = v.who.task /\ u.who.old = v.who.old /\ u.who.put = v.who.put
        /\ u.who.take = v.who.take /\ u.who.act = v.who.act /\ u.who.seen = v.who.seen /\ u.who.last = y
        /\ u.arm = v.arm /\ u.slot = v.slot /\ u.place = v.place /\ u.hold = v.hold /\ u.stop = v.stop
    BY <2>1 DEF View, Who
  <2>3. /\ CanTakeRaw(k, c.color, v) /\ e = AfterTake(k, c.color, v) /\ (v.who.act = 0 => c.update)
        /\ Staged(k, v) /\ (~k.direct => v.slot = c.color)
    BY <1>3, <1>7 DEF Leads, Before, Effect, Takes
  <2>4. Leads(k, l, u, e)
    <3>1. CanTakeRaw(k, l.color, u) /\ Staged(k, u)
      BY <1>5, <2>2, <2>3 DEF CanTakeRaw, Staged, Free
    <3>2. e = AfterTake(k, l.color, u)
      BY <1>5, <2>2, <2>3 DEF AfterTake
    <3>3. u.slot = l.color
      BY <1>2, <1>5, <2>2, <2>3
    <3>4. u.who.act = 0 => u.who.last \notin {l.color, Any}
      <4>1. Any \notin Color \cup {None}
        BY DEF Any, Color, None
      <4> QED BY <1>1, <1>4, <1>5, <2>0, <2>2, <2>3, <4>1
    <3> QED BY <1>5, <3>1, <3>2, <3>3, <3>4 DEF Leads, Before, Effect, Closes, Opens, Takes
  <2>5. Path(k, G, u, e)
    BY <2>4, PathLead
  <2>6. Sees(u)'
    BY <1>3, <1>7, <2>0, <2>2 DEF Agrees, Sees
  <2>7. Field(u)'
    BY <1>3, <1>7, <2>2 DEF Agrees, Field
  <2> QED BY <2>5, <2>6, <2>7 DEF Agrees
<1> HIDE DEF G
<1>8. Slots'
  BY <1>3 DEF PathInv, Slots
<1> QED BY <1>1, <1>2, <1>3, <1>6, <1>7, <1>8, GroupMade

\* With DirectGrab the object that is seen is taken, into the slot of its colour.
LEMMA PathDirect ==
  ASSUME Inv, PathInv, LookStep, directGrab, carSta \in Color,
         todo' = <<MaterialPosition(carSta)>> \o <<TakeRawMaterial(carSta)>> \o Tail(todo)
  PROVE  PathInv'
<1>1. PICK c : c = Head(todo)
  OBVIOUS
<1>2. PICK k : k = Given /\ k.direct = directGrab
  BY GivenFields
<1>0. PICK d : d = carSta
  OBVIOUS
<1>3. /\ todo # <<>> /\ c.op = "look" /\ c \in Call /\ Tail(todo) \in Seq(Call)
      /\ UNCHANGED <<codeS, directGrab, at, legs, lift, rot, clip, plate, nowTask, oldTask, putCount, takeCount>>
      /\ UNCHANGED <<actionCount, seen, place>>
  BY <1>1, Rest DEF Inv, Types, LookStep, Calls, system, arm, world, car
<1> DEFINE m == MaterialPosition(d)
           l == TakeRawMaterial(d)
           G == <<m>> \o <<l>>
<1>5. m \in Call /\ l \in Call /\ l.op = "take_raw" /\ l.color = d /\ d \in Color /\ d \in Maybe
  BY <1>0, Calls1, Calls2 DEF TakeRawMaterial, Maybe
<1>6. G \in Seq(Call) /\ todo' = G \o Tail(todo)
  <2> HIDE DEF m, l
  <2>1. <<m>> \in Seq(Call) /\ <<l>> \in Seq(Call)
    BY <1>5
  <2>2. todo' = <<m>> \o <<l>> \o Tail(todo)
    BY <1>0 DEF m, l
  <2>3. G \in Seq(Call)
    BY <2>1, ConcatProperties
  <2> QED BY <2>2, <2>3
<1>7. ASSUME NEW v, NEW e, Agrees(v), Leads(k, c, v, e)
      PROVE  \E u : Agrees(u)' /\ Path(k, G, u, e)
  <2> DEFINE b == Who(v.who.task, v.who.old, v.who.put, v.who.take, v.who.act, v.who.seen, Any)
  <2>1. PICK u : u = View(b, v.arm, v.slot, v.place, v.hold, v.stop)
    OBVIOUS
  <2>2. PICK z : z = View(b, v.arm, d, v.place, v.hold, v.stop)
    OBVIOUS
  <2>3. /\ b.task = v.who.task /\ b.old = v.who.old /\ b.put = v.who.put /\ b.take = v.who.take
        /\ b.act = v.who.act /\ b.seen = v.who.seen /\ b.last = Any
    BY DEF Who
  <2> HIDE DEF b
  <2>4. /\ u.who = b /\ u.arm = v.arm /\ u.slot = v.slot /\ u.place = v.place /\ u.hold = v.hold /\ u.stop = v.stop
        /\ z.who = b /\ z.arm = v.arm /\ z.slot = d /\ z.place = v.place /\ z.hold = v.hold /\ z.stop = v.stop
    BY <2>1, <2>2 DEF View
  <2>5. /\ CanTakeRaw(k, c.color, v) /\ e = AfterTake(k, c.color, v) /\ b.task \in {"TakeRaw1", "TakeRaw2"}
    BY <1>3, <1>7, <2>3 DEF Leads, Before, Effect, Takes, CanTakeRaw
  <2>6. Leads(k, m, u, z)
    <3>1. Leads(k, m, u, View(b, v.arm, IF d \in Color THEN d ELSE v.slot, v.place, v.hold, v.stop))
      BY <2>1, <2>5, PlateLeads
    <3> QED BY <1>5, <2>2, <3>1
  <2>7. Leads(k, l, z, e)
    <3>1. CanTakeRaw(k, l.color, z) /\ Staged(k, z)
      BY <1>2, <2>3, <2>4, <2>5 DEF CanTakeRaw, Staged, Free
    <3>2. e = AfterTake(k, l.color, z)
      BY <1>2, <2>3, <2>4, <2>5 DEF AfterTake, Told, MovedOn
    <3>3. z.slot = l.color
      BY <1>5, <2>4
    <3> HIDE DEF l
    <3> QED BY <1>2, <1>5, <3>1, <3>2, <3>3 DEF Leads, Before, Effect, Closes, Opens, Takes
  <2>8. Path(k, G, u, e)
    <3> HIDE DEF m, l
    <3>1. <<m>> \in Seq(Call) /\ <<l>> \in Seq(Call)
      BY <1>5
    <3>2. Path(k, <<m>>, u, z) /\ Path(k, <<l>>, z, e)
      BY <2>6, <2>7, PathLead
    <3> QED BY <3>1, <3>2, PathConcat
  <2>9. Sees(u)'
    BY <1>3, <1>7, <2>3, <2>4 DEF Agrees, Sees
  <2>10. Field(u)'
    BY <1>3, <1>7, <2>3, <2>4 DEF Agrees, Field
  <2> QED BY <2>8, <2>9, <2>10 DEF Agrees
<1> HIDE DEF G
<1>8. Slots'
  BY <1>3 DEF PathInv, Slots
<1> QED BY <1>1, <1>2, <1>3, <1>6, <1>7, <1>8, GroupMade

\* A round of the loop of IdentifyColorTake.
LEMMA PathLook ==
  ASSUME Inv, PathInv, LookStep
  PROVE  PathInv'
<1> DEFINE c == Head(todo)
           taken == /\ ~c.first
                    /\ IF directGrab THEN carSta # oldValue
                       ELSE carSta = c.color /\ (c.update => carSta # oldValue)
<1>1. /\ carSta \in Color
      /\ todo' = IF taken
                 THEN (IF directGrab THEN <<MaterialPosition(carSta)>> ELSE <<>>)
                        \o <<TakeRawMaterial(carSta)>> \o Tail(todo)
                 ELSE <<Look(c.update, c.color, FALSE)>> \o Tail(todo)
      /\ oldValue' = IF c.first \/ (directGrab /\ taken) \/ (~directGrab /\ c.update /\ ~taken)
                     THEN carSta ELSE oldValue
  BY DEF LookStep
<1>2. CASE ~taken
  <2>1. FALSE \in BOOLEAN /\ todo' = <<Look(Head(todo).update, Head(todo).color, FALSE)>> \o Tail(todo)
    BY <1>1, <1>2
  <2> QED BY <2>1, PathNotTaken
<1>3. CASE taken /\ directGrab
  BY <1>1, <1>3, PathDirect
<1>4. CASE taken /\ ~directGrab
  <2>1. carSta = c.color /\ (c.update => carSta # oldValue) /\ ~c.first
    BY <1>4
  <2>2. todo' = <<>> \o <<TakeRawMaterial(carSta)>> \o Tail(todo) /\ oldValue' = oldValue
    BY <1>1, <1>4
  <2>3. <<>> \o <<TakeRawMaterial(carSta)>> = <<TakeRawMaterial(carSta)>>
    <3>1. <<TakeRawMaterial(carSta)>> \in Seq(Call)
      BY <1>1, Calls2
    <3> QED BY <3>1
  <2>4. todo' = <<TakeRawMaterial(carSta)>> \o Tail(todo)
    BY <2>2, <2>3
  <2> QED BY <1>4, <2>1, <2>2, <2>4, PathWanted
<1> QED BY <1>2, <1>3, <1>4
-----------------------------------------------------------------------------
(***************************************************************************)
(* A round begins, a task code arrives, and the rest.                      *)
(***************************************************************************)

\* A round begins with the case of the task.
LEMMA PathPoll ==
  ASSUME Inv, PathInv, Poll
  PROVE  PathInv'
<1>1. /\ todo = <<>> /\ Types
      /\ UNCHANGED <<nowTask, oldTask, codeS, directGrab, putCount, takeCount, actionCount, oldValue>>
      /\ UNCHANGED <<lift, rot, clip, plate, at, legs, seen, place>>
  BY DEF Inv, Poll, system, count, arm, world
<1>2. PICK k : k = Given /\ k.direct = directGrab /\ k.code = codeS
  BY GivenFields
<1>3. PICK v : Agrees(v) /\ Ends(k, <<>>, v)
  BY <1>1, <1>2 DEF PathInv
<1>4. Sees(v)' /\ Field(v)' /\ Slots'
  BY <1>1, <1>3 DEF PathInv, Slots, Agrees, Sees, Field
<1>5. Boundary(k, v)
  BY <1>3, PathNone DEF Ends
<1>6. Given' = Given
  BY <1>1 DEF Given
<1>7. Ends(k, todo', v)
  <2>1. CASE Missing(nowTask)
    <3>1. <<>> \in Seq(Call) /\ <<Delay>> \in Seq(Call)
      BY Calls1
    <3>2. Ends(k, <<>> \o <<Delay>>, v)
      BY <1>3, <3>1, EndsDelay
    <3>3. <<>> \o <<Delay>> = <<Delay>> /\ todo' = <<Delay>>
      BY <2>1, <3>1 DEF Poll
    <3> QED BY <3>2, <3>3
  <2>2. CASE ~Missing(nowTask)
    <3>1. codeS \in Code \/ nowTask \in {"TaskStart", "ScanQR"}
      BY DEF Inv, CodeInv, Types, TypeOK
    <3>2. Body(nowTask) \in Seq(Call)
      BY <1>1, <3>1, BodyRound DEF Types, TypeOK, Round
    <3>3. v.who.task = nowTask /\ v.who.old = oldTask /\ (v.who.task = "ScanQR" => k.code # NoCode)
      BY <1>2, <1>3, <2>2 DEF Agrees, Sees, Missing
    <3>4. Ends(k, Body(v.who.task), v)
      BY <1>1, <1>2, <1>5, <3>3, EndsBody DEF Types, TypeOK
    <3>5. Ends(k, Body(nowTask) \o <<Delay>>, v)
      BY <3>2, <3>3, <3>4, EndsDelay
    <3> QED BY <2>2, <3>5 DEF Poll
  <2> QED BY <2>1, <2>2
<1> QED BY <1>2, <1>4, <1>6, <1>7 DEF PathInv, Agrees

\* Until there is a task code no call needs one.
LEMMA EndsWithCode ==
  ASSUME NEW k, NEW q, k.code = NoCode, q.code # NoCode, q.direct = k.direct, NEW s \in Seq(Call), NEW v,
         \A i \in 1 .. Len(s) : s[i].op \in {"order", "goto", "delay"}, Ends(k, s, v)
  PROVE  Ends(q, s, v)
<1>1. ASSUME NEW c, NEW x, NEW w, c.op \in {"order", "goto", "delay"}, Moves(k, c, x, w)
      PROVE  Moves(q, c, x, w)
  <2>1. PICK e : Leads(k, c, x, e) /\ w \in {e, Forget(k, e)}
    BY <1>1 DEF Moves
  <2>2. Forget(q, e) = Forget(k, e)
    BY DEF Forget, Told
  <2>3. Staged(q, x)
    BY <2>1 DEF Leads, Staged
  <2>4. Before(q, c, x)
    BY <1>1, <2>1 DEF Leads, Before, Fresh, Closes, Opens, Takes
  <2>5. AfterOrder(q, c, x) = AfterOrder(k, c, x)
    BY DEF AfterOrder
  <2>6. Effect(q, c, x, e)
    BY <1>1, <2>1, <2>5 DEF Leads, Effect, Closes, Opens, Takes
  <2> QED BY <2>1, <2>2, <2>3, <2>4, <2>6 DEF Moves, Leads
<1>2. PICK u : Path(k, s, v, u) /\ Boundary(k, u)
  BY DEF Ends
<1>3. Path(q, s, v, u)
  BY <1>1, <1>2 DEF Path
<1>4. Boundary(q, u)
  BY <1>2 DEF Boundary, Ready
<1> QED BY <1>3, <1>4 DEF Ends

\* What arrives by wire, and the keys.
LEMMA PathRest ==
  ASSUME Inv, PathInv, ReceCarState_Wire \/ ReceTaskCode_Mult \/ KeyStarted \/ KeyPersist \/ UNCHANGED vars
  PROVE  PathInv'
<1>1. /\ UNCHANGED <<todo, nowTask, oldTask, directGrab, putCount, takeCount, actionCount, oldValue>>
      /\ UNCHANGED <<lift, rot, clip, plate, at, legs, seen, place>>
      /\ codeS' = codeS \/ (codeS = NoCode /\ codeS' \in Code)
  BY DEF ReceCarState_Wire, ReceTaskCode_Mult, KeyStarted, KeyPersist, vars, system, count, arm, world, car
<1>2. PICK k : k = Given /\ k.direct = directGrab /\ k.code = codeS
  BY GivenFields
<1>3. PICK v : Agrees(v) /\ Ends(k, todo, v)
  BY <1>2 DEF PathInv
<1>4. Sees(v)' /\ Field(v)' /\ Slots'
  BY <1>1, <1>3 DEF PathInv, Slots, Agrees, Sees, Field
<1>5. CASE codeS' = codeS
  <2>1. Given' = k
    BY <1>1, <1>2, <1>5 DEF Given
  <2> QED BY <1>1, <1>3, <1>4, <2>1 DEF PathInv, Agrees
<1>6. CASE codeS = NoCode /\ codeS' \in Code
  <2>1. PICK q : q = Given'
    OBVIOUS
  <2>2. q.direct = k.direct /\ q.code = codeS'
    BY <1>1, <1>2, <2>1 DEF Given
  <2>3. q.code # NoCode
    <3>1. codeS'[1] \in [1 .. 3 -> Color] /\ DOMAIN codeS' = 1 .. 2
      BY <1>6, CodeAssumption
    <3>2. 1 \in DOMAIN codeS' /\ 1 \notin DOMAIN <<>>
      BY <3>1
    <3>3. codeS' # <<>>
      BY <3>2
    <3> QED BY <2>2, <3>3 DEF NoCode
  <2>4. todo \in Seq(Call) /\ \A i \in 1 .. Len(todo) : todo[i].op \in {"order", "goto", "delay"}
    BY <1>6 DEF Inv, CodeInv, Types
  <2>5. Ends(q, todo, v)
    BY <1>2, <1>3, <1>6, <2>2, <2>3, <2>4, EndsWithCode
  <2> QED BY <1>1, <1>4, <2>1, <2>5 DEF PathInv, Agrees
<1> QED BY <1>1, <1>5, <1>6

\* At the start nothing has been taken.
LEMMA PathInit == Init => PathInv
<1> SUFFICES ASSUME Init PROVE PathInv
  OBVIOUS
<1> DEFINE x == [o \in Object |-> "raw"]
           b == Who("TaskStart", "TaskStart", 0, 0, 0, None, Any)
           v == View(b, <<"Reset", "Reset", "Release">>, "green", Start, None, x)
<1>1. /\ b.task = "TaskStart" /\ b.old = "TaskStart" /\ b.put = 0 /\ b.take = 0 /\ b.act = 0 /\ b.seen = None
      /\ b.last = Any
  BY DEF Who
<1>2. Ends(Given, <<>>, v)
  <2>1. Ready(Given, Goal("TaskStart", "TaskStart"), "Reset", "Reset", "green", Start, x)
    <3>1. AllAt(x, 1, "raw")
      BY DEF AllAt
    <3> HIDE DEF x
    <3> QED BY <3>1 DEF Ready, ReadyStop, Goal, Task
  <2>2. Path(Given, <<>>, v, v)
    BY PathNone
  <2>3. "Release" # "Grasp" /\ ("TaskStart" = "Calibrat" => "TaskStart" \in DOMAIN AfterCalibrat)
    OBVIOUS
  <2> HIDE DEF x
  <2> QED BY <2>1, <2>2, <2>3, EndsAt
<1>3. Sees(v)
  <2> HIDE DEF b
  <2> QED BY <1>1 DEF Init, Sees, View
<1>4. \A o \in Object : at[o] = Raw /\ Raw # InClip /\ legs[o] = 0 /\ x[o] = "raw"
  BY DEF Init, Raw, InClip
<1>5. Field(v)
  <2>1. "raw" \in Stops /\ StopLegs("raw") = 0 /\ \A o \in Object : StopPlace("raw", o.color) = Raw
    BY StopNames DEF StopLegs, StopPlace
  <2>2. v.stop = x /\ clip # "Grasp"
    BY DEF View, Init
  <2> HIDE DEF v, x
  <2> QED BY <1>4, <2>1, <2>2 DEF Field
<1>6. Slots
  BY <1>4 DEF Slots, Raw
<1>7. todo = <<>>
  BY DEF Init
<1> HIDE DEF v
<1> QED BY <1>2, <1>3, <1>5, <1>6, <1>7 DEF PathInv, Agrees

\* Every step keeps it.
LEMMA StepPath == Inv /\ PathInv /\ [Next]_vars => PathInv'
<1> SUFFICES ASSUME Inv, PathInv, [Next]_vars PROVE PathInv'
  OBVIOUS
<1>1. CASE Step
  BY <1>1, PathArm, PathQuiet, PathGoto, PathOrder, PathClip, PathPut, PathGroundTake, PathTakeRaw,
     PathIdentify, PathLook, PathPoll DEF Step
<1>2. CASE Rece \/ Key \/ UNCHANGED vars
  BY <1>2, PathQuiet, PathRest DEF Rece, Key
<1> QED BY <1>1, <1>2 DEF Next

\* The invariant always holds.
LEMMA PathInvariance == Spec => [](Inv /\ PathInv)
BY InitInv, StepInv, PathInit, StepPath, PTL DEF Spec

-----------------------------------------------------------------------------
(***************************************************************************)
(* The arm turns only at the top or, with the clip wide open, above the    *)
(* plate, for every task code, way of taking and pressing of keys: in no   *)
(* action group does MotorMotion_Rotate follow a motion that leaves the    *)
(* arm low.                                                                *)
(***************************************************************************)
THEOREM MissionTurnsClear == Spec => TurnsClear
<1>1. Inv /\ PathInv /\ [Next]_vars => [rot' # rot => lift = "Reset" \/ (lift = "Stuff" /\ clip = "Release")]_vars
  <2> SUFFICES ASSUME Inv, PathInv, [Next]_vars, rot' # rot
               PROVE  lift = "Reset" \/ (lift = "Stuff" /\ clip = "Release")
    OBVIOUS
  <2>1. RotateStep
    BY DEF Next, Step, Rece, Key, Poll, LiftStep, PlateStep, ClipStep, OrderStep, WaitStep, MuxStep, DelayStep,
       GotoStep, StopStep, PutStep, GroundTakeStep, TakeRawStep, IdentifyStep, LookStep, ReceCarState_Wire,
       ReceTaskCode_Mult, KeyStarted, KeyShort, KeyPersist, vars, arm
  <2>2. todo # <<>> /\ Head(todo).op = "rotate"
    BY <2>1 DEF RotateStep, Calls
  <2>3. PICK v, e : Agrees(v) /\ Leads(Given, Head(todo), v, e)
    BY <2>2, FirstCall
  <2>4. Turnable(v)
    BY <2>2, <2>3 DEF Leads, Before
  <2> QED BY <2>3, <2>4 DEF Turnable, Agrees, Sees
<1> QED BY <1>1, PathInvariance, PTL DEF Spec, TurnsClear

(***************************************************************************)
(* In every slot of the plate is an object of the slot's colour, for every *)
(* task code and with DirectGrab too: the plate is at the slot of what is  *)
(* put into it, at the end of every action group that fills it.            *)
(***************************************************************************)
THEOREM MissionOwnSlot == Spec => []OwnSlot
<1>1. PathInv => OwnSlot
  BY DEF PathInv, Slots, OwnSlot
<1> QED BY <1>1, PathInvariance, PTL

(***************************************************************************)
(* When the machine waits to be home both batches stand in the staging     *)
(* area, each object on the ring of its colour, for every pair of orders   *)
(* that a task code can be.                                                *)
(***************************************************************************)
THEOREM MissionAllStaged == Spec => []AllStaged
<1>1. Inv /\ PathInv => AllStaged
  <2> SUFFICES ASSUME Inv, PathInv, nowTask = "Restart", ~directGrab, NEW o \in Object
               PROVE  at[o] = Ring("Staging", o.color)
    BY DEF AllStaged
  <2>1. PICK k : k = Given /\ k.direct = directGrab
    BY GivenFields
  <2>2. PICK v : Agrees(v) /\ Ends(k, todo, v)
    BY <2>1 DEF PathInv
  <2>3. v.who.task = "Restart" /\ v.arm[3] = clip
    BY <2>2 DEF Agrees, Sees
  <2>4. Staged(k, v)
    <3>1. CASE todo = <<>>
      <4>1. Boundary(k, v)
        BY <2>2, <3>1, PathNone DEF Ends
      <4> QED BY <4>1, <2>3 DEF Boundary, Staged, Free, Goal, Ready, ReadyStop
    <3>2. CASE todo # <<>>
      BY <2>2, <3>2, EndsFirst DEF Inv, Types, Moves, Leads
    <3> QED BY <3>1, <3>2
  <2>5. clip # "Grasp" /\ v.stop[o] = "staging"
    BY <2>1, <2>3, <2>4 DEF Staged, Free, AllAt, Object
  <2>6. at[o] = StopPlace("staging", o.color) /\ o.color \in Color
    BY <2>2, <2>5 DEF Agrees, Field, Object
  <2> QED BY <2>6, StopPlaces
<1> QED BY <1>1, PathInvariance, PTL

(***************************************************************************)
(* The first object taken of a batch is not of the colour seen just before *)
(* it, unless objects are taken as they come (DirectGrab): the comment on  *)
(* IdentifyColorTake, for every task code and whatever the turntable       *)
(* shows.                                                                  *)
(***************************************************************************)
THEOREM MissionFirstSkipped == Spec => FirstSkipped
<1>1. Inv /\ PathInv /\ [Next]_vars => [actionCount = 0 /\ actionCount' = 1 => seen' # oldValue \/ directGrab]_vars
  <2> SUFFICES ASSUME Inv, PathInv, [Next]_vars, actionCount = 0, actionCount' = 1, ~directGrab
               PROVE  seen' # oldValue
    OBVIOUS
  <2>1. TakeRawStep
    BY DEF Next, Step, Rece, Key, Poll, LiftStep, RotateStep, PlateStep, ClipStep, OrderStep, WaitStep, MuxStep,
       DelayStep, GotoStep, StopStep, PutStep, GroundTakeStep, IdentifyStep, LookStep, ReceCarState_Wire,
       ReceTaskCode_Mult, KeyStarted, KeyShort, KeyPersist, vars, count
  <2>2. todo # <<>> /\ Head(todo).op = "take_raw" /\ seen' = Head(todo).color
    BY <2>1 DEF TakeRawStep, Calls
  <2>3. PICK v, e : Agrees(v) /\ Leads(Given, Head(todo), v, e)
    BY <2>2, FirstCall
  <2>4. v.who.act = 0 /\ v.who.last \in {oldValue, Any} /\ ~Given.direct
    BY <2>3, GivenFields DEF Agrees, Sees
  <2>5. v.who.last \notin {Head(todo).color, Any}
    BY <2>2, <2>3, <2>4 DEF Leads, Before
  <2> QED BY <2>2, <2>4, <2>5
<1> QED BY <1>1, PathInvariance, PTL DEF Spec, FirstSkipped
-----------------------------------------------------------------------------
(***************************************************************************)
(* The machine sorts.                                                      *)
(***************************************************************************)
SortStop == [o \in Object |-> IF directGrab THEN "raw" ELSE StopOf(o)]
SortHeld == {o \in Object : ~directGrab /\ at[o] = InClip}

\* Where an object is and how often it was put down tell its last stop.
LEMMA StopIs ==
  ASSUME NEW o \in Object, NEW x \in Stops, NEW a, a \in {InClip, StopPlace(x, o.color)}, NEW n, n = StopLegs(x)
  PROVE  (CASE a = Raw /\ n = 0 -> "raw"
            [] a = OnPlate(o.color) /\ n = 1 -> "plate1"
            [] a = Ring("Rough", o.color) /\ n = 2 -> "rough"
            [] a = OnPlate(o.color) /\ n = 3 -> "plate2"
            [] a = Ring("Staging", o.color) /\ n = 4 -> "staging"
            [] a = InClip -> <<"raw", "plate1", "rough", "plate2", "staging">>[n + 1]
            [] OTHER -> "lost") = x
<1>1. \A c : /\ StopPlace("raw", c) = <<"Raw", None>> /\ StopPlace("plate1", c) = <<"Plate", c>>
             /\ StopPlace("rough", c) = <<"Rough", c>> /\ StopPlace("plate2", c) = <<"Plate", c>>
             /\ StopPlace("staging", c) = <<"Staging", c>>
  BY DEF StopPlace, Raw, OnPlate, Ring
<1>2. /\ StopLegs("raw") = 0 /\ StopLegs("plate1") = 1 /\ StopLegs("rough") = 2
      /\ StopLegs("plate2") = 3 /\ StopLegs("staging") = 4
  BY DEF StopLegs
<1>3. x \in {"raw", "plate1", "rough", "plate2", "staging"}
  BY StopNames
<1>4. CASE x = "raw"
  BY <1>1, <1>2, <1>4 DEF Raw, OnPlate, Ring, InClip
<1>5. CASE x = "plate1"
  BY <1>1, <1>2, <1>5 DEF Raw, OnPlate, Ring, InClip
<1>6. CASE x = "rough"
  BY <1>1, <1>2, <1>6 DEF Raw, OnPlate, Ring, InClip
<1>7. CASE x = "plate2"
  BY <1>1, <1>2, <1>7 DEF Raw, OnPlate, Ring, InClip
<1>8. CASE x = "staging"
  BY <1>1, <1>2, <1>8 DEF Raw, OnPlate, Ring, InClip
<1> QED BY <1>3, <1>4, <1>5, <1>6, <1>7, <1>8

\* A view tells the last stop of every object, before a step and after it.
LEMMA ViewStops ==
  ASSUME NEW v, Agrees(v), ~directGrab
  PROVE  SortStop = [o \in Object |-> v.stop[o]]
<1>1. \A o \in Object : /\ v.stop[o] \in Stops /\ legs[o] = StopLegs(v.stop[o])
                        /\ at[o] \in {InClip, StopPlace(v.stop[o], o.color)}
  BY DEF Agrees, Field
<1>2. ASSUME NEW o \in Object PROVE StopOf(o) = v.stop[o]
  BY <1>1, StopIs DEF StopOf
<1> QED BY <1>2 DEF SortStop

\* The same after a step.
LEMMA ViewStopsNext ==
  ASSUME NEW v, Agrees(v)', ~directGrab'
  PROVE  SortStop' = [o \in Object |-> v.stop[o]]
<1>1. \A o \in Object : /\ v.stop[o] \in Stops /\ legs'[o] = StopLegs(v.stop[o])
                        /\ at'[o] \in {InClip, StopPlace(v.stop[o], o.color)}
  BY DEF Agrees, Field
<1>2. ASSUME NEW o \in Object PROVE StopOf(o)' = v.stop[o]
  BY <1>1, StopIs DEF StopOf
<1> QED BY <1>2 DEF SortStop

\* The batch o belongs to is complete at its stop or at the next, and its turn has come.
LEMMA MovableSorts ==
  ASSUME NEW x, NEW o, NEW y \in Stops, Movable(x, o, y), NEW f, f = [p \in Object |-> x[p]]
  PROVE  /\ f[o] = y /\ y # "staging" /\ o \in Object
         /\ o.batch = 1 \/ \A c \in Color : f[[batch |-> 1, color |-> c]] = "staging"
         /\ \A c \in Color : f[[o EXCEPT !.color = c]] \in {f[o], Sort!After(f[o])}
<1>1. o \in Object /\ x[o] = y /\ y # "staging" /\ f[o] = y
  BY DEF Movable
<1>2. ASSUME NEW c \in Color, o.batch # 1 PROVE f[[batch |-> 1, color |-> c]] = "staging"
  <2> DEFINE p == [batch |-> 1, color |-> c]
  <2>1. p \in Object /\ p.batch = 1
    BY DEF Object
  <2> HIDE DEF p
  <2>2. f[p] = "staging"
    BY <1>2, <2>1 DEF Movable
  <2> QED BY <2>2 DEF p
<1>3. ASSUME NEW c \in Color PROVE f[[o EXCEPT !.color = c]] \in {y, Sort!After(y)}
  <2> DEFINE p == [o EXCEPT !.color = c]
  <2>1. p \in Object /\ p.batch = o.batch
    BY <1>1 DEF Object
  <2> HIDE DEF p
  <2>2. f[p] \in {y, Sort!After(y)}
    BY <2>1 DEF Movable
  <2> QED BY <2>2 DEF p
<1> QED BY <1>1, <1>2, <1>3

\* The clip takes an object as Sorting allows it.
LEMMA CloseSorts ==
  ASSUME Inv, PathInv, ~directGrab, ClipStep, Closes(Head(todo))
  PROVE  \E P \in Object : Sort!Lift(P)
<1>1. todo # <<>> /\ directGrab' = directGrab
  BY DEF ClipStep, Calls
<1>2. PICK v, e : Agrees(v) /\ Leads(Given, Head(todo), v, e)
  BY <1>1, FirstCall
<1>3. Agrees(e)'
  BY <1>2, PathClose
<1>4. CanClose(Given, v) /\ e.stop = v.stop
  BY <1>2 DEF Leads, Before, Effect, AfterClose, View
<1>5. PICK P : P = Piece(v.who.task, Grasped(v))
  OBVIOUS
<1>6. /\ P \in Object /\ at' = [at EXCEPT ![P] = InClip] /\ \A o \in Object : at[o] # InClip
  BY <1>2, <1>4, <1>5, Closing
<1>7. PICK x \in Stops : Movable(v.stop, P, x)
  BY <1>2, <1>4, <1>5, Closing
<1> DEFINE f == [o \in Object |-> v.stop[o]]
<1>8. SortStop = f
  BY <1>2, ViewStops
<1>9. SortStop' = f
  BY <1>1, <1>3, <1>4, ViewStopsNext
<1>10. SortHeld = {}
  BY <1>6 DEF SortHeld
<1>11. SortHeld' = {P}
  <2>1. \A o \in Object : at'[o] = IF o = P THEN InClip ELSE at[o]
    BY <1>6 DEF Inv, Types
  <2> QED BY <1>1, <1>6, <2>1 DEF SortHeld
<1>12. /\ f[P] = x /\ x # "staging" /\ (P.batch = 1 \/ \A c \in Color : f[[batch |-> 1, color |-> c]] = "staging")
       /\ \A c \in Color : f[[P EXCEPT !.color = c]] \in {f[P], Sort!After(f[P])}
  BY <1>7, MovableSorts
<1>13. Sort!Turn(P) /\ Sort!Together(P)
  <2> HIDE DEF f
  <2> QED BY <1>8, <1>12 DEF Sort!Turn, Sort!Together, SortStop
<1>14. Sort!Lift(P)
  <2> HIDE DEF f
  <2> QED BY <1>8, <1>9, <1>10, <1>11, <1>12, <1>13 DEF Sort!Lift, SortStop, SortHeld
<1> QED BY <1>6, <1>14

\* It puts it down where it belongs; with an empty clip nothing happens.
LEMMA OpenSorts ==
  ASSUME Inv, PathInv, ~directGrab, ClipStep, Opens(Head(todo))
  PROVE  (\E P \in Object : Sort!Lower(P)) \/ (SortStop' = SortStop /\ SortHeld' = SortHeld)
<1>1. todo # <<>> /\ directGrab' = directGrab
  BY DEF ClipStep, Calls
<1>2. PICK v, e : Agrees(v) /\ Leads(Given, Head(todo), v, e)
  BY <1>1, FirstCall
<1>3. Agrees(e)'
  BY <1>2, PathOpen
<1>4. PICK k : k = Given /\ k.direct = directGrab
  BY GivenFields
<1>5. CanOpen(Given, v) /\ e.stop = IF Free(v) THEN v.stop ELSE MovedOn(k, v.stop, Piece(v.who.task, v.hold))
  BY <1>2, <1>4 DEF Leads, Before, Effect, AfterOpen, View
<1>6. SortStop = [o \in Object |-> v.stop[o]]
  BY <1>2, ViewStops
<1>7. SortStop' = [o \in Object |-> e.stop[o]]
  BY <1>1, <1>3, ViewStopsNext
<1>8. SortHeld' = {}
  <2>1. clip' # "Grasp"
    BY DEF ClipStep, Opens
  <2>2. \A o \in Object : at'[o] # InClip
    BY <1>3, <2>1 DEF Agrees, Field
  <2> QED BY <2>2 DEF SortHeld
<1>9. CASE Free(v)
  <2>1. \A o \in Object : at[o] # InClip
    BY <1>2, <1>9 DEF Free, Agrees, Sees, Field
  <2>2. SortHeld = {}
    BY <2>1 DEF SortHeld
  <2> QED BY <1>5, <1>6, <1>7, <1>8, <1>9, <2>2
<1>10. CASE ~Free(v)
  <2>1. PICK P : P = Piece(v.who.task, v.hold)
    OBVIOUS
  <2>2. P \in Object /\ at[P] = InClip /\ \A o \in Object : at[o] = InClip => o = P
    BY <1>2, <1>5, <1>10, <2>1, Opening
  <2>3. SortHeld = {P}
    BY <2>2 DEF SortHeld
  <2>4. e.stop = [p \in Object |-> IF p = P THEN Sort!After(v.stop[p]) ELSE v.stop[p]]
    BY <1>4, <1>5, <1>10, <2>1 DEF MovedOn
  <2>5. SortStop' = [SortStop EXCEPT ![P] = Sort!After(SortStop[P])]
    BY <1>6, <1>7, <2>2, <2>4
  <2>6. Sort!Lower(P)
    BY <1>8, <2>3, <2>5 DEF Sort!Lower, SortStop, SortHeld
  <2> QED BY <2>2, <2>6
<1> QED BY <1>9, <1>10

\* The field is set up when everything is sorted, or nothing is.
LEMMA OrderSorts ==
  ASSUME Inv, PathInv, ~directGrab, OrderStep, nowTask = "TaskStart"
  PROVE  Sort!SetUp \/ (SortStop' = SortStop /\ SortHeld' = SortHeld)
<1>1. /\ todo # <<>> /\ Head(todo).op = "order" /\ directGrab' = directGrab
      /\ at' = [o \in Object |-> Raw] /\ legs' = [o \in Object |-> 0]
  BY DEF OrderStep, Calls
<1>2. PICK v, e : Agrees(v) /\ Leads(Given, Head(todo), v, e)
  BY <1>1, FirstCall
<1>3. clip # "Grasp" /\ (AllAt(v.stop, 1, "raw") \/ AllAt(v.stop, 2, "staging"))
  <2>1. Fresh(Given, v) /\ v.who.task = "TaskStart" /\ v.arm[3] = clip /\ ~Given.direct
    BY <1>1, <1>2, GivenFields DEF Leads, Before, Agrees, Sees
  <2> QED BY <2>1 DEF Fresh, Free
<1>4. SortHeld = {} /\ SortHeld' = {}
  BY <1>1, <1>2, <1>3 DEF SortHeld, Agrees, Field, Raw, InClip
<1>5. SortStop = [o \in Object |-> v.stop[o]]
  BY <1>2, ViewStops
<1>6. SortStop' = [o \in Object |-> "raw"]
  <2>1. ASSUME NEW o \in Object PROVE StopOf(o)' = "raw"
    <3>1. at'[o] = Raw /\ legs'[o] = 0
      BY <1>1
    <3>2. "raw" \in Stops /\ StopLegs("raw") = 0 /\ StopPlace("raw", o.color) = Raw
      BY StopNames DEF StopLegs, StopPlace
    <3> QED BY <3>1, <3>2, StopIs DEF StopOf
  <2> QED BY <1>1, <2>1 DEF SortStop
<1>7. CASE AllAt(v.stop, 1, "raw")
  <2>1. \A o \in Object : v.stop[o] = "raw"
    BY <1>7 DEF AllAt
  <2> QED BY <1>4, <1>5, <1>6, <2>1
<1>8. CASE AllAt(v.stop, 2, "staging")
  <2>1. \A o \in Object : SortStop[o] = "staging"
    BY <1>5, <1>8 DEF AllAt
  <2>2. Sort!Object = Object
    BY DEF Sort!Object, Object
  <2> QED BY <1>4, <1>6, <2>1, <2>2 DEF Sort!SetUp, SortStop, SortHeld
<1> QED BY <1>3, <1>7, <1>8

\* Every step of MainCtrl is a step of Sorting, or none.
LEMMA StepSorts ==
  ASSUME Inv, PathInv, [Next]_vars
  PROVE  [Sort!Next]_(Sort!vars)
<1>1. directGrab' = directGrab
  BY DEF Next, Step, Rece, Key, Poll, LiftStep, RotateStep, PlateStep, ClipStep, OrderStep, WaitStep, MuxStep,
     DelayStep, GotoStep, StopStep, PutStep, GroundTakeStep, TakeRawStep, IdentifyStep, LookStep, ReceCarState_Wire,
     ReceTaskCode_Mult, KeyStarted, KeyShort, KeyPersist, vars
<1>2. ASSUME SortStop' = SortStop, SortHeld' = SortHeld
      PROVE  [Sort!Next]_(Sort!vars)
  BY <1>2 DEF Sort!vars, SortStop, SortHeld
<1>3. CASE directGrab
  BY <1>1, <1>2, <1>3 DEF SortStop, SortHeld
<1>4. CASE at' = at /\ legs' = legs
  BY <1>1, <1>2, <1>4 DEF SortStop, SortHeld, StopOf
<1>5. CASE ~directGrab /\ ClipStep
  <2>1. Closes(Head(todo)) \/ Opens(Head(todo))
    BY <1>5 DEF ClipStep, Calls, Closes, Opens
  <2>2. Sort!Object = Object
    BY DEF Sort!Object, Object
  <2>3. CASE Closes(Head(todo))
    <3>1. \E P \in Object : Sort!Lift(P)
      BY <1>5, <2>3, CloseSorts
    <3> QED BY <2>2, <3>1 DEF Sort!Next
  <2>4. CASE Opens(Head(todo))
    <3>1. (\E P \in Object : Sort!Lower(P)) \/ (SortStop' = SortStop /\ SortHeld' = SortHeld)
      BY <1>5, <2>4, OpenSorts
    <3> QED BY <1>2, <2>2, <3>1 DEF Sort!Next
  <2> QED BY <2>1, <2>3, <2>4
<1>6. CASE ~directGrab /\ OrderStep /\ nowTask = "TaskStart"
  <2>1. Sort!SetUp \/ (SortStop' = SortStop /\ SortHeld' = SortHeld)
    BY <1>6, OrderSorts
  <2> QED BY <1>2, <2>1 DEF Sort!Next
<1>7. (at' = at /\ legs' = legs) \/ ClipStep \/ (OrderStep /\ nowTask = "TaskStart")
  BY DEF Next, Step, Rece, Key, Poll, LiftStep, RotateStep, PlateStep, OrderStep, WaitStep, MuxStep,
     DelayStep, GotoStep, StopStep, PutStep, GroundTakeStep, TakeRawStep, IdentifyStep, LookStep, ReceCarState_Wire,
     ReceTaskCode_Mult, KeyStarted, KeyShort, KeyPersist, vars, world
<1> QED BY <1>3, <1>4, <1>5, <1>6, <1>7

(***************************************************************************)
(* The machine sorts, for every task code, whatever the chassis, the       *)
(* turntable and the keys do in between: MainCtrl implements Sorting, so   *)
(* that every object takes its way over the plate and the rough area to    *)
(* the staging area, a batch together, the second after the first, always  *)
(* on its own colour.                                                      *)
(***************************************************************************)
THEOREM MissionSorts == Spec => Sorts
<1>1. Init => Sort!Init
  <2> SUFFICES ASSUME Init PROVE Sort!Init
    OBVIOUS
  <2>1. ASSUME NEW o \in Object PROVE StopOf(o) = "raw" /\ at[o] # InClip
    <3>1. at[o] = Raw /\ legs[o] = 0 /\ Raw # InClip
      BY DEF Init, Raw, InClip
    <3>2. "raw" \in Stops /\ StopLegs("raw") = 0 /\ StopPlace("raw", o.color) = Raw
      BY StopNames DEF StopLegs, StopPlace
    <3> QED BY <3>1, <3>2, StopIs DEF StopOf
  <2>2. Sort!Object = Object
    BY DEF Sort!Object, Object
  <2> QED BY <2>1, <2>2 DEF Sort!Init
<1>2. Inv /\ PathInv /\ [Next]_vars => [Sort!Next]_(Sort!vars)
  BY StepSorts
<1> QED BY <1>1, <1>2, PathInvariance, PTL DEF Spec, Sorts, Sort!Spec
-----------------------------------------------------------------------------
(***************************************************************************)
(* The rules of the motor drive: with the mutex, and from the top.         *)
(***************************************************************************)
Motion(c) == c.op \in {"lift", "rotate"}

\* The i-th call of s is made with the mutex, which is taken now if m.
Guarded(s, m, i) == Keeps(s, i) /\ (m \/ \E k \in 1 .. i : s[k].op = "take_mux")

\* It resets the arm in the task t, which is GoStaging or GoStag2.
Resets(s, t, i) ==
  t \in {"GoStaging", "GoStag2"} /\ s[i].pos = "Reset" /\ \A k \in 1 .. i : s[k].op # "goto"

MovePlan(s, m, t) ==
  \A i \in 1 .. Len(s) : Motion(s[i]) => Guarded(s, m, i) \/ Resets(s, t, i)

\* Whatever is in the clip, it is open when the mutex is released.
MoveInv == MuxPlan(todo, mux, clip = "Grasp") /\ MovePlan(todo, mux, nowTask)

\* What a call that is done does to the plan, and that a motion keeps to it.
LEMMA MoveRest ==
  ASSUME NEW s \in Seq(Call), s # <<>>, NEW m, NEW t, MovePlan(s, m, t)
  PROVE  LET c == Head(s) IN
         /\ c.op \notin {"take_mux", "release_mux", "goto"} => MovePlan(Tail(s), m, t)
         /\ c.op = "take_mux" => MovePlan(Tail(s), TRUE, t)
         /\ c.op = "release_mux" => MovePlan(Tail(s), FALSE, t)
         /\ c.op = "goto" => \A u : MovePlan(Tail(s), m, u)
         /\ Motion(c) => m \/ (t \in {"GoStaging", "GoStag2"} /\ c.pos = "Reset")
<1> DEFINE q == Tail(s)
           c == Head(s)
<1>1. /\ Len(s) \in Nat \ {0} /\ Len(q) = Len(s) - 1 /\ c = s[1]
      /\ \A i \in 1 .. Len(q) : i + 1 \in 2 .. Len(s) /\ q[i] = s[i + 1]
  <2>1. /\ Len(s) \in Nat \ {0} /\ Len(q) = Len(s) - 1 /\ c = s[1]
        /\ \A i \in 1 .. Len(s) - 1 : q[i] = s[i + 1]
    BY Rest
  <2> QED BY <2>1
<1> HIDE DEF q, c
<1>2. ASSUME NEW i \in 1 .. Len(q), Guarded(s, m, i + 1)
      PROVE  /\ Keeps(q, i) /\ c.op # "release_mux"
             /\ m \/ c.op = "take_mux" \/ \E k \in 1 .. i : q[k].op = "take_mux"
  <2>1. ASSUME NEW k \in 1 .. i PROVE k + 1 \in 1 .. i + 1 /\ q[k] = s[k + 1]
    <3>1. k \in 1 .. Len(q) /\ k + 1 \in 1 .. i + 1
      BY <1>1
    <3> QED BY <1>1, <3>1
  <2>2. Keeps(q, i)
    BY <1>2, <2>1 DEF Guarded, Keeps
  <2>3. c.op # "release_mux"
    <3>1. 1 \in 1 .. i + 1
      BY <1>1
    <3> QED BY <1>1, <1>2, <3>1 DEF Guarded, Keeps
  <2>4. ASSUME NEW k \in 1 .. i + 1, s[k].op = "take_mux"
        PROVE  c.op = "take_mux" \/ \E l \in 1 .. i : q[l].op = "take_mux"
    <3>1. CASE k = 1
      BY <1>1, <2>4, <3>1
    <3>2. CASE k # 1
      <4>1. k - 1 \in 1 .. i /\ (k - 1) + 1 = k
        BY <1>1, <3>2
      <4>2. q[k - 1] = s[k]
        BY <2>1, <4>1
      <4> QED BY <2>4, <4>1, <4>2
    <3> QED BY <3>1, <3>2
  <2> QED BY <1>2, <2>2, <2>3, <2>4 DEF Guarded
<1>3. ASSUME NEW i \in 1 .. Len(q), Resets(s, t, i + 1) PROVE Resets(q, t, i) /\ c.op # "goto"
  <2>1. ASSUME NEW k \in 1 .. i PROVE k + 1 \in 1 .. i + 1 /\ q[k] = s[k + 1]
    <3>1. k \in 1 .. Len(q) /\ k + 1 \in 1 .. i + 1
      BY <1>1
    <3> QED BY <1>1, <3>1
  <2>2. 1 \in 1 .. i + 1 /\ q[i] = s[i + 1]
    BY <1>1
  <2> QED BY <1>1, <1>3, <2>1, <2>2 DEF Resets
<1>4. ASSUME NEW i \in 1 .. Len(q), Motion(q[i]) PROVE Guarded(s, m, i + 1) \/ Resets(s, t, i + 1)
  <2>1. i + 1 \in 1 .. Len(s) /\ q[i] = s[i + 1]
    BY <1>1
  <2> QED BY <1>4, <2>1 DEF MovePlan
<1>5. ASSUME c.op \notin {"take_mux", "release_mux", "goto"} PROVE MovePlan(q, m, t)
  BY <1>2, <1>3, <1>4, <1>5 DEF MovePlan, Guarded
<1>6. ASSUME c.op = "take_mux" PROVE MovePlan(q, TRUE, t)
  BY <1>2, <1>3, <1>4 DEF MovePlan, Guarded
<1>7. ASSUME c.op = "release_mux" PROVE MovePlan(q, FALSE, t)
  BY <1>2, <1>3, <1>4, <1>7 DEF MovePlan
<1>8. ASSUME c.op = "goto", NEW u PROVE MovePlan(q, m, u)
  BY <1>2, <1>3, <1>4, <1>8 DEF MovePlan, Guarded
<1>9. ASSUME Motion(c) PROVE m \/ (t \in {"GoStaging", "GoStag2"} /\ c.pos = "Reset")
  <2>1. 1 \in 1 .. Len(s)
    BY <1>1
  <2>2. \A k \in 1 .. 1 : k = 1
    OBVIOUS
  <2>3. c.op # "take_mux"
    BY <1>9 DEF Motion
  <2> QED BY <1>1, <1>9, <2>1, <2>2, <2>3 DEF MovePlan, Guarded, Resets
<1> QED BY <1>5, <1>6, <1>7, <1>8, <1>9 DEF q, c

\* An action group comes with the mutex, so that the calls it makes do.
LEMMA MoveReplaced ==
  ASSUME NEW s \in Seq(Call), s # <<>>, NEW m, NEW h, NEW t, MuxPlan(s, m, h), MovePlan(s, m, t),
         Head(s).op \in Group, NEW G,
         Expansion(G) \/ (G \in Seq(Call) /\ \A i \in 1 .. Len(G) : G[i].op \in Group \cup {"plate"})
  PROVE  MovePlan(G \o Tail(s), m, t)
<1> DEFINE q == G \o Tail(s)
           n == Len(G)
<1>0. G \in Seq(Call) /\ \A i \in 1 .. Len(G) : G[i].op \notin {"release_mux", "goto"}
  BY DEF Expansion, Group
<1>1. /\ Len(s) \in Nat \ {0} /\ n \in Nat /\ Len(q) = n + Len(s) - 1 /\ s[1].op \in Group
      /\ \A i \in 1 .. n : i \in 1 .. Len(q) /\ q[i] = G[i]
      /\ \A i \in n + 1 .. Len(q) : i - n + 1 \in 2 .. Len(s) /\ q[i] = s[i - n + 1]
  <2>1. /\ Len(s) \in Nat \ {0} /\ n \in Nat /\ Len(q) = n + Len(s) - 1 /\ s[1].op \in Group
        /\ \A i \in 1 .. Len(q) : q[i] = IF i <= n THEN G[i] ELSE s[i - n + 1]
    BY <1>0, Replaced
  <2> QED BY <2>1
<1> HIDE DEF q, n
<1>2. s[1].op # "take_mux"
  BY <1>1 DEF Group
<1>3. m
  BY <1>1, <1>2 DEF MuxPlan
<1>4. ASSUME NEW i \in 1 .. n PROVE Guarded(q, m, i)
  <2>1. ASSUME NEW k \in 1 .. i PROVE q[k].op # "release_mux"
    <3>1. k \in 1 .. n
      BY <1>1
    <3> QED BY <1>0, <1>1, <3>1 DEF n
  <2> QED BY <1>3, <2>1 DEF Guarded, Keeps
<1>5. ASSUME NEW i \in n + 1 .. Len(q), NEW k \in 1 .. i
      PROVE  (k \in 1 .. n /\ q[k] = G[k]) \/ (k - n + 1 \in 1 .. i - n + 1 /\ q[k] = s[k - n + 1])
  <2>1. CASE k <= n
    BY <1>1, <2>1
  <2>2. CASE k > n
    <3>1. k \in n + 1 .. Len(q) /\ k - n + 1 \in 1 .. i - n + 1
      BY <1>1, <2>2
    <3> QED BY <1>1, <3>1
  <2> QED BY <1>1, <2>1, <2>2
<1>6. ASSUME NEW i \in n + 1 .. Len(q), Guarded(s, m, i - n + 1) PROVE Guarded(q, m, i)
  <2>1. ASSUME NEW k \in 1 .. i PROVE q[k].op # "release_mux"
    BY <1>0, <1>5, <1>6 DEF Guarded, Keeps, n
  <2> QED BY <1>3, <2>1 DEF Guarded, Keeps
<1>7. ASSUME NEW i \in n + 1 .. Len(q), Resets(s, t, i - n + 1) PROVE Resets(q, t, i)
  <2>1. ASSUME NEW k \in 1 .. i PROVE q[k].op # "goto"
    BY <1>0, <1>5, <1>7 DEF Resets, n
  <2>2. q[i] = s[i - n + 1]
    BY <1>1
  <2> QED BY <1>7, <2>1, <2>2 DEF Resets
<1>8. ASSUME NEW i \in 1 .. Len(q), Motion(q[i]) PROVE Guarded(q, m, i) \/ Resets(q, t, i)
  <2>1. CASE i <= n
    <3>1. i \in 1 .. n
      BY <1>1, <2>1
    <3> QED BY <1>4, <3>1
  <2>2. CASE i > n
    <3>1. i \in n + 1 .. Len(q)
      BY <1>1, <2>2
    <3>2. i - n + 1 \in 1 .. Len(s) /\ q[i] = s[i - n + 1]
      BY <1>1, <3>1
    <3> QED BY <1>6, <1>7, <1>8, <3>1, <3>2 DEF MovePlan
  <2> QED BY <1>1, <2>1, <2>2
<1> QED BY <1>8 DEF q, MovePlan

\* The mutex is taken first, and every motion comes before its release.
Bracketed(s, r) ==
  /\ s[1].op = "take_mux"
  /\ \A i \in 1 .. Len(s) : /\ s[i].op = "release_mux" => i = r
                            /\ Motion(s[i]) => i < r

\* Then every motion is made with the mutex.
LEMMA BracketedMoves ==
  ASSUME NEW s, Len(s) \in Nat, NEW r \in Nat, Bracketed(s, r), NEW m, NEW t
  PROVE  MovePlan(s, m, t)
<1> SUFFICES ASSUME NEW i \in 1 .. Len(s), Motion(s[i]) PROVE Guarded(s, m, i)
  BY DEF MovePlan
<1>1. i < r /\ 1 \in 1 .. i
  BY DEF Bracketed
<1>2. ASSUME NEW k \in 1 .. i PROVE s[k].op # "release_mux"
  <2>1. k \in 1 .. Len(s) /\ k < r
    BY <1>1
  <2> QED BY <2>1 DEF Bracketed
<1> QED BY <1>1, <1>2 DEF Guarded, Keeps, Bracketed

\* A round ends in a rt_thread_delay, which moves nothing.
LEMMA MoveDelay ==
  ASSUME NEW s \in Seq(Call), NEW m, NEW t, MovePlan(s, m, t)
  PROVE  MovePlan(s \o <<Delay>>, m, t)
<1> DEFINE g == <<Delay>>
           q == s \o g
<1>1. /\ Len(q) = Len(s) + 1 /\ Len(s) \in Nat
      /\ \A i \in 1 .. Len(q) : q[i] = IF i <= Len(s) THEN s[i] ELSE Delay
  <2>1. g \in Seq(Call) /\ Len(g) = 1 /\ g[1] = Delay
    BY Calls1
  <2> HIDE DEF g
  <2>2. /\ Len(s \o g) = Len(s) + Len(g) /\ Len(s) \in Nat
        /\ \A i \in 1 .. Len(s) + Len(g) : (s \o g)[i] = IF i <= Len(s) THEN s[i] ELSE g[i - Len(s)]
    BY <2>1, ConcatProperties, LenProperties
  <2>3. ASSUME NEW i \in 1 .. Len(s) + 1, i > Len(s) PROVE i - Len(s) = 1
    BY <2>2, <2>3
  <2> QED BY <2>1, <2>2, <2>3
<1> HIDE DEF q, g
<1>2. ASSUME NEW i \in 1 .. Len(q), Motion(q[i]) PROVE Guarded(q, m, i) \/ Resets(q, t, i)
  <2>1. i <= Len(s)
    BY <1>1, <1>2 DEF Motion, Delay
  <2>2. i \in 1 .. Len(s) /\ \A k \in 1 .. i : q[k] = s[k]
    BY <1>1, <2>1
  <2>3. q[i] = s[i]
    BY <2>2
  <2>4. Guarded(s, m, i) \/ Resets(s, t, i)
    BY <1>2, <2>2, <2>3 DEF MovePlan
  <2> QED BY <2>2, <2>3, <2>4 DEF Guarded, Keeps, Resets
<1> QED BY <1>2 DEF MovePlan, q, g

\* The cases that take the mutex.
LEMMA BracketedBodies ==
  ASSUME NEW t \in {"ScanQR", "TakeRaw1", "GoRough", "TPRough1", "PutStag1", "PassRough", "TakeRaw2",
                    "GoRough2", "TPRough2", "PutStag2"}
  PROVE  \E r \in Nat : Bracketed(Body(t), r) /\ Len(Body(t)) \in Nat
<1>1. ASSUME NEW d PROVE Bracketed(TakeRawThree(d), 12) /\ Len(TakeRawThree(d)) \in Nat
  BY DEF Bracketed, Motion, TakeRawThree, MutexTake, IdentifyColorTake, Delay, MotorMotion_Rotate,
     ArmClipTakeState, MotorMotion_Lift, MaterialPosition, MutexRelease, CalibratThenOn
<1>2. ASSUME NEW d, NEW h PROVE Bracketed(PutTakeThree(d, h), 10) /\ Len(PutTakeThree(d, h)) \in Nat
  BY DEF Bracketed, Motion, PutTakeThree, MutexTake, Ground_PutAction, Ground_TakeAction, ArmClipTakeState,
     MotorMotion_Lift, MutexRelease, CalibratThenOn
<1>3. ASSUME NEW n PROVE Bracketed(ResetArm(n), 4) /\ Len(ResetArm(n)) \in Nat
  BY DEF Bracketed, Motion, ResetArm, MutexTake, MotorMotion_Rotate, MotorMotion_Lift, MutexRelease, Goto
<1>4. CASE t \in {"TakeRaw1", "TakeRaw2"}
  <2>1. Body(t) = TakeRawThree(IF t = "TakeRaw1" THEN Code1 ELSE Code2)
    BY <1>4 DEF Body
  <2> QED BY <1>1, <2>1
<1>5. CASE t \in {"TPRough1", "TPRough2"}
  <2>1. Body(t) = PutTakeThree(IF t = "TPRough1" THEN Code1 ELSE Code2, IF t = "TPRough1" THEN "Aim" ELSE "Pile")
    BY <1>5 DEF Body
  <2> QED BY <1>2, <2>1
<1>6. CASE t \in {"GoRough", "GoRough2"}
  <2>1. Body(t) = ResetArm(IF t = "GoRough" THEN "TPRough1" ELSE "TPRough2")
    BY <1>6 DEF Body
  <2> QED BY <1>3, <2>1
<1>7. CASE t = "ScanQR"
  <2> DEFINE s == <<MutexTake, ArmClipTakeState("Avoid"), MotorMotion_Rotate("Vision"),
                    MotorMotion_Lift("Raw"), MutexRelease, Goto("TakeRaw1")>>
  <2>1. Body(t) = s
    BY <1>7 DEF Body
  <2>2. Bracketed(s, 5) /\ Len(s) \in Nat
    BY DEF Bracketed, Motion, MutexTake, ArmClipTakeState, MotorMotion_Rotate, MotorMotion_Lift, MutexRelease,
       Goto
  <2> QED BY <2>1, <2>2
<1>8. CASE t = "PassRough"
  <2> DEFINE s == <<MutexTake, SendOrderToCar(Raw), MotorMotion_Lift("Raw"), MutexRelease, Goto("TakeRaw2")>>
  <2>1. Body(t) = s
    BY <1>8 DEF Body
  <2>2. Bracketed(s, 4) /\ Len(s) \in Nat
    BY DEF Bracketed, Motion, MutexTake, SendOrderToCar, MotorMotion_Lift, MutexRelease, Goto
  <2> QED BY <2>1, <2>2
<1>9. CASE t = "PutStag1"
  <2> DEFINE s == <<MutexTake, Ground_PutAction("Normal", Code1[2], TRUE),
                    Ground_PutAction("Normal", Code1[3], TRUE), Ground_PutAction("Normal", Code2[1], FALSE),
                    MotorMotion_Lift("Aim"), MutexRelease, CalibratThenOn>>
  <2>1. Body(t) = s
    BY <1>9 DEF Body
  <2>2. Bracketed(s, 6) /\ Len(s) \in Nat
    BY DEF Bracketed, Motion, MutexTake, Ground_PutAction, MotorMotion_Lift, MutexRelease, CalibratThenOn
  <2> QED BY <2>1, <2>2
<1>10. CASE t = "PutStag2"
  <2> DEFINE s == <<MutexTake, Ground_PutAction("StackUp", Code2[2], TRUE),
                    Ground_PutAction("StackUp", Code2[3], TRUE), Ground_PutAction("StackUp", None, TRUE),
                    MutexRelease, Goto("Restart")>>
  <2>1. Body(t) = s
    BY <1>10 DEF Body
  <2>2. Bracketed(s, 5) /\ Len(s) \in Nat
    BY DEF Bracketed, Motion, MutexTake, Ground_PutAction, MutexRelease, Goto
  <2> QED BY <2>1, <2>2
<1> QED BY <1>4, <1>5, <1>6, <1>7, <1>8, <1>9, <1>10

\* Calls that move the arm to "Reset" only, in the same task.
Resetting(s) ==
  s \in Seq(Call) /\ \A i \in 1 .. Len(s) : s[i].op # "goto" /\ (Motion(s[i]) => s[i].pos = "Reset")

\* Such calls, one part after the other.
LEMMA ResettingConcat ==
  ASSUME NEW a, NEW b, Resetting(a), Resetting(b)
  PROVE  Resetting(a \o b)
<1>1. /\ a \o b \in Seq(Call) /\ Len(a \o b) = Len(a) + Len(b) /\ Len(a) \in Nat /\ Len(b) \in Nat
      /\ \A i \in 1 .. Len(a) + Len(b) : (a \o b)[i] = IF i <= Len(a) THEN a[i] ELSE b[i - Len(a)]
  BY ConcatProperties DEF Resetting
<1> SUFFICES ASSUME NEW i \in 1 .. Len(a) + Len(b)
             PROVE  (a \o b)[i].op # "goto" /\ (Motion((a \o b)[i]) => (a \o b)[i].pos = "Reset")
  BY <1>1 DEF Resetting
<1>2. CASE i <= Len(a)
  BY <1>1, <1>2 DEF Resetting
<1>3. CASE i > Len(a)
  <2>1. i - Len(a) \in 1 .. Len(b) /\ (a \o b)[i] = b[i - Len(a)]
    BY <1>1, <1>3
  <2> QED BY <2>1 DEF Resetting
<1> QED BY <1>1, <1>2, <1>3

\* SendRingToCar, with the arm and with the wait.
LEMMA SendRingResets ==
  ASSUME NEW d \in Maybe
  PROVE  Resetting(SendRingToCar("Staging", TRUE, d, TRUE))
<1> DEFINE o == <<SendOrderToCar(Ring("Staging", d))>>
           a == <<MotorMotion_Lift("Reset"), MotorMotion_Rotate("Reset")>>
           w == <<WaitArrive>>
<1>1. Resetting(o)
  <2>1. Ring("Staging", d) \in Place
    BY DEF Ring, Place
  <2>2. SendOrderToCar(Ring("Staging", d)) \in Call
    BY <2>1, Calls1
  <2> QED BY <2>2 DEF Resetting, Motion, SendOrderToCar
<1>2. Resetting(a)
  <2>1. MotorMotion_Lift("Reset") \in Call /\ MotorMotion_Rotate("Reset") \in Call
    BY Calls1 DEF LiftPos
  <2> QED BY <2>1 DEF Resetting, Motion, MotorMotion_Lift, MotorMotion_Rotate
<1>3. Resetting(w)
  BY Calls1 DEF Resetting, Motion, WaitArrive
<1>4. SendRingToCar("Staging", TRUE, d, TRUE) = (o \o a) \o w
  BY Zenon DEF SendRingToCar
<1> HIDE DEF o, a, w
<1> QED BY <1>1, <1>2, <1>3, <1>4, ResettingConcat

\* In GoStaging and GoStag2 the arm is only reset, before the task changes.
LEMMA ResetMoves ==
  ASSUME NEW t \in {"GoStaging", "GoStag2"}, NEW m, codeS \in Code
  PROVE  MovePlan(Body(t), m, t)
<1> DEFINE d == IF t = "GoStaging" THEN Code1[1] ELSE Code2[1]
           u == IF t = "GoStaging" THEN "PutStag1" ELSE "PutStag2"
           g == <<Goto(u)>>
           s == SendRingToCar("Staging", TRUE, d, TRUE)
           q == s \o g
<1>1. Body(t) = q
  BY DEF Body
<1>2. d \in Maybe
  BY CodeDigits DEF Maybe
<1>3. g \in Seq(Call) /\ Len(g) = 1 /\ ~Motion(g[1])
  <2>1. u \in Task
    BY DEF Task
  <2> HIDE DEF u
  <2> QED BY <2>1, Calls1 DEF Motion, Goto
<1> HIDE DEF d, g
<1>4. Resetting(s)
  BY <1>2, SendRingResets
<1> HIDE DEF s
<1>5. /\ Len(q) = Len(s) + 1 /\ Len(s) \in Nat
      /\ \A i \in 1 .. Len(q) : q[i] = IF i <= Len(s) THEN s[i] ELSE g[i - Len(s)]
  <2>1. s \in Seq(Call) /\ g \in Seq(Call) /\ Len(s) \in Nat
    BY <1>3, <1>4, LenProperties DEF Resetting
  <2>2. /\ Len(s \o g) = Len(s) + Len(g)
        /\ \A i \in 1 .. Len(s) + Len(g) : (s \o g)[i] = IF i <= Len(s) THEN s[i] ELSE g[i - Len(s)]
    BY <2>1, ConcatProperties
  <2>3. Len(g) = 1 /\ q = s \o g
    BY <1>3
  <2> HIDE DEF q
  <2> QED BY <2>1, <2>2, <2>3
<1> HIDE DEF q
<1>6. ASSUME NEW i \in 1 .. Len(q), Motion(q[i]) PROVE Resets(q, t, i)
  <2>1. i <= Len(s)
    <3>1. SUFFICES ASSUME i > Len(s) PROVE FALSE
      BY <1>5
    <3>2. i - Len(s) = 1
      BY <1>5, <3>1
    <3> QED BY <1>3, <1>5, <1>6, <3>1, <3>2
  <2>2. \A k \in 1 .. i : k \in 1 .. Len(s) /\ q[k] = s[k]
    BY <1>5, <2>1
  <2> QED BY <1>4, <1>6, <2>2 DEF Resets, Resetting
<1> QED BY <1>1, <1>6 DEF MovePlan

\* Every case of the switch keeps to the plan.
LEMMA BodyMoves ==
  ASSUME NEW t \in Task, NEW m, codeS \in Code \/ t \in {"TaskStart", "ScanQR"}
  PROVE  MovePlan(Body(t), m, t)
<1>1. CASE t \in {"ScanQR", "TakeRaw1", "GoRough", "TPRough1", "PutStag1", "PassRough", "TakeRaw2",
                  "GoRough2", "TPRough2", "PutStag2"}
  BY <1>1, BracketedBodies, BracketedMoves
<1>2. CASE t \in {"GoStaging", "GoStag2"}
  <2>1. codeS \in Code
    BY <1>2
  <2> QED BY <1>2, <2>1, ResetMoves
<1>3. CASE t \in {"TaskStart", "Restart", "Calibrat"}
  <2>1. \A i \in 1 .. Len(Body(t)) : ~Motion(Body(t)[i])
    <3>1. CASE t = "TaskStart"
      <4>1. Body(t) = <<SendOrderToCar(Raw), Goto("ScanQR")>>
        BY <3>1 DEF Body
      <4> QED BY <4>1 DEF Motion, SendOrderToCar, Goto
    <3>2. CASE t = "Restart"
      <4>1. Body(t) = <<Goto("TaskStart"), Stop>>
        BY <3>2 DEF Body
      <4> QED BY <4>1 DEF Motion, Goto, Stop
    <3>3. CASE t = "Calibrat"
      <4>1. Body(t) = (IF oldTask \in DOMAIN AfterCalibrat THEN <<Goto(AfterCalibrat[oldTask])>> ELSE <<>>)
        BY <3>3 DEF Body
      <4>2. CASE oldTask \in DOMAIN AfterCalibrat
        BY <4>1, <4>2 DEF Motion, Goto
      <4>3. CASE oldTask \notin DOMAIN AfterCalibrat
        BY <4>1, <4>3
      <4> QED BY <4>2, <4>3
    <3> QED BY <1>3, <3>1, <3>2, <3>3
  <2> QED BY <2>1 DEF MovePlan
<1> QED BY <1>1, <1>2, <1>3 DEF Task

\* The calls an action group makes.
LEMMA GroupCalls ==
  ASSUME Inv, PutStep \/ GroundTakeStep \/ TakeRawStep \/ IdentifyStep \/ LookStep
  PROVE  /\ todo # <<>> /\ Head(todo).op \in Group /\ UNCHANGED <<nowTask, mux, clip, lift, rot>>
         /\ \E G : /\ todo' = G \o Tail(todo)
                   /\ \/ Expansion(G)
                      \/ G \in Seq(Call) /\ \A i \in 1 .. Len(G) : G[i].op \in Group \cup {"plate"}
<1>1. /\ todo # <<>> /\ Head(todo).op \in Group /\ UNCHANGED <<nowTask, mux, clip, lift, rot>>
  BY DEF PutStep, GroundTakeStep, TakeRawStep, IdentifyStep, LookStep, Calls, Group, system, arm
<1>2. Head(todo) \in Call
  BY <1>1, Rest DEF Inv, Types
<1>3. ASSUME PutStep PROVE \E G : todo' = G \o Tail(todo) /\ Expansion(G)
  <2>1. Head(todo).color \in Maybe /\ Head(todo).rotate \in BOOLEAN
    BY <1>2, <1>3, Arguments DEF PutStep, Calls
  <2> QED BY <1>3, <2>1, PutExpansion DEF PutStep
<1>4. ASSUME GroundTakeStep PROVE \E G : todo' = G \o Tail(todo) /\ Expansion(G)
  <2>1. Head(todo).color \in Color
    BY <1>2, <1>4, Arguments DEF GroundTakeStep, Calls
  <2> QED BY <1>4, <2>1, GroundTakeExpansion DEF GroundTakeStep
<1>5. ASSUME TakeRawStep PROVE \E G : todo' = G \o Tail(todo) /\ Expansion(G)
  <2>1. Expansion(TakeRawCalls)
    BY <1>1, GroupHasCode, TakeRawExpansion
  <2> QED BY <1>5, <2>1 DEF TakeRawStep
<1>6. ASSUME IdentifyStep \/ LookStep
      PROVE  \E P \in Seq(Call) : \E c \in Call : /\ \A i \in 1 .. Len(P) : P[i].op = "plate"
                                                  /\ c.op \in Takes /\ todo' = (P \o <<c>>) \o Tail(todo)
  BY <1>6, IdentifyCalls, LookCalls
<1>7. ASSUME IdentifyStep \/ LookStep
      PROVE  \E G \in Seq(Call) : todo' = G \o Tail(todo) /\ \A i \in 1 .. Len(G) : G[i].op \in Group \cup {"plate"}
  <2>1. PICK P \in Seq(Call), c \in Call : /\ \A i \in 1 .. Len(P) : P[i].op = "plate"
                                           /\ c.op \in Takes /\ todo' = (P \o <<c>>) \o Tail(todo)
    BY <1>6, <1>7
  <2> DEFINE G == P \o <<c>>
  <2>2. G \in Seq(Call) /\ \A i \in 1 .. Len(G) : G[i].op \in Group \cup {"plate"}
    BY <2>1, TakesCalls
  <2>3. todo' = G \o Tail(todo)
    BY <2>1
  <2> HIDE DEF G
  <2> QED BY <2>2, <2>3
<1>8. CASE PutStep \/ GroundTakeStep \/ TakeRawStep
  BY <1>1, <1>3, <1>4, <1>5, <1>8
<1>9. CASE IdentifyStep \/ LookStep
  <2>1. PICK G \in Seq(Call) : todo' = G \o Tail(todo) /\ \A i \in 1 .. Len(G) : G[i].op \in Group \cup {"plate"}
    BY <1>7, <1>9
  <2> QED BY <1>1, <2>1
<1> QED BY <1>8, <1>9

\* The calls that only move, wait or send.
LEMMA PlainMoves ==
  ASSUME Inv, MoveInv, todo # <<>>, todo' = Tail(todo), UNCHANGED <<nowTask, mux, clip>>,
         Head(todo).op \notin {"take_mux", "release_mux", "clip", "goto"}
  PROVE  MoveInv'
<1>1. todo \in Seq(Call)
  BY DEF Inv, Types
<1>2. MuxPlan(Tail(todo), mux, clip = "Grasp")
  BY <1>1, MuxPlanRest DEF MoveInv
<1>3. MovePlan(Tail(todo), mux, nowTask)
  BY <1>1, MoveRest DEF MoveInv
<1> QED BY <1>2, <1>3 DEF MoveInv

\* The clip moves.
LEMMA ClipMoves ==
  ASSUME Inv, MoveInv, ClipStep
  PROVE  MoveInv'
<1>1. /\ todo \in Seq(Call) /\ todo # <<>> /\ todo' = Tail(todo) /\ Head(todo).op = "clip"
      /\ clip' = Head(todo).state /\ UNCHANGED <<nowTask, mux>>
  BY DEF Inv, Types, ClipStep, Calls, Done, system
<1>2. MuxPlan(Tail(todo), mux, clip' = "Grasp")
  <2>1. CASE Head(todo).state = "Grasp"
    <3>1. MuxPlan(Tail(todo), mux, TRUE)
      BY <1>1, <2>1, MuxPlanRest DEF MoveInv, Closes
    <3> QED BY <1>1, <2>1, <3>1 DEF MuxPlan
  <2>2. CASE Head(todo).state # "Grasp"
    <3>1. MuxPlan(Tail(todo), mux, FALSE)
      BY <1>1, <2>2, MuxPlanRest DEF MoveInv, Opens
    <3> QED BY <1>1, <2>2, <3>1 DEF MuxPlan
  <2> QED BY <2>1, <2>2
<1>3. MovePlan(Tail(todo), mux, nowTask)
  BY <1>1, MoveRest DEF MoveInv
<1> QED BY <1>1, <1>2, <1>3 DEF MoveInv

\* The mutex is taken or released, with the clip open.
LEMMA MuxMoves ==
  ASSUME Inv, MoveInv, MuxStep
  PROVE  MoveInv' /\ (~mux' => clip # "Grasp")
<1>1. /\ todo \in Seq(Call) /\ todo # <<>> /\ todo' = Tail(todo) /\ Head(todo).op \in {"take_mux", "release_mux"}
      /\ mux' = (Head(todo).op = "take_mux") /\ UNCHANGED <<nowTask, clip>>
  BY DEF Inv, Types, MuxStep, Calls, Done, system, arm
<1>2. CASE Head(todo).op = "take_mux"
  <2>1. MuxPlan(Tail(todo), TRUE, clip = "Grasp") /\ mux' = TRUE
    BY <1>1, <1>2, MuxPlanRest DEF MoveInv
  <2>2. MovePlan(Tail(todo), TRUE, nowTask)
    BY <1>1, <1>2, MoveRest DEF MoveInv
  <2> QED BY <1>1, <2>1, <2>2 DEF MoveInv
<1>3. CASE Head(todo).op = "release_mux"
  <2>1. clip # "Grasp" /\ MuxPlan(Tail(todo), FALSE, FALSE) /\ mux' = FALSE
    BY <1>1, <1>3, MuxPlanRest DEF MoveInv
  <2>2. MovePlan(Tail(todo), FALSE, nowTask)
    BY <1>1, <1>3, MoveRest DEF MoveInv
  <2>3. MuxPlan(Tail(todo), FALSE, clip = "Grasp")
    BY <2>1 DEF MuxPlan
  <2> QED BY <1>1, <2>1, <2>2, <2>3 DEF MoveInv
<1> QED BY <1>1, <1>2, <1>3

\* The task changes.
LEMMA GotoMoves ==
  ASSUME Inv, MoveInv, GotoStep
  PROVE  MoveInv'
<1>1. /\ todo \in Seq(Call) /\ todo # <<>> /\ todo' = Tail(todo) /\ Head(todo).op = "goto"
      /\ UNCHANGED <<mux, clip>>
  BY DEF Inv, Types, GotoStep, Calls, Done, arm
<1>2. MuxPlan(Tail(todo), mux, clip = "Grasp")
  BY <1>1, MuxPlanRest DEF MoveInv
<1>3. MovePlan(Tail(todo), mux, nowTask')
  BY <1>1, MoveRest DEF MoveInv
<1> QED BY <1>1, <1>2, <1>3 DEF MoveInv

\* An action group begins.
LEMMA GroupMoves ==
  ASSUME Inv, MoveInv, PutStep \/ GroundTakeStep \/ TakeRawStep \/ IdentifyStep \/ LookStep
  PROVE  MoveInv'
<1>1. /\ todo # <<>> /\ Head(todo).op \in Group /\ UNCHANGED <<nowTask, mux, clip>> /\ todo \in Seq(Call)
  BY GroupCalls DEF Inv, Types
<1>2. PICK G : /\ todo' = G \o Tail(todo)
               /\ \/ Expansion(G)
                  \/ G \in Seq(Call) /\ \A i \in 1 .. Len(G) : G[i].op \in Group \cup {"plate"}
  BY GroupCalls
<1>3. MuxPlan(G \o Tail(todo), mux, clip = "Grasp")
  BY <1>1, <1>2, MuxPlanReplaced DEF MoveInv
<1>4. MovePlan(G \o Tail(todo), mux, nowTask)
  <2>1. MuxPlan(todo, mux, clip = "Grasp") /\ MovePlan(todo, mux, nowTask)
    BY DEF MoveInv
  <2> QED BY <1>1, <1>2, <2>1, MoveReplaced
<1> QED BY <1>1, <1>2, <1>3, <1>4 DEF MoveInv

\* A round begins, with the clip open.
LEMMA PollMoves ==
  ASSUME Inv, MoveInv, Poll
  PROVE  MoveInv'
<1>1. /\ todo = <<>> /\ UNCHANGED <<nowTask, mux, clip>>
      /\ nowTask \in Task /\ oldTask \in Task
      /\ codeS \in Code \/ nowTask \in {"TaskStart", "ScanQR"}
  BY DEF Inv, CodeInv, Types, TypeOK, Poll, system, arm
<1>2. clip # "Grasp"
  <2>1. Len(<<>>) = 0
    OBVIOUS
  <2> QED BY <1>1, <2>1 DEF MoveInv, MuxPlan
<1>3. MuxPlan(todo', mux, FALSE) /\ MovePlan(todo', mux, nowTask)
  <2>1. CASE Missing(nowTask)
    <3> DEFINE s == <<Delay>>
    <3>1. todo' = s
      BY <2>1 DEF Poll
    <3>2. \A i \in 1 .. Len(s) : s[i].op = "delay"
      BY DEF Delay
    <3> HIDE DEF s
    <3> QED BY <3>1, <3>2 DEF MuxPlan, MovePlan, Motion, Closes, Group
  <2>2. CASE ~Missing(nowTask)
    <3>1. todo' = Body(nowTask) \o <<Delay>>
      BY <2>2 DEF Poll
    <3>2. Round(Body(nowTask), nowTask)
      BY <1>1, BodyRound
    <3>3. Body(nowTask) \in Seq(Call)
      BY <3>2 DEF Round
    <3>4. MovePlan(Body(nowTask), mux, nowTask)
      BY <1>1, BodyMoves
    <3> QED BY <3>1, <3>2, <3>3, <3>4, RoundDelay, RoundMuxPlan, MoveDelay
  <2> QED BY <2>1, <2>2
<1>4. MuxPlan(todo', mux, clip = "Grasp")
  BY <1>2, <1>3 DEF MuxPlan
<1> QED BY <1>1, <1>3, <1>4 DEF MoveInv

\* Every step keeps it.
LEMMA StepMove == Inv /\ MoveInv /\ [Next]_vars => MoveInv'
<1> SUFFICES ASSUME Inv, MoveInv, [Next]_vars PROVE MoveInv'
  OBVIOUS
<1>1. CASE LiftStep \/ RotateStep \/ PlateStep \/ OrderStep \/ WaitStep \/ DelayStep \/ StopStep \/ KeyShort
  <2>1. /\ todo # <<>> /\ todo' = Tail(todo) /\ UNCHANGED <<nowTask, mux, clip>>
        /\ Head(todo).op \notin {"take_mux", "release_mux", "clip", "goto"}
    BY <1>1 DEF LiftStep, RotateStep, PlateStep, OrderStep, WaitStep, DelayStep, StopStep, KeyShort, Calls,
       Done, system, arm
  <2> QED BY <2>1, PlainMoves
<1>2. CASE ReceCarState_Wire \/ ReceTaskCode_Mult \/ KeyStarted \/ KeyPersist \/ UNCHANGED vars
  <2>1. UNCHANGED <<todo, nowTask, mux, clip>>
    BY <1>2 DEF ReceCarState_Wire, ReceTaskCode_Mult, KeyStarted, KeyPersist, vars, system, arm
  <2> QED BY <2>1 DEF MoveInv
<1>3. CASE ClipStep \/ MuxStep \/ GotoStep \/ Poll
  BY <1>3, ClipMoves, MuxMoves, GotoMoves, PollMoves
<1>4. CASE PutStep \/ GroundTakeStep \/ TakeRawStep \/ IdentifyStep \/ LookStep
  BY <1>4, GroupMoves
<1> QED BY <1>1, <1>2, <1>3, <1>4 DEF Next, Step, Rece, Key

\* It holds at the start.
LEMMA MoveInit == Init => MoveInv
<1> SUFFICES ASSUME Init PROVE MoveInv
  OBVIOUS
<1>1. todo = <<>> /\ clip # "Grasp" /\ Len(<<>>) = 0
  BY DEF Init
<1> QED BY <1>1 DEF MoveInv, MuxPlan, MovePlan

\* The invariants always hold.
LEMMA MoveInvariance == Spec => [](Inv /\ PathInv /\ MoveInv)
BY InitInv, StepInv, PathInit, StepPath, MoveInit, StepMove, PTL DEF Spec

(***************************************************************************)
(* MainCtrl moves the lift and the turntable with Action_mux, for every    *)
(* task code, way of taking and pressing of keys, but that SendRingToCar   *)
(* resets them without it in GoStaging and GoStag2: no more than the       *)
(* module Motor lets it do (Allowed).                                      *)
(***************************************************************************)
THEOREM MissionMovesWithMutex == Spec => MovesWithMutex
<1> DEFINE Bare == nowTask \in {"GoStaging", "GoStag2"} /\ lift' \in {lift, "Reset"} /\ rot' \in {rot, "Reset"}
<1>1. Inv /\ MoveInv /\ [Next]_vars => [<<lift, rot>>' # <<lift, rot>> => mux \/ Bare]_vars
  <2> SUFFICES ASSUME Inv, MoveInv, [Next]_vars, lift' # lift \/ rot' # rot PROVE mux \/ Bare
    OBVIOUS
  <2>1. LiftStep \/ RotateStep
    BY DEF Next, Step, Rece, Key, Poll, PlateStep, ClipStep, OrderStep, WaitStep, MuxStep, DelayStep,
       GotoStep, StopStep, PutStep, GroundTakeStep, TakeRawStep, IdentifyStep, LookStep, ReceCarState_Wire,
       ReceTaskCode_Mult, KeyStarted, KeyShort, KeyPersist, vars, arm
  <2>2. todo # <<>> /\ Motion(Head(todo)) /\ lift' \in {lift, Head(todo).pos} /\ rot' \in {rot, Head(todo).pos}
    BY <2>1 DEF LiftStep, RotateStep, Calls, Motion
  <2>3. mux \/ (nowTask \in {"GoStaging", "GoStag2"} /\ Head(todo).pos = "Reset")
    <3>1. SUFFICES ASSUME mux = FALSE PROVE nowTask \in {"GoStaging", "GoStag2"} /\ Head(todo).pos = "Reset"
      BY DEF Inv, Types, TypeOK
    <3>2. todo \in Seq(Call) /\ MovePlan(todo, FALSE, nowTask)
      BY <3>1 DEF Inv, Types, MoveInv
    <3> QED BY <2>2, <3>2, MoveRest
  <2> QED BY <2>2, <2>3
<1> QED BY <1>1, MoveInvariance, PTL DEF Spec, MovesWithMutex

(***************************************************************************)
(* MainCtrl goes to Places and Stack only from the top, to which it raised *)
(* the arm while it had the mutex, for every task code, way of taking and  *)
(* pressing of keys: the object is in the clip, which closed below the top *)
(* and with the mutex, and opens before the mutex is released.  So its     *)
(* curves go down the whole way, and are not refused.                      *)
(***************************************************************************)
THEOREM MissionPlacesFromTop == Spec => PlacesFromTop
<1> DEFINE Top == /\ lift' # lift /\ lift' \in {"Places", "Stack"} => lift = "Reset" /\ clip = "Grasp"
                  /\ clip # "Grasp" /\ clip' = "Grasp" => lift # "Reset" /\ mux
                  /\ mux /\ ~mux' => clip # "Grasp"
<1>1. Inv /\ PathInv /\ MoveInv /\ [Next]_vars => [Top]_vars
  <2> SUFFICES ASSUME Inv, PathInv, MoveInv, [Next]_vars PROVE Top
    OBVIOUS
  <2>1. ASSUME lift' # lift, lift' \in {"Places", "Stack"} PROVE lift = "Reset" /\ clip = "Grasp"
    <3>1. LiftStep
      BY <2>1 DEF Next, Step, Rece, Key, Poll, RotateStep, PlateStep, ClipStep, OrderStep, WaitStep, MuxStep,
         DelayStep, GotoStep, StopStep, PutStep, GroundTakeStep, TakeRawStep, IdentifyStep, LookStep,
         ReceCarState_Wire, ReceTaskCode_Mult, KeyStarted, KeyShort, KeyPersist, vars, arm
    <3>2. todo # <<>> /\ Head(todo).op = "lift" /\ Head(todo).pos \in {"Places", "Stack"}
      BY <2>1, <3>1 DEF LiftStep, Calls
    <3>3. PICK v, e : Agrees(v) /\ Leads(Given, Head(todo), v, e)
      BY <3>2, FirstCall
    <3>4. v.arm[1] = "Reset" /\ v.arm[3] = "Grasp"
      BY <3>2, <3>3 DEF Leads, Before
    <3> QED BY <3>3, <3>4 DEF Agrees, Sees
  <2>2. ASSUME clip # "Grasp", clip' = "Grasp" PROVE lift # "Reset" /\ mux
    <3>1. ClipStep
      BY <2>2 DEF Next, Step, Rece, Key, Poll, LiftStep, RotateStep, PlateStep, OrderStep, WaitStep, MuxStep,
         DelayStep, GotoStep, StopStep, PutStep, GroundTakeStep, TakeRawStep, IdentifyStep, LookStep,
         ReceCarState_Wire, ReceTaskCode_Mult, KeyStarted, KeyShort, KeyPersist, vars, arm
    <3>2. todo # <<>> /\ Closes(Head(todo))
      BY <2>2, <3>1 DEF ClipStep, Calls, Closes
    <3>3. PICK v, e : Agrees(v) /\ Leads(Given, Head(todo), v, e)
      BY <3>2, FirstCall
    <3>4. Over(v.arm, v.slot, v.place)[1] # "Floor"
      <4>1. PICK c : c = Grasped(v)
        OBVIOUS
      <4>2. Over(v.arm, v.slot, v.place) \in {Raw, OnPlate(c), Ring("Rough", c)}
        BY <3>2, <3>3, <4>1 DEF Leads, Before, CanClose
      <4> QED BY <4>2 DEF Raw, OnPlate, Ring
    <3>5. v.arm[1] # "Reset"
      BY <3>4 DEF Over, Floor
    <3>6. mux
      <4>1. MuxPlan(todo, mux, clip = "Grasp") /\ Head(todo) = todo[1] /\ 1 \in 1 .. Len(todo)
        BY <3>2, Rest DEF Inv, Types, MoveInv
      <4> QED BY <3>2, <4>1 DEF MuxPlan, Closes
    <3> QED BY <3>3, <3>5, <3>6 DEF Agrees, Sees
  <2>3. ASSUME mux, ~mux' PROVE clip # "Grasp"
    <3>1. MuxStep
      BY <2>3 DEF Next, Step, Rece, Key, Poll, LiftStep, RotateStep, PlateStep, ClipStep, OrderStep, WaitStep,
         DelayStep, GotoStep, StopStep, PutStep, GroundTakeStep, TakeRawStep, IdentifyStep, LookStep,
         ReceCarState_Wire, ReceTaskCode_Mult, KeyStarted, KeyShort, KeyPersist, vars
    <3> QED BY <2>3, <3>1, MuxMoves
  <2> QED BY <2>1, <2>2, <2>3
<1> QED BY <1>1, MoveInvariance, PTL DEF Spec, PlacesFromTop
=============================================================================
