----------------------------- MODULE MotorProof -----------------------------
(***************************************************************************)
(* Proofs about the motions of Motor.c, for every geometry of the arm,     *)
(* every length of the slow-down and every word size, with MainCtrl's bare *)
(* resets and Bluetooth motions from any height.  CallInv is what each     *)
(* thread knows by itself: the types, that the lift stays between its      *)
(* ends, that a Bluetooth motion owns Action_mux.  AloneInv follows a      *)
(* motion as long as nothing has come between, HeightInv the height of the *)
(* lift.                                                                   *)
(***************************************************************************)
EXTENDS Motor, TLAPS

Way(n) == IF n >= 0 THEN n ELSE 0 - n

(***************************************************************************)
(* The pulses made towards the target, and those more than have been taken *)
(* off "rest"; the pulses one start of the timer makes.                    *)
(***************************************************************************)
Forward(c) == IF c.n >= 0 THEN c.made ELSE 0 - c.made
Ahead(c)   == Forward(c) + c.rest - Way(Asked(c))
Burst(c)   == IF Size(c) = 0 THEN 1 ELSE Size(c)

\* A Bluetooth motion owns Action_mux.
OwnerMoves(t) == Moving(t) /\ t = "UsartRece" => mux = t

\* A motion of the lift goes to a height of the lift.
Sent(t) == Moving(t) /\ call[t].id = Lift => call[t].target \in Lowest..Zero

\* What a part of the motion leaves to do.
Left(t) ==
  LET c == call[t] IN
    /\ c.at = "aim" => c.part # "last"
    /\ c.at \in {"set", "drive", "wait", "ack"} /\ c.part = "last" => c.rest < Rev
    /\ c.at \in {"drive", "wait", "ack"} =>
         /\ c.part = "curve" => c.rest >= 1
         /\ c.part = "rounds" => c.rest >= Rev

\* What holds of each motion by itself, whatever the other thread does.
CallInv ==
  /\ TypeOK /\ InRange
  /\ \A t \in Thread : OwnerMoves(t) /\ Sent(t) /\ Left(t)

\* The pins, the channel and the mode of the handler are those of the motion.
SetUp(t) ==
  LET c == call[t] IN
    c.at \in {"set", "drive", "wait", "ack"} =>
      /\ channel = c.id
      /\ idMotor = IF c.part = "curve" THEN 0 ELSE 1
      /\ dir[c.id] = IF c.n >= 0 THEN 1 ELSE -1

\* The steps set are those of its part.
StepsSet(t) == call[t].at \in {"drive", "wait", "ack"} => stepMax = Size(call[t])

\* Timer and flag: one of the two is up while a thread waits.
FlagInv(t) ==
  /\ call[t].at \in {"aim", "set", "drive", "end"} => AtRest
  /\ call[t].at = "wait" => timer = ~sign /\ (sign => count = 0)
  /\ call[t].at = "ack" => sign /\ ~timer /\ count = 0

\* Every pulse is accounted for.
PulsesInv(t) ==
  LET c == call[t] IN
    /\ c.at \in {"set", "drive"} => Ahead(c) = 0
    /\ c.at = "wait" /\ timer =>
         Ahead(c) = count /\ count < Burst(c) /\ (c.part = "curve" => count = 0)
    /\ (c.at = "wait" /\ sign) \/ c.at = "ack" => Ahead(c) = Burst(c)
    /\ c.at = "end" => c.made - Asked(c) \in -1..1

Followed(t) == SetUp(t) /\ StepsSet(t) /\ FlagInv(t) /\ PulsesInv(t)

\* A motion that has had the drive to itself is the only one, and followed.
AloneInv ==
  \A t \in Thread : Moving(t) /\ call[t].alone =>
    Followed(t) /\ \A u \in Thread \ {t} : ~Moving(u)

\* A motion of the lift goes to HeightNow, unless it is refused or preempted.
Aimed(t) ==
  LET c == call[t] IN
    /\ c.at \in {"set", "drive", "wait", "ack"} => ~Refused(c)
    /\ c.at = "end" /\ Refused(c) => ~known
    /\ Moving(t) /\ c.id = Lift /\ (c.alone \/ known) =>
         c.target = heightNow \/ (c.at = "end" /\ Refused(c))

\* While the lift does not move.
LiftThere ==
  known /\ (\A t \in Thread : Moving(t) => call[t].id = Turn) /\ heightNow \in Lowest..Zero
    => angle[Lift] = heightNow

HeightInv == LiftThere /\ \A t \in Thread : Aimed(t)
-----------------------------------------------------------------------------
\* pulse_num is the same number of pulses up and down, and none for no way.
LEMMA PulsesFacts ==
  /\ \A d \in Int : Pulses(d) \in Int
  /\ Pulses(0) = 0
  /\ \A d \in Nat : d > 0 => Pulses(-d) = -Pulses(d)
<1>1. \A d \in Nat : (Num * d) \div Den \in Int
  BY PulseAssumption
<1>2. Num * 0 = 0 /\ 0 \div Den = 0
  BY PulseAssumption
<1>3. \A d \in Int : Pulses(d) \in Int
  <2>1. SUFFICES ASSUME NEW d \in Int PROVE Pulses(d) \in Int
    OBVIOUS
  <2>2. CASE d >= 0
    BY <2>1, <2>2, <1>1 DEF Pulses
  <2>3. CASE ~(d >= 0)
    <3>1. -d \in Nat
      BY <2>3
    <3>2. (Num * (-d)) \div Den \in Int
      BY <3>1, <1>1
    <3>3. QED BY <3>2, <2>3 DEF Pulses
  <2>4. QED BY <2>2, <2>3
<1>4. Pulses(0) = 0
  BY <1>2 DEF Pulses
<1>5. \A d \in Nat : d > 0 => Pulses(-d) = -Pulses(d)
  <2>1. SUFFICES ASSUME NEW d \in Nat, d > 0 PROVE Pulses(-d) = -Pulses(d)
    OBVIOUS
  <2>2. ~(-d >= 0) /\ -(-d) = d /\ d >= 0
    BY <2>1
  <2>3. QED BY <2>2 DEF Pulses
<1>6. QED BY <1>3, <1>4, <1>5

(***************************************************************************)
(* What MotorSpeedCtrl_S makes of a way down: the unsigned difference      *)
(* wraps if the way is shorter than the slow-down (Motor.c:316).           *)
(***************************************************************************)
LEMMA CurveDown ==
  ASSUME NEW m \in Nat, m < WordSize
  PROVE  CurvePulses(Lift, m) = IF m < SjLength THEN m + WordSize ELSE m
<1>1. SjLength \in Nat /\ WordSize \in Nat \ {0} /\ SjLength <= WordSize
  BY PulseAssumption, WordAssumption
<1>2. \A w \in Nat \ {0}, a \in Int : a \in 0..(w - 1) => a % w = a
  OBVIOUS
<1>3. \A w \in Nat \ {0}, a \in Int : a + w \in 0..(w - 1) => a % w = a + w
  OBVIOUS
<1>4. CurvePulses(Lift, m) = ((m - SjLength) % WordSize) + SjLength
  BY DEF CurvePulses, Lift, Turn
<1> DEFINE a == m - SjLength
<1>5. a \in Int /\ a = m - SjLength
  BY <1>1
<1> HIDE DEF a
<1>6. CASE m < SjLength
  <2>1. a + WordSize \in 0..(WordSize - 1)
    BY <1>1, <1>5, <1>6
  <2>2. a % WordSize = a + WordSize
    BY <1>1, <1>3, <1>5, <2>1
  <2>3. QED BY <1>1, <1>4, <1>5, <1>6, <2>2
<1>7. CASE ~(m < SjLength)
  <2>1. a \in 0..(WordSize - 1)
    BY <1>1, <1>5, <1>7
  <2>2. a % WordSize = a
    BY <1>1, <1>2, <1>5, <2>1
  <2>3. QED BY <1>1, <1>4, <1>5, <1>7, <2>2
<1>8. QED BY <1>6, <1>7

\* The pulses asked for are in the direction of those computed.
LEMMA AskedFacts ==
  ASSUME NEW c \in Call
  PROVE  /\ Asked(c) \in Int
         /\ c.n >= 0 => Way(Asked(c)) = Asked(c)
         /\ ~(c.n >= 0) => Way(Asked(c)) = 0 - Asked(c)
<1>1. c.n \in Int /\ WordSize \in Nat /\ SjLength \in Nat
  BY PulseAssumption DEF Call
<1>2. \/ Asked(c) = 0 /\ c.n >= 0
      \/ Asked(c) = c.n - WordSize /\ c.n < 0
      \/ Asked(c) = c.n
  BY <1>1 DEF Asked, Refused
<1>3. QED BY <1>1, <1>2 DEF Way

\* They stay the same while the motion goes on.
LEMMA AskedSame ==
  ASSUME NEW c, NEW d, d.n = c.n, d.id = c.id, d.part = "curve" <=> c.part = "curve"
  PROVE  Asked(d) = Asked(c) /\ (Refused(d) <=> Refused(c))
<1>1. Refused(d) <=> Refused(c)
  BY DEF Refused
<1>2. QED BY <1>1 DEF Asked

-----------------------------------------------------------------------------
(***************************************************************************)
(* The motions by themselves.                                              *)
(***************************************************************************)
\* The steps set for a part are at most a revolution.
LEMMA SizeFacts ==
  ASSUME NEW c \in Call, c.part = "last" => c.rest < Rev
  PROVE  Size(c) \in 0..Rev /\ Burst(c) \in 1..Rev
<1>1. c.part \in {"curve", "rounds", "last"} /\ c.rest \in Nat /\ Rev \in Nat \ {0}
  BY PulseAssumption DEF Call
<1>2. Size(c) \in 0..Rev
  BY <1>1 DEF Size
<1>3. QED BY <1>1, <1>2 DEF Burst

\* A motion that goes on has enough left to do.
LEMMA OnToFacts ==
  ASSUME NEW c \in Call, c.part = "last" => c.rest < Rev
  PROVE  LET d == OnTo(c) IN
           /\ d \in Call /\ d.at \in {"set", "drive", "end"}
           /\ d.id = c.id /\ d.target = c.target /\ d.n = c.n /\ d.made = c.made /\ d.rest = c.rest
           /\ d.alone = c.alone
           /\ d.part = "curve" <=> c.part = "curve"
           /\ d.part = "last" => d.rest < Rev
           /\ d.at = "set" => d.part = "last"
           /\ d.at = "drive" => /\ d.part = c.part
                                /\ d.part = "curve" => d.rest >= 1
                                /\ d.part = "rounds" => d.rest >= Rev
           /\ d.at = "end" => d.rest = 0
<1> DEFINE d == OnTo(c)
<1>1. c.part \in {"curve", "rounds", "last"} /\ c.rest \in Nat
  BY DEF Call
<1>2. CASE c.part = "curve"
  <2>0. PICK a \in {"end", "drive"} : a = IF c.rest = 0 THEN "end" ELSE "drive"
    OBVIOUS
  <2>1. d = [c EXCEPT !.at = a]
    BY <1>2, <2>0 DEF OnTo
  <2> HIDE DEF d
  <2>2. d \in Call /\ d.at = a /\ d.part = c.part
        /\ d.id = c.id /\ d.target = c.target /\ d.n = c.n /\ d.made = c.made /\ d.rest = c.rest
        /\ d.alone = c.alone
    BY <2>1 DEF Call
  <2>3. QED BY <1>1, <1>2, <2>0, <2>2 DEF d
<1>3. CASE c.part = "rounds" /\ ~(c.rest >= Rev)
  <2>1. d = [c EXCEPT !.at = "set", !.part = "last"]
    BY <1>3 DEF OnTo
  <2>2. d \in Call /\ d.at = "set" /\ d.part = "last"
        /\ d.id = c.id /\ d.target = c.target /\ d.n = c.n /\ d.made = c.made /\ d.rest = c.rest
        /\ d.alone = c.alone
    BY <2>1 DEF Call
  <2> HIDE DEF d
  <2>3. d.rest < Rev
    BY <1>1, <1>3, <2>2, PulseAssumption
  <2>4. QED BY <1>3, <2>2, <2>3 DEF d
<1>4. CASE c.part = "last" \/ (c.part = "rounds" /\ c.rest >= Rev)
  <2>1. d = [c EXCEPT !.at = "drive"]
    BY <1>4 DEF OnTo
  <2>2. d \in Call /\ d.at = "drive" /\ d.part = c.part
        /\ d.id = c.id /\ d.target = c.target /\ d.n = c.n /\ d.made = c.made /\ d.rest = c.rest
        /\ d.alone = c.alone
    BY <2>1 DEF Call
  <2> HIDE DEF d
  <2>3. QED BY <1>4, <2>2 DEF d
<1>5. QED BY <1>1, <1>2, <1>3, <1>4

(***************************************************************************)
(* Between two starts of the timer no pulse is missing; a motion that ends *)
(* has made all its pulses.                                                *)
(***************************************************************************)
LEMMA OnToPulses ==
  ASSUME NEW c \in Call, NEW d \in Call, Ahead(c) = 0,
         d.n = c.n, d.made = c.made, d.rest = c.rest,
         d.id = c.id, d.part = "curve" <=> c.part = "curve"
  PROVE  Ahead(d) = 0 /\ (d.rest = 0 => d.made = Asked(d))
<1>1. c.rest \in Nat /\ c.n \in Int /\ c.made \in Int
  BY DEF Call
<1>2. Asked(d) = Asked(c)
  BY AskedSame
<1>3. Ahead(d) = 0
  BY <1>2 DEF Ahead, Forward
<1>4. ASSUME c.rest = 0 PROVE c.made = Asked(c)
  <2>1. Forward(c) + c.rest - Way(Asked(c)) = 0
    BY DEF Ahead
  <2>2. Asked(c) \in Int
    BY AskedFacts
  <2>3. CASE c.n >= 0
    <3>1. Way(Asked(c)) = Asked(c)
      BY <2>3, AskedFacts
    <3>2. QED BY <1>1, <1>4, <2>1, <2>2, <2>3, <3>1 DEF Forward
  <2>4. CASE ~(c.n >= 0)
    <3>1. Way(Asked(c)) = 0 - Asked(c)
      BY <2>4, AskedFacts
    <3>2. QED BY <1>1, <1>4, <2>1, <2>2, <2>4, <3>1 DEF Forward
  <2>5. QED BY <2>3, <2>4
<1>5. QED BY <1>2, <1>3, <1>4

\* A call that only moves on to its next label.
LEMMA SameCall ==
  ASSUME NEW c \in Call, NEW a \in {"wait", "ack", "end"}
  PROVE  LET d == [c EXCEPT !.at = a] IN
           /\ d \in Call /\ d.at = a /\ d.id = c.id /\ d.part = c.part /\ d.target = c.target
           /\ d.n = c.n /\ d.made = c.made /\ d.rest = c.rest /\ d.alone = c.alone
           /\ Ahead(d) = Ahead(c) /\ Size(d) = Size(c) /\ Burst(d) = Burst(c)
<1> DEFINE d == [c EXCEPT !.at = a]
<1>1. /\ d \in Call /\ d.at = a /\ d.id = c.id /\ d.part = c.part /\ d.target = c.target
      /\ d.n = c.n /\ d.made = c.made /\ d.rest = c.rest /\ d.alone = c.alone
  BY DEF Call
<1> HIDE DEF d
<1>2. Size(d) = Size(c)
  BY <1>1 DEF Size
<1>3. Asked(d) = Asked(c)
  BY <1>1, AskedSame
<1>4. Ahead(d) = Ahead(c) /\ Burst(d) = Burst(c)
  BY <1>1, <1>2, <1>3 DEF Ahead, Forward, Burst
<1>5. QED BY <1>1, <1>2, <1>4 DEF d

\* The heights the lift is sent to; at the top it really is.
LEMMA NewHeights ==
  ASSUME TypeOK, NEW pos \in Lifting
  PROVE  /\ NewHeight(pos) \in (Lowest - Slack)..(Zero + Slack)
         /\ pos \in Curved => NewHeight(pos) = HeightOf[pos] /\ HeightOf[pos] \in Lowest..Zero
<1>1. heightNow \in Int /\ heightNow >= Lowest - Slack /\ heightNow <= Zero + Slack
  BY HeightAssumption DEF TypeOK
<1>2. CASE pos = "Rise"
  BY <1>1, <1>2, HeightAssumption DEF NewHeight, Curved
<1>3. CASE pos = "Fall"
  BY <1>1, <1>3, HeightAssumption DEF NewHeight, Curved
<1>4. CASE pos \notin {"Rise", "Fall"}
  <2>1. HeightOf[pos] \in Lowest..Zero
    BY <1>4, HeightAssumption DEF Lifting
  <2>2. NewHeight(pos) = HeightOf[pos]
    BY <1>4 DEF NewHeight
  <2>3. QED BY <2>1, <2>2, HeightAssumption
<1>5. QED BY <1>2, <1>3, <1>4

\* The record the two functions begin with.
LEMMA NoCallFields ==
  /\ NoCall \in Call /\ NoCall.at = "idle" /\ NoCall.id = Lift /\ NoCall.part = "curve"
BY DEF NoCall, Call

\* What they make of it.
LEMMA LiftCallFacts ==
  ASSUME TypeOK, NEW pos \in Lifting, pos \in Curved \/ Inside(NewHeight(pos))
  PROVE  LET c == LiftCall(pos) IN
           /\ c \in Call /\ c.at = "aim" /\ c.id = Lift
           /\ c.target = NewHeight(pos) /\ NewHeight(pos) \in Lowest..Zero
           /\ c.part \in {"curve", "rounds"}
<1> DEFINE h == NewHeight(pos)
<1>1. h \in Lowest..Zero
  BY NewHeights, HeightAssumption DEF Inside
<1>2. h \in Int
  BY <1>1, HeightAssumption
<1>3. PICK p \in {"curve", "rounds"} : p = IF pos \in Curved THEN "curve" ELSE "rounds"
  OBVIOUS
<1>4. LiftCall(pos) = [NoCall EXCEPT !.at = "aim", !.target = h, !.part = p]
  BY <1>3 DEF LiftCall
<1> HIDE DEF h
<1> DEFINE c == [NoCall EXCEPT !.at = "aim", !.target = h, !.part = p]
<1>5. c \in Call /\ c.at = "aim" /\ c.id = Lift /\ c.target = h /\ c.part = p
  BY <1>2, <1>3, NoCallFields DEF Call
<1> HIDE DEF c
<1>6. QED BY <1>1, <1>4, <1>5 DEF c, h

\* A turn of the arm begins with a well-formed call.
LEMMA TurnCallFacts ==
  ASSUME NEW pos
  PROVE  LET c == TurnCall(pos) IN
           c \in Call /\ c.at = "aim" /\ c.id = Turn /\ c.part = "curve"
<1> DEFINE h == IF pos = "Vision" THEN -VisionPulses ELSE 0
           c == [NoCall EXCEPT !.at = "aim", !.id = Turn, !.target = h]
<1>1. h \in Int
  BY PulseAssumption
<1>2. TurnCall(pos) = c
  BY DEF TurnCall
<1> HIDE DEF h
<1>3. c \in Call /\ c.at = "aim" /\ c.id = Turn /\ c.part = "curve"
  BY <1>1, NoCallFields DEF Call
<1>4. QED BY <1>2, <1>3

(***************************************************************************)
(* A motion begins: it knows whether it has the drive to itself, and one   *)
(* that it preempts has it no more.                                        *)
(***************************************************************************)
LEMMA BegunFacts ==
  ASSUME TypeOK, NEW t \in Thread, NEW c \in Call, c.at = "aim", call[t].at = "idle", Begun(t, c)
  PROVE  /\ call' \in [Thread -> Call]
         /\ call'[t].at = "aim" /\ call'[t].id = c.id /\ call'[t].part = c.part
         /\ call'[t].target = c.target /\ call'[t].alone = Apart(t)
         /\ \A u \in Thread \ {t} :
              /\ call'[u].at = call[u].at /\ call'[u].id = call[u].id
              /\ call'[u].part = call[u].part /\ call'[u].target = call[u].target
              /\ call'[u].n = call[u].n /\ call'[u].rest = call[u].rest
              /\ Moving(u) => call'[u].alone = FALSE
              /\ ~Moving(u) => call'[u] = call[u]
<1>1. Apart(t) \in BOOLEAN
  BY DEF Apart, AtRest
<1>2. call'[t] = [c EXCEPT !.alone = Apart(t)]
  BY DEF Begun
<1> DEFINE b == Apart(t)
<1> HIDE DEF b
<1>3. /\ call'[t] \in Call /\ call'[t].at = "aim" /\ call'[t].id = c.id /\ call'[t].part = c.part
      /\ call'[t].target = c.target /\ call'[t].alone = b
  <2>1. b \in BOOLEAN /\ call'[t] = [c EXCEPT !.alone = b]
    BY <1>1, <1>2 DEF b
  <2>2. QED BY <2>1 DEF Call
<1>4. ASSUME NEW u \in Thread \ {t}
      PROVE  /\ call'[u] \in Call
             /\ call'[u].at = call[u].at /\ call'[u].id = call[u].id
             /\ call'[u].part = call[u].part /\ call'[u].target = call[u].target
             /\ call'[u].n = call[u].n /\ call'[u].rest = call[u].rest
             /\ Moving(u) => call'[u].alone = FALSE
             /\ ~Moving(u) => call'[u] = call[u]
  <2>1. call[u] \in Call
    BY DEF TypeOK
  <2>2. CASE Moving(u)
    <3>1. call'[u] = [call[u] EXCEPT !.alone = FALSE, !.made = 0]
      BY <2>2 DEF Begun
    <3>2. QED BY <2>1, <2>2, <3>1, 0 \in Int DEF Call
  <2>3. CASE ~Moving(u)
    <3>1. call'[u] = call[u]
      BY <2>3 DEF Begun
    <3>2. QED BY <2>1, <2>3, <3>1
  <2>4. QED BY <2>2, <2>3
<1>5. call' \in [Thread -> Call]
  <2>1. call' = [u \in Thread |-> call'[u]]
    BY DEF Begun
  <2>2. \A u \in Thread : call'[u] \in Call
    BY <1>3, <1>4
  <2>3. QED BY <2>1, <2>2
<1>6. QED BY <1>3, <1>4, <1>5 DEF b

-----------------------------------------------------------------------------
(***************************************************************************)
(* What holds of each motion by itself.                                    *)
(***************************************************************************)
LEMMA CallInit == Init => CallInv
<1>1. SUFFICES ASSUME Init PROVE CallInv
  OBVIOUS
<1>2. call = [t \in Thread |-> NoCall] /\ NoCall \in Call /\ NoCall.at = "idle"
  BY <1>1, NoCallFields DEF Init
<1>3. TypeOK
  <2>1. heightNow \in (Lowest - Slack)..(Zero + Slack) /\ angle \in [{Lift, Turn} -> Int]
    BY <1>1, HeightAssumption DEF Init
  <2>2. stepMax \in 0..Rev /\ count \in 0..(Rev - 1)
    BY <1>1, PulseAssumption DEF Init
  <2>3. dir \in [{Lift, Turn} -> {-1, 1}]
    BY <1>1 DEF Init
  <2>4. QED BY <1>1, <1>2, <2>1, <2>2, <2>3 DEF Init, TypeOK
<1>4. InRange
  BY <1>1, HeightAssumption DEF Init, InRange
<1>5. QED BY <1>2, <1>3, <1>4 DEF CallInv, OwnerMoves, Sent, Left, Moving

\* After a watchdog reset all is as in the beginning.
LEMMA ResetIsInit == WatchdogReset => Init'
BY DEF WatchdogReset, Init

\* In a step of one thread only its own motion has to be looked at.
LEMMA CallSteps ==
  ASSUME CallInv, NEW t \in Thread, mux' = mux,
         call' = [call EXCEPT ![t] = call'[t]],
         TypeOK', InRange', OwnerMoves(t)', Sent(t)', Left(t)'
  PROVE  CallInv'
<1>1. \A u \in Thread \ {t} : call'[u] = call[u]
  BY DEF CallInv, TypeOK
<1>2. \A u \in Thread \ {t} : OwnerMoves(u)' /\ Sent(u)' /\ Left(u)'
  BY <1>1 DEF CallInv, OwnerMoves, Sent, Left, Moving
<1>3. QED BY <1>2 DEF CallInv

\* A motion that goes on is that of the same motor, to the same height.
LEMMA CallGoesOn ==
  ASSUME CallInv, NEW t \in Thread, Moving(t), UNCHANGED <<angle, mux>>,
         call' = [call EXCEPT ![t] = call'[t]],
         call'[t].at \notin {"idle", "mutex"},
         call'[t].id = call[t].id, call'[t].target = call[t].target,
         TypeOK', Left(t)'
  PROVE  CallInv'
<1>1. InRange' /\ OwnerMoves(t)' /\ Sent(t)'
  BY DEF CallInv, InRange, OwnerMoves, Sent, Moving
<1>2. QED BY <1>1, CallSteps

\* Taking and releasing Action_mux is between two motions.
LEMMA MutexCalls ==
  ASSUME TypeOK, NEW t \in Thread, Take(t) \/ Release(t)
  PROVE  \A u \in Thread : \/ call'[u] = call[u]
                           \/ /\ call[u].at \in {"idle", "mutex"}
                              /\ call'[u].at \in {"idle", "mutex"}
                              /\ call'[u] \in Call
BY DEF TypeOK, Call, Take, Release, At

\* Action_mux: a Bluetooth motion begins after Take and is over before Release.
LEMMA CallMutex ==
  ASSUME CallInv, NEW t \in Thread, Take(t) \/ Release(t)
  PROVE  CallInv'
<1>1. UNCHANGED <<heightNow, angle, tim8, known>>
  BY DEF Take, Release
<1>2. \A u \in Thread : \/ call'[u] = call[u]
                        \/ /\ call[u].at \in {"idle", "mutex"} /\ call'[u].at \in {"idle", "mutex"}
                           /\ call'[u] \in Call
  BY MutexCalls DEF CallInv
<1>3. TypeOK'
  <2>1. call' \in [Thread -> Call]
    BY <1>2 DEF CallInv, TypeOK, Take, Release
  <2>2. mux' \in Thread \cup {NULL}
    BY DEF CallInv, TypeOK, Take, Release
  <2>3. QED BY <1>1, <2>1, <2>2 DEF CallInv, TypeOK, tim8
<1>4. \A u \in Thread : OwnerMoves(u)'
  BY <1>2 DEF CallInv, OwnerMoves, Moving, Take, Release, At, Thread, NULL
<1>5. \A u \in Thread : Sent(u)' /\ Left(u)'
  BY <1>2 DEF CallInv, Sent, Left, Moving
<1>6. InRange'
  BY <1>1 DEF CallInv, InRange
<1>7. QED BY <1>3, <1>4, <1>5, <1>6 DEF CallInv

(***************************************************************************)
(* A motion of the lift begins: the call made for it, if it is driven to.  *)
(***************************************************************************)
LEMMA LiftBegins ==
  ASSUME TypeOK, NEW t \in Thread, NEW pos \in Lifting, MotorMotion_Lift(t, pos)
  PROVE  /\ call[t].at = "idle" /\ Runs(t) /\ Allowed(t, pos = "Reset_L")
         /\ UNCHANGED <<angle, tim8, mux>>
         /\ heightNow' = NewHeight(pos) /\ heightNow' \in (Lowest - Slack)..(Zero + Slack)
         /\ \/ /\ LiftCall(pos) \in Call /\ LiftCall(pos).at = "aim" /\ LiftCall(pos).id = Lift
               /\ LiftCall(pos).target = heightNow' /\ heightNow' \in Lowest..Zero
               /\ LiftCall(pos).part \in {"curve", "rounds"}
               /\ Begun(t, LiftCall(pos))
               /\ known' = (known /\ \A u \in Thread : Moving(u) => call[u].id = Turn)
            \/ /\ ~Inside(NewHeight(pos)) /\ UNCHANGED <<call, known>>
<1>1. /\ call[t].at = "idle" /\ Runs(t) /\ Allowed(t, pos = "Reset_L")
      /\ UNCHANGED <<angle, tim8, mux>> /\ heightNow' = NewHeight(pos)
  BY DEF MotorMotion_Lift, At
<1>2. heightNow' \in (Lowest - Slack)..(Zero + Slack)
  BY <1>1, NewHeights
<1>3. CASE pos \in Curved \/ Inside(NewHeight(pos))
  <2>1. /\ Begun(t, LiftCall(pos))
        /\ known' = (known /\ \A u \in Thread : Moving(u) => call[u].id = Turn)
    BY <1>3 DEF MotorMotion_Lift
  <2>2. QED BY <1>1, <1>2, <1>3, <2>1, LiftCallFacts
<1>4. CASE ~(pos \in Curved \/ Inside(NewHeight(pos)))
  BY <1>1, <1>2, <1>4 DEF MotorMotion_Lift
<1>5. QED BY <1>3, <1>4

\* Whoever begins a motion may; what it preempts goes on where it was.
LEMMA CallBegun ==
  ASSUME CallInv, NEW t \in Thread, NEW c \in Call, NEW r \in BOOLEAN,
         c.at = "aim", call[t].at = "idle", Begun(t, c), Allowed(t, r), c.part # "last",
         c.id = Lift => c.target \in Lowest..Zero,
         heightNow' \in (Lowest - Slack)..(Zero + Slack), known' \in BOOLEAN,
         UNCHANGED <<angle, tim8, mux>>
  PROVE  CallInv'
<1>1. TypeOK
  BY DEF CallInv
<1>2. /\ call' \in [Thread -> Call]
      /\ call'[t].at = "aim" /\ call'[t].id = c.id /\ call'[t].part = c.part
      /\ call'[t].target = c.target
      /\ \A u \in Thread \ {t} :
           /\ call'[u].at = call[u].at /\ call'[u].id = call[u].id
           /\ call'[u].part = call[u].part /\ call'[u].target = call[u].target
           /\ call'[u].rest = call[u].rest
  BY <1>1, BegunFacts
<1>3. TypeOK'
  BY <1>1, <1>2 DEF TypeOK, tim8
<1>4. OwnerMoves(t)' /\ Sent(t)' /\ Left(t)'
  BY <1>2 DEF OwnerMoves, Allowed, Sent, Left
<1>5. \A u \in Thread \ {t} : OwnerMoves(u)' /\ Sent(u)' /\ Left(u)'
  BY <1>2 DEF CallInv, OwnerMoves, Sent, Left, Moving
<1>6. InRange'
  BY DEF CallInv, InRange
<1>7. QED BY <1>3, <1>4, <1>5, <1>6 DEF CallInv

\* A motion begins.
LEMMA CallBegin ==
  ASSUME CallInv, NEW t \in Thread, Begin(t)
  PROVE  CallInv'
<1>0. TypeOK
  BY DEF CallInv
<1>1. CASE \E pos \in Lifting : MotorMotion_Lift(t, pos)
  <2>1. PICK pos \in Lifting : MotorMotion_Lift(t, pos)
    BY <1>1
  <2>2. /\ call[t].at = "idle" /\ Allowed(t, pos = "Reset_L") /\ UNCHANGED <<angle, tim8, mux>>
        /\ heightNow' \in (Lowest - Slack)..(Zero + Slack)
    BY <1>0, <2>1, LiftBegins
  <2>3. CASE /\ LiftCall(pos) \in Call /\ LiftCall(pos).at = "aim"
             /\ LiftCall(pos).target = heightNow' /\ heightNow' \in Lowest..Zero
             /\ LiftCall(pos).part \in {"curve", "rounds"}
             /\ Begun(t, LiftCall(pos))
             /\ known' = (known /\ \A u \in Thread : Moving(u) => call[u].id = Turn)
    <3>1. known' \in BOOLEAN
      BY <2>3
    <3> DEFINE r == pos = "Reset_L"
    <3>2. r \in BOOLEAN /\ Allowed(t, r)
      BY <2>2
    <3> HIDE DEF r
    <3>3. QED BY <2>2, <2>3, <3>1, <3>2, CallBegun
  <2>4. CASE UNCHANGED <<call, known>>
    <3>1. TypeOK'
      BY <1>0, <2>2, <2>4 DEF TypeOK, tim8
    <3>2. QED
      BY <2>2, <2>4, <3>1 DEF CallInv, InRange, OwnerMoves, Sent, Left, Moving
  <2>5. QED BY <1>0, <2>1, <2>3, <2>4, LiftBegins
<1>2. CASE \E pos \in {"Reset_R", "Vision"} : MotorMotion_Rotate(t, pos)
  <2>1. PICK pos \in {"Reset_R", "Vision"} : MotorMotion_Rotate(t, pos)
    BY <1>2
  <2>2. /\ call[t].at = "idle" /\ Allowed(t, pos = "Reset_R") /\ Begun(t, TurnCall(pos))
        /\ UNCHANGED <<heightNow, angle, tim8, mux, known>>
    BY <2>1 DEF MotorMotion_Rotate, At
  <2>3. /\ TurnCall(pos) \in Call /\ TurnCall(pos).at = "aim" /\ TurnCall(pos).id = Turn
        /\ TurnCall(pos).part = "curve"
    BY TurnCallFacts
  <2>4. Turn # Lift /\ heightNow' \in (Lowest - Slack)..(Zero + Slack) /\ known' \in BOOLEAN
    BY <1>0, <2>2 DEF Turn, Lift, TypeOK
  <2> DEFINE r == pos = "Reset_R"
  <2>5. r \in BOOLEAN /\ Allowed(t, r)
    BY <2>2
  <2> HIDE DEF r
  <2>6. QED BY <2>2, <2>3, <2>4, <2>5, CallBegun
<1>3. QED BY <1>1, <1>2 DEF Begin

\* The slow-down is a number of pulses, if not the one meant.
LEMMA CurveIsNat ==
  ASSUME NEW id \in {Lift, Turn}, NEW n \in Nat
  PROVE  CurvePulses(id, n) \in Nat
<1>1. SjLength \in Nat /\ WordSize \in Nat \ {0} /\ n - SjLength \in Int
  BY PulseAssumption
<1>2. \A a \in Int, w \in Nat \ {0} : a % w \in 0..(w - 1)
  OBVIOUS
<1>3. (n - SjLength) % WordSize \in Nat
  BY <1>1, <1>2
<1>4. QED BY <1>1, <1>3 DEF CurvePulses

\* Where a motion begins; a motion upwards along the curve is refused.
LEMMA CallAim ==
  ASSUME CallInv, NEW t \in Thread, Aim(t)
  PROVE  CallInv'
<1> DEFINE c == call[t]
           n == IF c.id = Lift THEN Pulses(c.target - angle[Lift]) ELSE c.target - angle[Turn]
           size == IF n >= 0 THEN n ELSE -n
           refused == c.part = "curve" /\ c.id = Lift /\ n >= 0
           rest == IF refused THEN 0 ELSE IF c.part = "curve" THEN CurvePulses(c.id, size) ELSE size
           target == IF refused THEN angle[Lift] ELSE c.target
           at == IF refused THEN "end" ELSE "set"
           d == [c EXCEPT !.at = at, !.n = n, !.made = 0, !.target = target, !.rest = rest]
<1>1. c.at = "aim" /\ Moving(t) /\ UNCHANGED <<heightNow, angle, stepMax, sign, timer, count, mux>>
  BY DEF Aim, At, Moving
<1>2. /\ TypeOK /\ InRange /\ c \in Call /\ OwnerMoves(t) /\ Sent(t) /\ c.part # "last"
  BY <1>1 DEF CallInv, TypeOK, Left
<1>3. angle[Lift] \in Lowest..Zero /\ angle[Lift] \in Int /\ angle[Turn] \in Int /\ c.target \in Int
      /\ c.id \in {Lift, Turn}
  BY <1>2 DEF TypeOK, InRange, Call
<1>4. n \in Int
  BY <1>3, PulsesFacts
<1>5. /\ idMotor' = IF c.part = "curve" THEN 0 ELSE 1
      /\ dir' = [dir EXCEPT ![c.id] = IF n >= 0 THEN 1 ELSE -1]
      /\ channel' = IF refused THEN channel ELSE c.id
      /\ call' = [call EXCEPT ![t] = d] /\ known' = (known /\ ~refused)
  BY DEF Aim
<1> HIDE DEF n
<1>6. size \in Nat
  BY <1>4
<1> HIDE DEF size
<1>7. rest \in Nat /\ target \in Int /\ at \in {"end", "set"}
  BY <1>3, <1>6, CurveIsNat
<1>8. c.id = Lift => target \in Lowest..Zero
  BY <1>1, <1>2, <1>3 DEF Sent
<1> HIDE DEF rest, target, at
<1>9. /\ d \in Call /\ d.at = at /\ d.target = target /\ d.id = c.id /\ d.part = c.part
  BY <1>2, <1>4, <1>7, 0 \in Int DEF Call
<1> HIDE DEF d
<1>10. call'[t] = d /\ call' = [call EXCEPT ![t] = call'[t]]
  BY <1>2, <1>5 DEF TypeOK
<1>11. TypeOK'
  <2>1. dir' \in [{Lift, Turn} -> {-1, 1}] /\ channel' \in {0, Lift, Turn} /\ idMotor' \in {0, 1}
    BY <1>2, <1>3, <1>5 DEF TypeOK
  <2>2. call' \in [Thread -> Call]
    BY <1>2, <1>5, <1>9 DEF TypeOK
  <2>3. known' \in BOOLEAN
    BY <1>2, <1>5 DEF TypeOK
  <2>4. QED BY <1>1, <1>2, <2>1, <2>2, <2>3 DEF TypeOK
<1>12. InRange' /\ OwnerMoves(t)'
  BY <1>1, <1>2 DEF InRange, OwnerMoves
<1>13. Sent(t)' /\ Left(t)'
  BY <1>2, <1>7, <1>8, <1>9, <1>10 DEF Sent, Left
<1>14. QED BY <1>1, <1>10, <1>11, <1>12, <1>13, CallSteps

\* The number of pulses is set.
LEMMA CallSetSteps ==
  ASSUME CallInv, NEW t \in Thread, SetSteps(t)
  PROVE  CallInv'
<1> DEFINE c == call[t]
           d == OnTo(c)
<1>1. /\ c.at = "set" /\ Moving(t) /\ stepMax' = Size(c)
      /\ UNCHANGED <<heightNow, angle, dir, channel, idMotor, sign, timer, count, mux, known>>
  BY DEF SetSteps, At, Moving
<1>2. TypeOK /\ c \in Call /\ (c.part = "last" => c.rest < Rev)
  BY <1>1 DEF CallInv, TypeOK, Left
<1>3. call' = [call EXCEPT ![t] = d] /\ call'[t] = d
  BY <1>2 DEF SetSteps, TypeOK
<1>4. /\ d \in Call /\ d.at \in {"set", "drive", "end"}
      /\ d.id = c.id /\ d.target = c.target
      /\ d.part = "last" => d.rest < Rev
      /\ d.at = "drive" => /\ d.part = "curve" => d.rest >= 1
                           /\ d.part = "rounds" => d.rest >= Rev
  BY <1>2, OnToFacts
<1>5. Size(c) \in 0..Rev
  BY <1>2, SizeFacts
<1> HIDE DEF d
<1>6. TypeOK'
  BY <1>1, <1>2, <1>3, <1>4, <1>5 DEF TypeOK
<1>7. Left(t)'
  BY <1>3, <1>4 DEF Left
<1>8. QED BY <1>1, <1>3, <1>4, <1>6, <1>7, CallGoesOn

\* TIM8 is started, and the flag it raises is seen.
LEMMA CallDriveWait ==
  ASSUME CallInv, NEW t \in Thread, Drive(t) \/ Wait(t)
  PROVE  CallInv'
<1> DEFINE c == call[t]
<1>1. PICK a \in {"wait", "ack"} :
        /\ c.at \in {"drive", "wait"} /\ Moving(t) /\ timer' \in BOOLEAN
        /\ UNCHANGED <<heightNow, angle, dir, channel, idMotor, stepMax, sign, count, mux, known>>
        /\ call' = [call EXCEPT ![t].at = a]
  <2>1. CASE Drive(t)
    BY <2>1 DEF Drive, At, Moving
  <2>2. CASE Wait(t)
    <3>1. timer' \in BOOLEAN
      BY <2>2 DEF Wait, tim8, CallInv, TypeOK
    <3>2. QED BY <2>2, <3>1 DEF Wait, At, Moving, tim8
  <2>3. QED BY <2>1, <2>2
<1> DEFINE d == [c EXCEPT !.at = a]
<1>2. TypeOK /\ c \in Call /\ Left(t)
  BY DEF CallInv, TypeOK
<1>3. call' = [call EXCEPT ![t] = d] /\ call'[t] = d
  BY <1>1, <1>2 DEF TypeOK
<1>4. /\ d \in Call /\ d.at = a /\ d.id = c.id /\ d.part = c.part /\ d.target = c.target
      /\ d.rest = c.rest
  <2>1. a \in {"wait", "ack", "end"}
    OBVIOUS
  <2>2. QED BY <1>2, <2>1, SameCall
<1> HIDE DEF d
<1>5. TypeOK'
  BY <1>1, <1>2, <1>3, <1>4 DEF TypeOK
<1>6. Left(t)'
  BY <1>1, <1>2, <1>3, <1>4 DEF Left
<1>7. QED BY <1>1, <1>3, <1>4, <1>5, <1>6, CallGoesOn

(***************************************************************************)
(* A motion after one start of the timer: its last part is over, another   *)
(* part has the burst taken off and goes on.                               *)
(***************************************************************************)
LEMMA DrivenFacts ==
  ASSUME NEW c \in Call, c.at = "ack", c.part = "last" => c.rest < Rev,
         c.part = "curve" => c.rest >= 1, c.part = "rounds" => c.rest >= Rev
  PROVE  LET d == Driven(c) IN
           /\ d \in Call /\ d.at \in {"set", "drive", "end"}
           /\ d.id = c.id /\ d.target = c.target /\ d.n = c.n /\ d.made = c.made
           /\ d.alone = c.alone /\ (d.part = "curve" <=> c.part = "curve")
           /\ c.part = "last" => d.at = "end"
           /\ c.part # "last" => /\ Burst(c) = Size(c) /\ d.rest = c.rest - Size(c)
                                 /\ d.at = "end" => d.rest = 0
           /\ d.part = "last" => d.rest < Rev
           /\ d.at = "set" => d.part = "last"
           /\ d.at = "drive" => /\ d.part = c.part /\ Size(d) = Size(c)
                                /\ d.part = "curve" => d.rest >= 1
                                /\ d.part = "rounds" => d.rest >= Rev
<1>1. /\ c.part \in {"curve", "rounds", "last"} /\ c.rest \in Nat /\ Rev \in Nat \ {0}
  BY PulseAssumption DEF Call
<1>2. CASE c.part = "last"
  <2> DEFINE d == [c EXCEPT !.at = "end", !.rest = 0]
  <2>1. Driven(c) = d
    BY <1>2 DEF Driven
  <2>2. /\ d \in Call /\ d.at = "end" /\ d.id = c.id /\ d.target = c.target /\ d.n = c.n
        /\ d.made = c.made /\ d.rest = 0 /\ d.alone = c.alone /\ d.part = c.part
    BY 0 \in Nat DEF Call
  <2> HIDE DEF d
  <2>3. QED BY <1>1, <1>2, <2>1, <2>2
<1>3. CASE c.part # "last"
  <2> DEFINE e == [c EXCEPT !.rest = c.rest - Size(c)]
             d == OnTo(e)
  <2>1. Driven(c) = d
    BY <1>3 DEF Driven
  <2>2. Size(c) \in 1..Rev /\ Burst(c) = Size(c) /\ c.rest - Size(c) \in Nat
    BY <1>1, <1>3 DEF Size, Burst
  <2>3. /\ e \in Call /\ e.id = c.id /\ e.part = c.part /\ e.target = c.target
        /\ e.n = c.n /\ e.made = c.made /\ e.rest = c.rest - Size(c) /\ e.alone = c.alone
    BY <2>2 DEF Call
  <2> HIDE DEF e
  <2>4. /\ d \in Call /\ d.at \in {"set", "drive", "end"}
        /\ d.id = e.id /\ d.target = e.target /\ d.n = e.n /\ d.made = e.made /\ d.rest = e.rest
        /\ d.alone = e.alone /\ (d.part = "curve" <=> e.part = "curve")
        /\ d.part = "last" => d.rest < Rev
        /\ d.at = "set" => d.part = "last"
        /\ d.at = "drive" => /\ d.part = e.part
                             /\ d.part = "curve" => d.rest >= 1
                             /\ d.part = "rounds" => d.rest >= Rev
        /\ d.at = "end" => d.rest = 0
    BY <1>3, <2>3, OnToFacts
  <2> HIDE DEF d
  <2>5. d.at = "drive" => Size(d) = Size(c)
    <3>1. d.at = "drive" => d.part = c.part
      BY <2>3, <2>4
    <3>2. QED BY <1>1, <1>3, <3>1 DEF Size
  <2>6. QED BY <1>3, <2>1, <2>2, <2>3, <2>4, <2>5
<1>4. QED BY <1>2, <1>3

\* The flag is set back.
LEMMA CallAck ==
  ASSUME CallInv, NEW t \in Thread, Ack(t)
  PROVE  CallInv'
<1> DEFINE c == call[t]
           d == Driven(c)
<1>1. /\ c.at = "ack" /\ Moving(t) /\ sign' = FALSE
      /\ UNCHANGED <<heightNow, angle, dir, channel, idMotor, stepMax, timer, count, mux, known>>
  BY DEF Ack, At, Moving
<1>2. /\ TypeOK /\ c \in Call
      /\ c.part = "last" => c.rest < Rev
      /\ c.part = "curve" => c.rest >= 1
      /\ c.part = "rounds" => c.rest >= Rev
  BY <1>1 DEF CallInv, TypeOK, Left
<1>3. call' = [call EXCEPT ![t] = d] /\ call'[t] = d
  BY <1>2 DEF Ack, TypeOK
<1>4. /\ d \in Call /\ d.at \in {"set", "drive", "end"}
      /\ d.id = c.id /\ d.target = c.target
      /\ d.part = "last" => d.rest < Rev
      /\ d.at = "drive" => /\ d.part = "curve" => d.rest >= 1
                           /\ d.part = "rounds" => d.rest >= Rev
  BY <1>1, <1>2, DrivenFacts
<1> HIDE DEF d
<1>5. TypeOK'
  BY <1>1, <1>2, <1>3, <1>4 DEF TypeOK
<1>6. Left(t)'
  BY <1>3, <1>4 DEF Left
<1>7. QED BY <1>1, <1>3, <1>4, <1>5, <1>6, CallGoesOn

\* The motion is over: the lift is at a height of the lift.
LEMMA CallEnd ==
  ASSUME CallInv, NEW t \in Thread, End(t)
  PROVE  CallInv'
<1> DEFINE c == call[t]
<1>1. /\ c.at = "end" /\ Moving(t) /\ UNCHANGED <<heightNow, tim8, mux>>
      /\ angle' = [angle EXCEPT ![c.id] = c.target]
  BY DEF End, At, Moving
<1>2. TypeOK /\ InRange /\ c \in Call /\ Sent(t)
  BY DEF CallInv, TypeOK
<1>3. call' = [call EXCEPT ![t] = call'[t]] /\ call'[t] \in Call /\ call'[t].at = "idle"
  <2>1. call' = [call EXCEPT ![t] = NoCall] /\ call'[t] = NoCall
    BY <1>2 DEF End, TypeOK
  <2>2. NoCall.at = "idle"
    BY DEF NoCall
  <2>3. QED BY <2>1, <2>2, NoCallFields
<1>4. TypeOK'
  <2>1. known' \in BOOLEAN
    BY <1>2 DEF End, TypeOK
  <2>2. QED BY <1>1, <1>2, <1>3, <2>1 DEF TypeOK, Call, tim8
<1>5. InRange'
  <2>1. CASE c.id = Lift
    BY <1>1, <1>2, <2>1 DEF InRange, Sent, TypeOK
  <2>2. CASE c.id = Turn
    BY <1>1, <1>2, <2>2 DEF InRange, TypeOK, Lift, Turn
  <2>3. QED BY <1>2, <2>1, <2>2 DEF Call
<1>6. OwnerMoves(t)' /\ Sent(t)' /\ Left(t)'
  BY <1>3 DEF OwnerMoves, Sent, Left, Moving
<1>7. QED BY <1>1, <1>3, <1>4, <1>5, <1>6, CallSteps

\* The interrupt adds to the pulses made, of one motion or of two.
LEMMA CallTimer ==
  ASSUME CallInv, TIM8_UP_IRQHandler
  PROVE  CallInv'
<1> DEFINE done == idMotor = 0 \/ count + 1 >= stepMax
           hit(t) == Moving(t) /\ call[t].alone /\ call[t].id = channel
<1>1. /\ sign' = (sign \/ done) /\ timer' = ~done
      /\ count' = IF idMotor = 0 THEN count ELSE IF done THEN 0 ELSE count + 1
      /\ UNCHANGED <<heightNow, angle, dir, channel, idMotor, stepMax, mux, known>>
  BY DEF TIM8_UP_IRQHandler, Tick
<1>2. call' = [t \in Thread |-> IF hit(t) THEN [call[t] EXCEPT !.made = @ + dir[channel]]
                                          ELSE call[t]]
  BY DEF TIM8_UP_IRQHandler, Tick
<1>3. TypeOK
  BY DEF CallInv
<1>4. ASSUME NEW t \in Thread
      PROVE  /\ call'[t] \in Call /\ call'[t].at = call[t].at /\ call'[t].id = call[t].id
             /\ call'[t].part = call[t].part /\ call'[t].target = call[t].target
             /\ call'[t].rest = call[t].rest
  <2>1. call[t] \in Call
    BY <1>3 DEF TypeOK
  <2>2. CASE hit(t)
    <3>1. call'[t] = [call[t] EXCEPT !.made = call[t].made + dir[channel]]
      BY <1>2, <2>2
    <3>2. channel \in {Lift, Turn}
      BY <2>1, <2>2 DEF Call
    <3>3. dir[channel] \in Int /\ call[t].made \in Int
      BY <1>3, <2>1, <3>2 DEF TypeOK, Call
    <3>4. call[t].made + dir[channel] \in Int
      BY <3>3
    <3> DEFINE m == call[t].made + dir[channel]
    <3> HIDE DEF m
    <3>5. m \in Int /\ call'[t] = [call[t] EXCEPT !.made = m]
      BY <3>1, <3>4 DEF m
    <3>6. QED BY <2>1, <3>5 DEF Call
  <2>3. CASE ~hit(t)
    <3>1. call'[t] = call[t]
      BY <1>2, <2>3
    <3>2. QED BY <2>1, <3>1
  <2>4. QED BY <2>2, <2>3
<1>5. call' \in [Thread -> Call]
  <2>1. call' = [t \in Thread |-> call'[t]]
    BY <1>2
  <2>2. QED BY <1>4, <2>1
<1>6. count' \in 0..(Rev - 1)
  <2>1. count \in 0..(Rev - 1) /\ stepMax \in 0..Rev /\ Rev \in Nat \ {0}
    BY <1>3, PulseAssumption DEF TypeOK
  <2>2. QED BY <1>1, <2>1
<1> HIDE DEF done
<1>7. sign' \in BOOLEAN /\ timer' \in BOOLEAN
  BY <1>1, <1>3 DEF TypeOK
<1>8. TypeOK'
  BY <1>1, <1>3, <1>5, <1>6, <1>7 DEF TypeOK
<1>9. InRange' /\ \A t \in Thread : OwnerMoves(t)' /\ Sent(t)' /\ Left(t)'
  BY <1>1, <1>4 DEF CallInv, InRange, OwnerMoves, Sent, Left, Moving
<1>10. QED BY <1>8, <1>9 DEF CallInv

\* The invariant of the motions by themselves is inductive.
LEMMA CallNext ==
  ASSUME CallInv, [Next]_vars
  PROVE  CallInv'
<1>1. ASSUME NEW t \in Thread, Step(t) PROVE CallInv'
  BY <1>1, CallAim, CallSetSteps, CallDriveWait, CallAck, CallEnd DEF Step
<1>2. CASE UNCHANGED vars
  BY <1>2
  DEF vars, tim8, CallInv, TypeOK, InRange, OwnerMoves, Sent, Left, Moving
<1>3. CASE Next
  <2>1. WatchdogReset => CallInv'
    <3>1. (Init => CallInv)'
      BY CallInit, PTL
    <3>2. QED BY <3>1, ResetIsInit
  <2>2. QED BY <1>1, <1>3, <2>1, CallMutex, CallBegin, CallTimer DEF Next
<1>4. QED BY <1>2, <1>3

(***************************************************************************)
(* However the two threads use the drive, a Bluetooth motion owns          *)
(* Action_mux, and each motion of the lift is within its ends.             *)
(***************************************************************************)
THEOREM CallsInvariance == Spec => []CallInv
<1>1. QED BY CallInit, CallNext, PTL DEF Spec

(***************************************************************************)
(* The types, and that the handler's static step stays within a            *)
(* revolution, also where two motions run into each other.                 *)
(***************************************************************************)
THEOREM TypeCorrect == Spec => []TypeOK
<1>1. CallInv => TypeOK
  BY DEF CallInv
<1>2. QED BY <1>1, CallsInvariance, PTL

(***************************************************************************)
(* The lift is never sent beyond its ends (the range check of              *)
(* MotorMotion_Lift), also by two motions at once, or from anywhere.       *)
(***************************************************************************)
THEOREM StaysInRange == Spec => []InRange
<1>1. CallInv => InRange
  BY DEF CallInv
<1>2. QED BY <1>1, CallsInvariance, PTL

-----------------------------------------------------------------------------
(***************************************************************************)
(* A motion that has the drive to itself.  CallInv', known from above, is  *)
(* a hypothesis of the steps.                                              *)
(***************************************************************************)
LEMMA AloneInit == Init => AloneInv
<1>1. Init => \A t \in Thread : call[t].at = "idle"
  BY NoCallFields DEF Init
<1>2. QED BY <1>1 DEF AloneInv, Moving

\* What is known of a motion that has the drive to itself.
LEMMA AloneFacts ==
  ASSUME CallInv, AloneInv, NEW t \in Thread, Moving(t), call[t].alone
  PROVE  /\ TypeOK /\ InRange /\ call[t] \in Call /\ Sent(t) /\ Left(t)
         /\ SetUp(t) /\ StepsSet(t) /\ FlagInv(t) /\ PulsesInv(t)
         /\ \A u \in Thread \ {t} : ~Moving(u)
BY DEF CallInv, TypeOK, AloneInv, Followed

\* In a step of a motion only that motion has to be looked at.
LEMMA AloneSteps ==
  ASSUME CallInv, AloneInv, NEW t \in Thread, Moving(t),
         call' = [call EXCEPT ![t] = call'[t]],
         Moving(t)' /\ call'[t].alone => Followed(t)' /\ call[t].alone
  PROVE  AloneInv'
<1>1. \A u \in Thread \ {t} : call'[u] = call[u]
  BY DEF CallInv, TypeOK
<1>2. \A u \in Thread \ {t} : ~(Moving(u)' /\ call'[u].alone)
  BY <1>1 DEF AloneInv, Moving
<1>3. Moving(t)' /\ call'[t].alone => Followed(t)' /\ \A u \in Thread \ {t} : ~Moving(u)'
  BY <1>1 DEF AloneInv, Moving
<1>4. QED BY <1>2, <1>3 DEF AloneInv

\* What the drive and the motions leave as it was.
LEMMA AloneSame ==
  ASSUME AloneInv, UNCHANGED <<tim8, call>>
  PROVE  AloneInv'
<1>1. SUFFICES ASSUME NEW t \in Thread, Moving(t), call[t].alone
               PROVE  Followed(t)' /\ \A u \in Thread \ {t} : ~Moving(u)'
  BY DEF AloneInv, Moving
<1>2. Followed(t) /\ \A u \in Thread \ {t} : ~Moving(u)
  BY <1>1 DEF AloneInv
<1>3. SetUp(t)' /\ StepsSet(t)' /\ FlagInv(t)'
  BY <1>2 DEF Followed, SetUp, StepsSet, FlagInv, AtRest, Size, tim8
<1>4. PulsesInv(t)'
  <2>1. call' = call /\ timer' = timer /\ sign' = sign /\ count' = count
    BY DEF tim8
  <2>2. PulsesInv(t)
    BY <1>2 DEF Followed
  <2>3. QED BY <2>1, <2>2 DEF PulsesInv
<1>5. QED BY <1>2, <1>3, <1>4 DEF Followed, Moving

\* Taking and releasing Action_mux moves nothing.
LEMMA MutexAlone ==
  ASSUME CallInv, AloneInv, NEW t \in Thread, Take(t) \/ Release(t)
  PROVE  AloneInv'
<1>1. UNCHANGED tim8 /\ TypeOK
  BY DEF Take, Release, CallInv
<1>2. \A u \in Thread : \/ call'[u] = call[u]
                        \/ call[u].at \in {"idle", "mutex"} /\ call'[u].at \in {"idle", "mutex"}
  BY <1>1, MutexCalls
<1>3. SUFFICES ASSUME NEW u \in Thread, Moving(u)', call'[u].alone
               PROVE  Followed(u)' /\ \A w \in Thread \ {u} : ~Moving(w)'
  BY DEF AloneInv
<1>4. call'[u] = call[u] /\ Moving(u)
  BY <1>2, <1>3 DEF Moving
<1>5. Followed(u) /\ \A w \in Thread \ {u} : ~Moving(w)
  BY <1>3, <1>4 DEF AloneInv
<1>6. \A w \in Thread \ {u} : ~Moving(w)'
  BY <1>2, <1>5 DEF Moving
<1>7. Followed(u)'
  BY <1>1, <1>4, <1>5
  DEF Followed, SetUp, StepsSet, FlagInv, PulsesInv, AtRest, Ahead, Forward, Asked, Refused,
      Burst, Size, tim8
<1>8. QED BY <1>6, <1>7

\* A motion begins: it has the drive to itself if nobody else moves.
LEMMA BegunAlone ==
  ASSUME CallInv, AloneInv, NEW t \in Thread, NEW c \in Call, c.at = "aim", call[t].at = "idle",
         Begun(t, c), UNCHANGED tim8
  PROVE  AloneInv'
<1>1. TypeOK
  BY DEF CallInv
<1>2. /\ call'[t].at = "aim" /\ call'[t].alone = Apart(t)
      /\ \A u \in Thread \ {t} : /\ call'[u].at = call[u].at
                                 /\ Moving(u) => call'[u].alone = FALSE
  BY <1>1, BegunFacts
<1>3. \A u \in Thread \ {t} : ~(Moving(u)' /\ call'[u].alone)
  BY <1>2 DEF Moving
<1>4. ASSUME call'[t].alone PROVE Followed(t)' /\ \A u \in Thread \ {t} : ~Moving(u)'
  <2>1. AtRest /\ \A u \in Thread \ {t} : ~Moving(u)
    BY <1>2, <1>4 DEF Apart
  <2>2. \A u \in Thread \ {t} : ~Moving(u)'
    BY <1>2, <2>1 DEF Moving
  <2>3. AtRest'
    BY <2>1 DEF AtRest, tim8
  <2>4. Followed(t)'
    BY <1>2, <2>3 DEF Followed, SetUp, StepsSet, FlagInv, PulsesInv
  <2>5. QED BY <2>2, <2>4
<1>5. QED BY <1>3, <1>4 DEF AloneInv

\* A jog out of range moves nothing.
LEMMA BeginAlone ==
  ASSUME CallInv, AloneInv, NEW t \in Thread, Begin(t)
  PROVE  AloneInv'
<1>0. TypeOK
  BY DEF CallInv
<1>1. CASE \E pos \in Lifting : MotorMotion_Lift(t, pos)
  <2>1. PICK pos \in Lifting : MotorMotion_Lift(t, pos)
    BY <1>1
  <2>2. /\ call[t].at = "idle" /\ UNCHANGED tim8
        /\ \/ LiftCall(pos) \in Call /\ LiftCall(pos).at = "aim" /\ Begun(t, LiftCall(pos))
           \/ UNCHANGED call
    BY <1>0, <2>1, LiftBegins
  <2>3. CASE UNCHANGED call
    BY <2>2, <2>3, AloneSame
  <2>4. QED BY <2>2, <2>3, BegunAlone
<1>2. CASE \E pos \in {"Reset_R", "Vision"} : MotorMotion_Rotate(t, pos)
  <2>1. PICK pos \in {"Reset_R", "Vision"} : MotorMotion_Rotate(t, pos)
    BY <1>2
  <2>2. call[t].at = "idle" /\ Begun(t, TurnCall(pos)) /\ UNCHANGED tim8
    BY <2>1 DEF MotorMotion_Rotate, At
  <2>3. TurnCall(pos) \in Call /\ TurnCall(pos).at = "aim"
    BY TurnCallFacts
  <2>4. QED BY <2>2, <2>3, BegunAlone
<1>3. QED BY <1>1, <1>2 DEF Begin

(***************************************************************************)
(* Where a motion begins: what Aim computes, whoever makes it.  A way down *)
(* along the curve is less than a word.                                    *)
(***************************************************************************)
LEMMA Aiming ==
  ASSUME CallInv, NEW t \in Thread, Aim(t)
  PROVE  LET c == call[t]
             d == call'[t]
         IN /\ c.at = "aim" /\ Moving(t) /\ call' = [call EXCEPT ![t] = d]
            /\ UNCHANGED <<heightNow, angle, sign, timer, count>>
            /\ c \in Call /\ d \in Call /\ d.made = 0
            /\ d.id = c.id /\ d.part = c.part /\ d.alone = c.alone
            /\ idMotor' = IF c.part = "curve" THEN 0 ELSE 1
            /\ dir'[c.id] = IF d.n >= 0 THEN 1 ELSE -1
            /\ \/ Refused(d) /\ d.at = "end" /\ known' = FALSE
               \/ /\ ~Refused(d) /\ d.at = "set" /\ known' = known /\ channel' = c.id
                  /\ d.target = c.target /\ d.rest = Way(Asked(d))
<1> DEFINE c == call[t]
           n == IF c.id = Lift THEN Pulses(c.target - angle[Lift]) ELSE c.target - angle[Turn]
           size == IF n >= 0 THEN n ELSE -n
           refused == c.part = "curve" /\ c.id = Lift /\ n >= 0
           rest == IF refused THEN 0 ELSE IF c.part = "curve" THEN CurvePulses(c.id, size) ELSE size
           target == IF refused THEN angle[Lift] ELSE c.target
           at == IF refused THEN "end" ELSE "set"
           d == [c EXCEPT !.at = at, !.n = n, !.made = 0, !.target = target, !.rest = rest]
<1>1. c.at = "aim" /\ Moving(t) /\ UNCHANGED <<heightNow, angle, sign, timer, count>>
  BY DEF Aim, At, Moving
<1>2. /\ TypeOK /\ InRange /\ c \in Call /\ Sent(t) /\ c.part # "last"
  BY <1>1 DEF CallInv, TypeOK, Left
<1>3. angle[Lift] \in Lowest..Zero /\ angle[Lift] \in Int /\ angle[Turn] \in Int /\ c.target \in Int
      /\ c.id \in {Lift, Turn}
  BY <1>2 DEF TypeOK, InRange, Call
<1>4. n \in Int
  BY <1>3, PulsesFacts
<1>5. c.id = Lift /\ n < 0 => -n < WordSize
  <2>1. SUFFICES ASSUME c.id = Lift, n < 0 PROVE -n < WordSize
    OBVIOUS
  <2>2. c.target \in Lowest..Zero
    BY <1>1, <1>2, <2>1 DEF Sent
  <2> DEFINE way == angle[Lift] - c.target
  <2>3. way \in Int /\ way <= Zero - Lowest /\ c.target - angle[Lift] = -way
    BY <1>3, <2>2, HeightAssumption
  <2>4. n = Pulses(-way)
    BY <2>1, <2>3
  <2> HIDE DEF way, n
  <2>5. way > 0
    <3>1. CASE way <= 0
      <4>1. -way >= 0 /\ Pulses(-way) = (Num * (-way)) \div Den
        BY <2>3, <3>1 DEF Pulses
      <4>2. \A x \in Nat : (Num * x) \div Den >= 0
        BY PulseAssumption
      <4>3. -way \in Nat
        BY <2>3, <3>1
      <4>4. (Num * (-way)) \div Den >= 0 /\ (Num * (-way)) \div Den \in Int
        BY <4>2, <4>3, PulseAssumption
      <4>5. n >= 0
        BY <2>4, <4>1, <4>4
      <4>6. QED BY <1>4, <2>1, <4>5
    <3>2. QED BY <2>3, <3>1
  <2>6. Pulses(-way) = -Pulses(way) /\ Pulses(way) \in Int
    BY <2>3, <2>5, PulsesFacts
  <2>7. way \in 0..(Zero - Lowest)
    BY <2>3, <2>5, HeightAssumption
  <2>8. Pulses(way) < WordSize
    BY <2>7, WordAssumption
  <2>9. QED BY <2>4, <2>6, <2>8
<1>6. /\ idMotor' = IF c.part = "curve" THEN 0 ELSE 1
      /\ dir' = [dir EXCEPT ![c.id] = IF n >= 0 THEN 1 ELSE -1]
      /\ channel' = IF refused THEN channel ELSE c.id
      /\ call' = [call EXCEPT ![t] = d] /\ known' = (known /\ ~refused)
  BY DEF Aim
<1> HIDE DEF n
<1>7. size \in Nat /\ size = Way(n)
  BY <1>4 DEF Way
<1> HIDE DEF size
<1>8. rest \in Nat /\ target \in Int /\ at \in {"end", "set"}
  BY <1>3, <1>7, CurveIsNat
<1>9. /\ refused => at = "end"
      /\ ~refused => at = "set" /\ target = c.target
                     /\ rest = IF c.part = "curve" THEN CurvePulses(c.id, size) ELSE size
  OBVIOUS
<1> HIDE DEF rest, target, at
<1>10. /\ d \in Call /\ d.at = at /\ d.target = target /\ d.id = c.id /\ d.part = c.part
       /\ d.n = n /\ d.made = 0 /\ d.rest = rest /\ d.alone = c.alone
  BY <1>2, <1>4, <1>8, 0 \in Int DEF Call
<1> HIDE DEF d
<1>11. call'[t] = d /\ call' = [call EXCEPT ![t] = call'[t]]
  BY <1>2, <1>6 DEF TypeOK
<1>12. dir'[c.id] = IF n >= 0 THEN 1 ELSE -1
  BY <1>2, <1>3, <1>6 DEF TypeOK
<1>13. Refused(d) <=> refused
  BY <1>10 DEF Refused
<1>14. ~refused => rest = Way(Asked(d))
  <2>1. SUFFICES ASSUME ~refused PROVE rest = Way(Asked(d))
    OBVIOUS
  <2>2. CASE c.part = "curve" /\ c.id = Lift
    <3>1. n < 0 /\ size = -n /\ size < WordSize
      BY <1>4, <1>5, <1>7, <2>1, <2>2 DEF Way
    <3>2. rest = IF size < SjLength THEN size + WordSize ELSE size
      BY <1>7, <1>9, <2>1, <2>2, <3>1, CurveDown
    <3>3. Asked(d) = IF size < SjLength THEN n - WordSize ELSE n
      BY <1>10, <1>13, <2>1, <2>2, <3>1 DEF Asked
    <3>4. WordSize \in Nat
      BY PulseAssumption
    <3>5. QED BY <1>4, <3>1, <3>2, <3>3, <3>4 DEF Way
  <2>3. CASE ~(c.part = "curve" /\ c.id = Lift)
    <3>1. Asked(d) = n
      BY <1>10, <1>13, <2>1, <2>3 DEF Asked
    <3>2. rest = size
      BY <1>3, <1>9, <2>1, <2>3 DEF CurvePulses
    <3>3. QED BY <1>7, <3>1, <3>2
  <2>4. QED BY <2>2, <2>3
<1>15. /\ refused => known' = FALSE
       /\ ~refused => known' = known /\ channel' = c.id
  BY <1>2, <1>6 DEF TypeOK
<1> HIDE DEF refused
<1>16. CASE refused
  BY <1>1, <1>2, <1>6, <1>9, <1>10, <1>11, <1>12, <1>13, <1>15, <1>16
<1>17. CASE ~refused
  BY <1>1, <1>2, <1>6, <1>9, <1>10, <1>11, <1>12, <1>13, <1>14, <1>15, <1>17
<1>18. QED BY <1>16, <1>17

\* No pulse is missing before the first one.
LEMMA AimAlone ==
  ASSUME CallInv, AloneInv, NEW t \in Thread, Aim(t)
  PROVE  AloneInv'
<1> DEFINE c == call[t]
           d == call'[t]
<1>1. /\ c.at = "aim" /\ Moving(t) /\ call' = [call EXCEPT ![t] = d]
      /\ UNCHANGED <<sign, timer, count>>
      /\ c \in Call /\ d \in Call /\ d.made = 0
      /\ d.id = c.id /\ d.part = c.part /\ d.alone = c.alone
      /\ idMotor' = IF c.part = "curve" THEN 0 ELSE 1
      /\ dir'[c.id] = IF d.n >= 0 THEN 1 ELSE -1
      /\ \/ Refused(d) /\ d.at = "end"
         \/ ~Refused(d) /\ d.at = "set" /\ channel' = c.id /\ d.rest = Way(Asked(d))
  BY Aiming
<1> HIDE DEF d
<1>2. SUFFICES ASSUME c.alone PROVE Followed(t)'
  BY <1>1, AloneSteps DEF d
<1>3. AtRest'
  BY <1>1, <1>2, AloneFacts DEF FlagInv, AtRest
<1>4. SetUp(t)' /\ StepsSet(t)' /\ FlagInv(t)'
  BY <1>1, <1>3 DEF SetUp, StepsSet, FlagInv, d
<1>5. PulsesInv(t)'
  <2>1. Asked(d) \in Int /\ d.n \in Int /\ (Refused(d) => Asked(d) = 0)
    <3>1. Asked(d) \in Int /\ d.n \in Int
      BY <1>1, AskedFacts DEF Call
    <3>2. Refused(d) => Asked(d) = 0
      BY <3>1 DEF Asked, Refused
    <3>3. QED BY <3>1, <3>2
  <2>2. d.at = "set" => Ahead(d) = 0
    BY <1>1, <2>1 DEF Ahead, Forward, Way
  <2>3. d.at = "end" => d.made - Asked(d) \in -1..1
    BY <1>1, <2>1
  <2>4. QED BY <1>1, <2>2, <2>3 DEF PulsesInv, d
<1>6. QED BY <1>4, <1>5 DEF Followed

\* The number of pulses is set.
LEMMA SetStepsAlone ==
  ASSUME CallInv, AloneInv, NEW t \in Thread, SetSteps(t)
  PROVE  AloneInv'
<1> DEFINE c == call[t]
           d == OnTo(c)
<1>1. /\ c.at = "set" /\ Moving(t) /\ stepMax' = Size(c)
      /\ UNCHANGED <<dir, channel, idMotor, sign, timer, count>>
  BY DEF SetSteps, At, Moving
<1>2. TypeOK /\ c \in Call /\ (c.part = "last" => c.rest < Rev)
  BY <1>1 DEF CallInv, TypeOK, Left
<1>3. call' = [call EXCEPT ![t] = d] /\ call'[t] = d
  BY <1>2 DEF SetSteps, TypeOK
<1>4. /\ d \in Call /\ d.at \in {"set", "drive", "end"}
      /\ d.id = c.id /\ d.n = c.n /\ d.made = c.made /\ d.rest = c.rest /\ d.alone = c.alone
      /\ d.part = "curve" <=> c.part = "curve"
      /\ d.at = "drive" => d.part = c.part
      /\ d.at = "end" => d.rest = 0
  BY <1>2, OnToFacts
<1> HIDE DEF d
<1>5. SUFFICES ASSUME c.alone PROVE Followed(t)'
  BY <1>1, <1>3, <1>4, AloneSteps
<1>6. AtRest /\ SetUp(t) /\ Ahead(c) = 0
  BY <1>1, <1>5, AloneFacts DEF FlagInv, PulsesInv
<1>7. Ahead(d) = 0 /\ (d.at = "end" => d.made = Asked(d))
  BY <1>2, <1>4, <1>6, OnToPulses
<1>8. StepsSet(t)'
  <2>1. d.at = "drive" => Size(d) = Size(c)
    BY <1>4 DEF Size
  <2>2. QED BY <1>1, <1>3, <1>4, <2>1 DEF StepsSet
<1>9. SetUp(t)'
  BY <1>1, <1>3, <1>4, <1>6 DEF SetUp
<1>10. FlagInv(t)'
  BY <1>1, <1>3, <1>4, <1>6 DEF FlagInv, AtRest
<1>11. PulsesInv(t)'
  <2>1. d.made \in Int /\ Asked(d) \in Int
    BY <1>4, AskedFacts DEF Call
  <2>2. d.at = "end" => d.made - Asked(d) \in -1..1
    BY <1>7, <2>1
  <2>3. QED BY <1>3, <1>4, <1>7, <2>2 DEF PulsesInv
<1>12. QED BY <1>8, <1>9, <1>10, <1>11 DEF Followed

\* TIM8 is started.
LEMMA DriveAlone ==
  ASSUME CallInv, AloneInv, NEW t \in Thread, Drive(t)
  PROVE  AloneInv'
<1> DEFINE c == call[t]
           d == [c EXCEPT !.at = "wait"]
<1>1. /\ c.at = "drive" /\ Moving(t) /\ timer' = TRUE
      /\ UNCHANGED <<dir, channel, idMotor, stepMax, sign, count>>
  BY DEF Drive, At, Moving
<1>2. TypeOK /\ c \in Call /\ (c.part = "last" => c.rest < Rev)
  BY <1>1 DEF CallInv, TypeOK, Left
<1>3. call' = [call EXCEPT ![t] = d] /\ call'[t] = d
  BY <1>2 DEF Drive, TypeOK
<1>4. /\ d \in Call /\ d.at = "wait" /\ d.id = c.id /\ d.part = c.part
      /\ d.n = c.n /\ d.rest = c.rest /\ d.alone = c.alone
      /\ Ahead(d) = Ahead(c) /\ Size(d) = Size(c) /\ Burst(d) = Burst(c)
  BY <1>2, SameCall
<1> HIDE DEF d
<1>5. SUFFICES ASSUME c.alone PROVE Followed(t)'
  BY <1>1, <1>3, <1>4, AloneSteps
<1>6. ~sign /\ count = 0 /\ SetUp(t) /\ StepsSet(t) /\ Ahead(c) = 0
  BY <1>1, <1>5, AloneFacts DEF FlagInv, PulsesInv, AtRest
<1>7. SetUp(t)' /\ StepsSet(t)' /\ FlagInv(t)'
  BY <1>1, <1>3, <1>4, <1>6 DEF SetUp, StepsSet, FlagInv
<1>8. PulsesInv(t)'
  <2>1. Burst(c) \in 1..Rev
    BY <1>2, SizeFacts
  <2>2. count < Burst(c)
    BY <1>6, <2>1
  <2>3. QED BY <1>1, <1>3, <1>4, <1>6, <2>2 DEF PulsesInv
<1>9. QED BY <1>7, <1>8 DEF Followed

\* The motion function waits for the flag.
LEMMA WaitAlone ==
  ASSUME CallInv, AloneInv, NEW t \in Thread, Wait(t)
  PROVE  AloneInv'
<1> DEFINE c == call[t]
           d == [c EXCEPT !.at = "ack"]
<1>1. c.at = "wait" /\ Moving(t) /\ sign /\ UNCHANGED tim8
  BY DEF Wait, At, Moving
<1>2. TypeOK /\ c \in Call
  BY DEF CallInv, TypeOK
<1>3. call' = [call EXCEPT ![t] = d] /\ call'[t] = d
  BY <1>2 DEF Wait, TypeOK
<1>4. /\ d \in Call /\ d.at = "ack" /\ d.id = c.id /\ d.part = c.part
      /\ d.n = c.n /\ d.rest = c.rest /\ d.alone = c.alone
      /\ Ahead(d) = Ahead(c) /\ Size(d) = Size(c) /\ Burst(d) = Burst(c)
  BY <1>2, SameCall
<1> HIDE DEF d
<1>5. SUFFICES ASSUME c.alone PROVE Followed(t)'
  BY <1>1, <1>3, <1>4, AloneSteps
<1>6. ~timer /\ count = 0 /\ SetUp(t) /\ StepsSet(t) /\ Ahead(c) = Burst(c)
  BY <1>1, <1>2, <1>5, AloneFacts DEF FlagInv, PulsesInv, TypeOK
<1>7. SetUp(t)' /\ StepsSet(t)' /\ FlagInv(t)'
  BY <1>1, <1>3, <1>4, <1>6 DEF SetUp, StepsSet, FlagInv, tim8
<1>8. PulsesInv(t)'
  BY <1>3, <1>4, <1>6 DEF PulsesInv
<1>9. QED BY <1>7, <1>8 DEF Followed

\* It sets the flag back.
LEMMA AckAlone ==
  ASSUME CallInv, AloneInv, NEW t \in Thread, Ack(t)
  PROVE  AloneInv'
<1> DEFINE c == call[t]
           d == Driven(c)
<1>1. /\ c.at = "ack" /\ Moving(t) /\ sign' = FALSE
      /\ UNCHANGED <<dir, channel, idMotor, stepMax, timer, count>>
  BY DEF Ack, At, Moving
<1>2. /\ TypeOK /\ c \in Call
      /\ c.part = "last" => c.rest < Rev
      /\ c.part = "curve" => c.rest >= 1
      /\ c.part = "rounds" => c.rest >= Rev
  BY <1>1 DEF CallInv, TypeOK, Left
<1>3. call' = [call EXCEPT ![t] = d] /\ call'[t] = d
  BY <1>2 DEF Ack, TypeOK
<1>4. /\ d \in Call /\ d.at \in {"set", "drive", "end"}
      /\ d.id = c.id /\ d.n = c.n /\ d.made = c.made
      /\ d.alone = c.alone /\ (d.part = "curve" <=> c.part = "curve")
      /\ c.part = "last" => d.at = "end"
      /\ c.part # "last" => /\ Burst(c) = Size(c) /\ d.rest = c.rest - Size(c)
                            /\ d.at = "end" => d.rest = 0
      /\ d.at = "drive" => d.part = c.part /\ Size(d) = Size(c)
  BY <1>1, <1>2, DrivenFacts
<1> HIDE DEF d
<1>5. SUFFICES ASSUME c.alone PROVE Followed(t)'
  BY <1>1, <1>3, <1>4, AloneSteps
<1>6. ~timer /\ count = 0 /\ SetUp(t) /\ stepMax = Size(c) /\ Ahead(c) = Burst(c)
  BY <1>1, <1>5, AloneFacts DEF FlagInv, PulsesInv, StepsSet
<1>7. /\ c.n \in Int /\ c.made \in Int /\ c.rest \in Nat /\ Rev \in Nat \ {0}
      /\ c.part \in {"curve", "rounds", "last"}
  BY <1>2, PulseAssumption DEF Call
<1>8. Asked(d) = Asked(c) /\ Asked(c) \in Int
  BY <1>2, <1>4, AskedSame, AskedFacts
<1>9. Forward(d) = Forward(c) /\ Forward(c) \in Int /\ Way(Asked(c)) \in Int /\ Size(c) \in Int
  BY <1>4, <1>7, <1>8 DEF Forward, Way, Size
<1>10. SetUp(t)' /\ StepsSet(t)'
  BY <1>1, <1>3, <1>4, <1>6 DEF SetUp, StepsSet
<1>11. FlagInv(t)'
  BY <1>1, <1>3, <1>4, <1>6 DEF FlagInv, AtRest
<1>12. c.part # "last" => Ahead(d) = 0
  <2>1. SUFFICES ASSUME c.part # "last" PROVE Ahead(d) = 0
    OBVIOUS
  <2>2. Forward(c) + c.rest - Way(Asked(c)) = Size(c)
    BY <1>4, <1>6, <2>1 DEF Ahead
  <2>3. QED BY <1>4, <1>7, <1>8, <1>9, <2>1, <2>2 DEF Ahead
<1>13. d.at = "end" => d.made - Asked(d) \in -1..1
  <2>1. CASE c.part = "last"
    <3>1. Forward(c) - Way(Asked(c)) \in 0..1
      <4>1. Forward(c) + c.rest - Way(Asked(c)) = IF c.rest = 0 THEN 1 ELSE c.rest
        BY <1>6, <2>1 DEF Ahead, Burst, Size
      <4>2. QED BY <1>7, <1>9, <4>1
    <3>2. CASE c.n >= 0
      <4>1. Way(Asked(c)) = Asked(c) /\ Forward(c) = c.made
        BY <1>2, <3>2, AskedFacts DEF Forward
      <4>2. QED BY <1>4, <1>7, <1>8, <3>1, <4>1
    <3>3. CASE ~(c.n >= 0)
      <4>1. Way(Asked(c)) = 0 - Asked(c) /\ Forward(c) = 0 - c.made
        BY <1>2, <3>3, AskedFacts DEF Forward
      <4>2. QED BY <1>4, <1>7, <1>8, <3>1, <4>1
    <3>4. QED BY <3>2, <3>3
  <2>2. CASE c.part # "last"
    <3>1. SUFFICES ASSUME d.at = "end" PROVE d.made - Asked(d) \in -1..1
      OBVIOUS
    <3>2. d.rest = 0 /\ Ahead(d) = 0
      BY <1>4, <1>12, <2>2, <3>1
    <3>3. d.made = Asked(d)
      BY <1>4, <3>2, OnToPulses
    <3>4. QED BY <1>8, <3>3
  <2>3. QED BY <2>1, <2>2
<1>14. PulsesInv(t)'
  BY <1>3, <1>4, <1>12, <1>13 DEF PulsesInv
<1>15. QED BY <1>10, <1>11, <1>14 DEF Followed

\* The angle is recorded, and the motion is over.
LEMMA EndAlone ==
  ASSUME CallInv, AloneInv, NEW t \in Thread, End(t)
  PROVE  AloneInv'
<1>1. Moving(t) /\ call' = [call EXCEPT ![t] = NoCall] /\ TypeOK
  BY DEF End, At, Moving, CallInv
<1>2. call'[t] = NoCall /\ ~Moving(t)'
  BY <1>1, NoCallFields DEF TypeOK, Moving
<1>3. QED BY <1>1, <1>2, AloneSteps

(***************************************************************************)
(* The interrupt, for a motion that has the drive to itself: a pulse more, *)
(* and the flag at the last one of a start of the timer.                   *)
(***************************************************************************)
LEMMA TimerAlone ==
  ASSUME CallInv, AloneInv, TIM8_UP_IRQHandler
  PROVE  AloneInv'
<1> DEFINE done == idMotor = 0 \/ count + 1 >= stepMax
           hit(u) == Moving(u) /\ call[u].alone /\ call[u].id = channel
<1>1. /\ timer /\ sign' = (sign \/ done) /\ timer' = ~done
      /\ count' = IF idMotor = 0 THEN count ELSE IF done THEN 0 ELSE count + 1
      /\ UNCHANGED <<dir, channel, idMotor, stepMax>>
      /\ call' = [u \in Thread |-> IF hit(u) THEN [call[u] EXCEPT !.made = @ + dir[channel]]
                                             ELSE call[u]]
  BY DEF TIM8_UP_IRQHandler, Tick
<1>2. \A u \in Thread : call'[u].at = call[u].at /\ call'[u].alone = call[u].alone
  <2>1. TypeOK
    BY DEF CallInv
  <2>2. QED BY <1>1, <2>1 DEF TypeOK, Call
<1>3. SUFFICES ASSUME NEW t \in Thread, Moving(t), call[t].alone PROVE Followed(t)'
  <2>1. \A u \in Thread : Moving(u)' <=> Moving(u)
    BY <1>2 DEF Moving
  <2>2. SUFFICES ASSUME NEW t \in Thread, Moving(t), call[t].alone
                 PROVE  Followed(t)' /\ \A u \in Thread \ {t} : ~Moving(u)
    BY <1>2, <2>1 DEF AloneInv
  <2>3. \A u \in Thread \ {t} : ~Moving(u)
    BY <2>2 DEF AloneInv
  <2>4. QED BY <1>3, <2>2, <2>3
<1> DEFINE c == call[t]
<1>4. /\ TypeOK /\ c \in Call
      /\ SetUp(t) /\ Left(t) /\ StepsSet(t) /\ FlagInv(t) /\ PulsesInv(t)
  BY <1>3, AloneFacts
<1>5. c.at = "wait"
  BY <1>1, <1>3, <1>4 DEF FlagInv, AtRest, Moving, Call
<1>6. /\ ~sign /\ channel = c.id /\ stepMax = Size(c)
      /\ idMotor = (IF c.part = "curve" THEN 0 ELSE 1)
      /\ dir[c.id] = (IF c.n >= 0 THEN 1 ELSE -1)
      /\ Ahead(c) = count /\ count < Burst(c) /\ (c.part = "curve" => count = 0)
      /\ (c.part = "last" => c.rest < Rev)
  BY <1>1, <1>4, <1>5 DEF SetUp, Left, StepsSet, FlagInv, PulsesInv, TypeOK
<1>7. /\ c.n \in Int /\ c.made \in Int /\ c.rest \in Nat /\ Rev \in Nat \ {0} /\ count \in Nat
      /\ c.part \in {"curve", "rounds", "last"}
  BY <1>4, PulseAssumption DEF Call, TypeOK
<1> DEFINE d == [c EXCEPT !.made = c.made + dir[c.id]]
<1>8. call'[t] = d
  BY <1>1, <1>3, <1>6
<1>9. c.made + dir[c.id] \in Int
  BY <1>6, <1>7
<1>10. /\ d \in Call /\ d.at = "wait" /\ d.id = c.id /\ d.part = c.part
       /\ d.n = c.n /\ d.rest = c.rest /\ d.made = c.made + dir[c.id]
  BY <1>4, <1>5, <1>9 DEF Call
<1> HIDE DEF d
<1>11. Size(d) = Size(c) /\ Burst(d) = Burst(c) /\ Burst(c) \in 1..Rev
  BY <1>4, <1>6, <1>7, <1>10, SizeFacts DEF Size, Burst
<1>12. Ahead(d) = count + 1
  <2>1. Asked(d) = Asked(c) /\ Asked(c) \in Int
    BY <1>4, <1>10, AskedSame, AskedFacts
  <2>2. Forward(d) = Forward(c) + 1 /\ Forward(c) \in Int /\ Way(Asked(c)) \in Int
    <3>1. CASE c.n >= 0
      BY <1>6, <1>7, <1>10, <2>1, <3>1 DEF Forward, Way
    <3>2. CASE ~(c.n >= 0)
      BY <1>6, <1>7, <1>10, <2>1, <3>2 DEF Forward, Way
    <3>3. QED BY <3>1, <3>2
  <2>3. Forward(c) + c.rest - Way(Asked(c)) = count
    BY <1>6 DEF Ahead
  <2>4. QED BY <1>7, <1>10, <2>1, <2>2, <2>3 DEF Ahead
<1>13. done => count + 1 = Burst(c) /\ count' = 0
  <2>1. CASE c.part = "curve"
    BY <1>1, <1>6, <1>7, <2>1 DEF Burst, Size
  <2>2. CASE c.part # "curve"
    <3>1. idMotor = 1 /\ stepMax = Size(c)
      BY <1>6, <2>2
    <3>2. count + 1 >= Size(c) => count + 1 = Burst(c)
      BY <1>6, <1>7, <1>11 DEF Burst, Size
    <3>3. QED BY <1>1, <3>1, <3>2
  <2>3. QED BY <2>1, <2>2
<1>14. ~done => count' = count + 1 /\ count + 1 < Burst(c) /\ c.part # "curve"
  <2>1. SUFFICES ASSUME ~done PROVE count' = count + 1 /\ count + 1 < Burst(c) /\ c.part # "curve"
    OBVIOUS
  <2>2. idMotor # 0 /\ ~(count + 1 >= Size(c)) /\ count' = count + 1 /\ c.part # "curve"
    BY <1>1, <1>6, <2>1
  <2>3. Size(c) \in Nat
    BY <1>7 DEF Size
  <2>4. QED BY <1>7, <2>2, <2>3 DEF Burst
<1> HIDE DEF done
<1>15. done \in BOOLEAN /\ sign' = done /\ timer' = ~done
  BY <1>1, <1>6 DEF done
<1>16. SetUp(t)' /\ StepsSet(t)'
  BY <1>1, <1>5, <1>4, <1>6, <1>8, <1>10, <1>11 DEF SetUp, StepsSet
<1>17. FlagInv(t)'
  BY <1>8, <1>10, <1>13, <1>15 DEF FlagInv
<1>18. PulsesInv(t)'
  BY <1>8, <1>10, <1>11, <1>12, <1>13, <1>14, <1>15 DEF PulsesInv
<1>19. QED BY <1>16, <1>17, <1>18 DEF Followed

\* A motion that has the drive to itself is followed by every step.
LEMMA AloneNext ==
  ASSUME CallInv, AloneInv, [Next]_vars
  PROVE  AloneInv'
<1>1. ASSUME NEW t \in Thread, Step(t) PROVE AloneInv'
  BY <1>1, AimAlone, SetStepsAlone, DriveAlone, WaitAlone, AckAlone, EndAlone DEF Step
<1>2. CASE UNCHANGED vars
  BY <1>2, AloneSame DEF vars
<1>3. CASE Next
  <2>1. WatchdogReset => AloneInv'
    <3>1. (Init => AloneInv)'
      BY AloneInit, PTL
    <3>2. QED BY <3>1, ResetIsInit
  <2>2. QED BY <1>1, <1>3, <2>1, MutexAlone, BeginAlone, TimerAlone DEF Next
<1>4. QED BY <1>2, <1>3

(***************************************************************************)
(* A motion that has the drive to itself makes the pulses asked for, and   *)
(* leaves the drive at rest, from whatever height it begins and whatever   *)
(* has run into each other before it.                                      *)
(***************************************************************************)
THEOREM MotionsMakeTheirSteps == Spec => []StepsMade
<1>1. Init => AloneInv
  BY AloneInit
<1>2. CallInv /\ AloneInv /\ [Next]_vars => AloneInv'
  BY AloneNext
<1>3. AloneInv => StepsMade
  BY DEF AloneInv, StepsMade, Moving, Followed, FlagInv, PulsesInv
<1>4. QED BY <1>1, <1>2, <1>3, CallsInvariance, PTL DEF Spec
-----------------------------------------------------------------------------
(***************************************************************************)
(* The height of the lift.                                                 *)
(***************************************************************************)
LEMMA HeightInit == Init => HeightInv
<1>1. SUFFICES ASSUME Init PROVE HeightInv
  OBVIOUS
<1>2. \A t \in Thread : call[t].at = "idle"
  BY <1>1, NoCallFields DEF Init
<1>3. heightNow = Zero /\ angle[Lift] = Zero
  BY <1>1 DEF Init
<1>4. LiftThere
  BY <1>3 DEF LiftThere
<1>5. \A t \in Thread : Aimed(t)
  BY <1>2 DEF Aimed, Moving
<1>6. QED BY <1>4, <1>5 DEF HeightInv

\* A motion goes on, to where it went, or to be refused or not as before.
OnCourse(t) ==
  /\ Moving(t) /\ Moving(t)'
  /\ call'[t].id = call[t].id /\ call'[t].target = call[t].target
  /\ call'[t].alone => call[t].alone
  /\ \/ call'[t].at = call[t].at /\ (Refused(call'[t]) <=> Refused(call[t]))
     \/ call[t].at # "end" /\ ~Refused(call'[t])

\* While nothing begins or ends that moves the lift, nothing changes.
LEMMA HeightSame ==
  ASSUME HeightInv, UNCHANGED <<heightNow, angle, known>>,
         \A t \in Thread : \/ OnCourse(t)
                           \/ ~Moving(t) /\ ~Moving(t)'
                           \/ ~Moving(t) /\ call'[t].at = "aim" /\ call'[t].id = Turn
  PROVE  HeightInv'
<1>1. LiftThere'
  <2>1. (\A t \in Thread : Moving(t)' => call'[t].id = Turn)
        => \A t \in Thread : Moving(t) => call[t].id = Turn
    BY DEF OnCourse
  <2>2. QED BY <2>1 DEF HeightInv, LiftThere
<1>2. ASSUME NEW t \in Thread PROVE Aimed(t)'
  <2>1. Aimed(t)
    BY DEF HeightInv
  <2>2. CASE OnCourse(t)
    <3>1. CASE call'[t].at = call[t].at /\ (Refused(call'[t]) <=> Refused(call[t]))
      BY <2>1, <2>2, <3>1 DEF Aimed, OnCourse
    <3>2. CASE call[t].at # "end" /\ ~Refused(call'[t])
      BY <2>1, <2>2, <3>2 DEF Aimed, OnCourse
    <3>3. QED BY <2>2, <3>1, <3>2 DEF OnCourse
  <2>3. CASE ~Moving(t)'
    BY <2>3 DEF Aimed, Moving
  <2>4. CASE call'[t].at = "aim" /\ call'[t].id = Turn
    BY <2>4 DEF Aimed, Turn, Lift
  <2>5. QED BY <2>2, <2>3, <2>4
<1>3. QED BY <1>1, <1>2 DEF HeightInv

\* Where one motion goes on, the other is where it was.
LEMMA HeightSteps ==
  ASSUME CallInv, HeightInv, NEW t \in Thread, UNCHANGED <<heightNow, angle, known>>,
         call' = [call EXCEPT ![t] = call'[t]], OnCourse(t)
  PROVE  HeightInv'
<1>1. \A u \in Thread \ {t} : call'[u] = call[u]
  BY DEF CallInv, TypeOK
<1>2. \A u \in Thread \ {t} : OnCourse(u) \/ (~Moving(u) /\ ~Moving(u)')
  BY <1>1 DEF OnCourse, Moving
<1>3. QED BY <1>2, HeightSame

\* Taking and releasing Action_mux moves nothing.
LEMMA MutexHeight ==
  ASSUME CallInv, HeightInv, NEW t \in Thread, Take(t) \/ Release(t)
  PROVE  HeightInv'
<1>1. TypeOK /\ UNCHANGED <<heightNow, angle, known>>
  BY DEF CallInv, Take, Release
<1>2. \A u \in Thread : OnCourse(u) \/ (~Moving(u) /\ ~Moving(u)')
  BY <1>1, MutexCalls DEF OnCourse, Moving
<1>3. QED BY <1>1, <1>2, HeightSame

\* Only a jog is not driven to, and nobody moves when one is asked for.
LEMMA JogAlone ==
  ASSUME CallInv, NEW t \in Thread, NEW pos \in Lifting, MotorMotion_Lift(t, pos),
         ~Inside(NewHeight(pos))
  PROVE  \A u \in Thread : ~Moving(u)
<1>1. pos # "Reset_L" \/ pos \in {"Rise", "Fall"}
  <2>1. SUFFICES ASSUME pos \notin {"Rise", "Fall"} PROVE FALSE
    OBVIOUS
  <2>2. HeightOf[pos] \in Lowest..Zero
    BY <2>1, HeightAssumption DEF Lifting
  <2>3. NewHeight(pos) = HeightOf[pos]
    BY <2>1 DEF NewHeight
  <2>4. QED BY <2>2, <2>3, HeightAssumption DEF Inside
<1>2. mux = t /\ call[t].at = "idle" /\ Runs(t)
  BY <1>1 DEF MotorMotion_Lift, Allowed, At
<1>3. \A u \in Thread : OwnerMoves(u)
  BY DEF CallInv
<1>4. QED BY <1>2, <1>3 DEF Thread, OwnerMoves, Moving, Runs

(***************************************************************************)
(* A motion of the lift begins: it goes to the new height, and one that it *)
(* preempts does not.                                                      *)
(***************************************************************************)
LEMMA LiftHeight ==
  ASSUME CallInv, AloneInv, HeightInv, NEW t \in Thread, NEW pos \in Lifting,
         MotorMotion_Lift(t, pos)
  PROVE  HeightInv'
<1>1. TypeOK /\ call[t].at = "idle" /\ UNCHANGED angle
  BY DEF CallInv, MotorMotion_Lift, At
<1>2. CASE /\ LiftCall(pos) \in Call /\ LiftCall(pos).at = "aim" /\ LiftCall(pos).id = Lift
           /\ LiftCall(pos).target = heightNow'
           /\ Begun(t, LiftCall(pos))
           /\ known' = (known /\ \A u \in Thread : Moving(u) => call[u].id = Turn)
  <2> DEFINE c == LiftCall(pos)
  <2>1. /\ call'[t].at = "aim" /\ call'[t].id = Lift /\ call'[t].target = heightNow'
        /\ \A u \in Thread \ {t} :
             /\ call'[u].at = call[u].at /\ call'[u].id = call[u].id
             /\ call'[u].part = call[u].part /\ call'[u].n = call[u].n
             /\ Moving(u) => call'[u].alone = FALSE
    <3>1. c \in Call /\ c.at = "aim" /\ c.id = Lift /\ c.target = heightNow' /\ Begun(t, c)
      BY <1>2
    <3> HIDE DEF c
    <3>2. QED BY <1>1, <3>1, BegunFacts
  <2>2. LiftThere'
    BY <2>1 DEF LiftThere, Moving, Lift, Turn
  <2>3. Aimed(t)'
    BY <2>1 DEF Aimed
  <2>4. ASSUME NEW u \in Thread \ {t} PROVE Aimed(u)'
    <3>1. Aimed(u)
      BY DEF HeightInv
    <3>2. Refused(call'[u]) <=> Refused(call[u])
      BY <2>1 DEF Refused
    <3>3. Moving(u)' <=> Moving(u)
      BY <2>1 DEF Moving
    <3>4. Moving(u) /\ call[u].id = Lift => ~known' /\ ~call'[u].alone
      <4>1. SUFFICES ASSUME Moving(u), call[u].id = Lift PROVE ~known' /\ ~call'[u].alone
        OBVIOUS
      <4>2. call[u].id # Turn
        BY <4>1 DEF Lift, Turn
      <4>3. ~known'
        BY <1>2, <4>1, <4>2
      <4>4. QED BY <2>1, <4>1, <4>3
    <3>5. known' => known
      BY <1>2
    <3>6. QED BY <2>1, <3>1, <3>2, <3>3, <3>4, <3>5 DEF Aimed
  <2>5. QED BY <2>2, <2>3, <2>4 DEF HeightInv
<1>3. CASE ~Inside(NewHeight(pos)) /\ UNCHANGED <<call, known>>
  <2>1. \A u \in Thread : ~Moving(u)
    BY <1>3, JogAlone
  <2>2. \A u \in Thread : Aimed(u)'
    BY <1>3, <2>1 DEF Aimed, Moving
  <2>3. heightNow' \notin Lowest..Zero
    BY <1>1, <1>3, LiftBegins, HeightAssumption DEF Inside
  <2>4. QED BY <2>2, <2>3 DEF HeightInv, LiftThere
<1>4. QED BY <1>1, <1>2, <1>3, LiftBegins

\* A turn of the arm leaves the lift alone.
LEMMA BeginHeight ==
  ASSUME CallInv, AloneInv, HeightInv, NEW t \in Thread, Begin(t)
  PROVE  HeightInv'
<1>1. CASE \E pos \in Lifting : MotorMotion_Lift(t, pos)
  BY <1>1, LiftHeight
<1>2. CASE \E pos \in {"Reset_R", "Vision"} : MotorMotion_Rotate(t, pos)
  <2>1. PICK pos \in {"Reset_R", "Vision"} : MotorMotion_Rotate(t, pos)
    BY <1>2
  <2>2. /\ TypeOK /\ call[t].at = "idle" /\ Begun(t, TurnCall(pos))
        /\ UNCHANGED <<heightNow, angle, known>>
    BY <2>1 DEF CallInv, MotorMotion_Rotate, At
  <2> DEFINE c == TurnCall(pos)
  <2>3. c \in Call /\ c.at = "aim" /\ c.id = Turn
    BY TurnCallFacts
  <2> HIDE DEF c
  <2>4. /\ call'[t].at = "aim" /\ call'[t].id = Turn
        /\ \A u \in Thread \ {t} :
             /\ call'[u].at = call[u].at /\ call'[u].id = call[u].id
             /\ call'[u].part = call[u].part /\ call'[u].target = call[u].target
             /\ call'[u].n = call[u].n
             /\ Moving(u) => call'[u].alone = FALSE
    <3>1. Begun(t, c)
      BY <2>2 DEF c
    <3>2. QED BY <2>2, <2>3, <3>1, BegunFacts
  <2>5. \A u \in Thread \ {t} : OnCourse(u) \/ (~Moving(u) /\ ~Moving(u)')
    BY <2>4 DEF OnCourse, Moving, Refused
  <2>6. ~Moving(t)
    BY <2>2 DEF Moving
  <2>7. QED BY <2>2, <2>4, <2>5, <2>6, HeightSame
<1>3. QED BY <1>1, <1>2 DEF Begin

\* A motion that is refused leaves the height unknown.
LEMMA AimHeight ==
  ASSUME CallInv, AloneInv, HeightInv, NEW t \in Thread, Aim(t)
  PROVE  HeightInv'
<1> DEFINE c == call[t]
           d == call'[t]
<1>1. /\ c.at = "aim" /\ Moving(t) /\ call' = [call EXCEPT ![t] = d]
      /\ UNCHANGED <<heightNow, angle>>
      /\ d.id = c.id /\ d.alone = c.alone
      /\ \/ Refused(d) /\ d.at = "end" /\ known' = FALSE
         \/ ~Refused(d) /\ d.at = "set" /\ known' = known /\ d.target = c.target
  BY Aiming
<1>2. \A u \in Thread \ {t} : call'[u] = call[u]
  BY <1>1 DEF CallInv, TypeOK
<1> HIDE DEF d
<1>3. CASE Refused(d) /\ d.at = "end" /\ known' = FALSE
  <2>1. Aimed(t)'
    BY <1>3 DEF Aimed, d
  <2>2. ASSUME NEW u \in Thread \ {t} PROVE Aimed(u)'
    <3>1. Aimed(u)
      BY DEF HeightInv
    <3>2. Moving(u) => ~call[u].alone
      BY <1>1 DEF AloneInv
    <3>3. QED BY <1>2, <1>3, <3>1, <3>2 DEF Aimed, Moving
  <2>3. QED BY <1>3, <2>1, <2>2 DEF HeightInv, LiftThere
<1>4. CASE ~Refused(d) /\ d.at = "set" /\ known' = known /\ d.target = c.target
  <2>1. OnCourse(t)
    BY <1>1, <1>4 DEF OnCourse, Moving, d
  <2>2. QED BY <1>1, <1>4, <2>1, HeightSteps DEF d
<1>5. QED BY <1>1, <1>3, <1>4

\* A motion under way goes to where it went.
LEMMA StepHeight ==
  ASSUME CallInv, HeightInv, NEW t \in Thread,
         SetSteps(t) \/ Drive(t) \/ Wait(t) \/ Ack(t)
  PROVE  HeightInv'
<1> DEFINE c == call[t]
<1>1. /\ c.at \in {"set", "drive", "wait", "ack"} /\ Moving(t)
      /\ UNCHANGED <<heightNow, angle, known>>
  BY DEF SetSteps, Drive, Wait, Ack, At, Moving
<1>2. /\ TypeOK /\ c \in Call
      /\ c.part = "last" => c.rest < Rev
      /\ c.at = "ack" => /\ c.part = "curve" => c.rest >= 1
                         /\ c.part = "rounds" => c.rest >= Rev
  BY <1>1 DEF CallInv, TypeOK, Left
<1>3. PICK d : /\ call' = [call EXCEPT ![t] = d]
               /\ d.at \in {"set", "drive", "wait", "ack", "end"}
               /\ d.id = c.id /\ d.target = c.target /\ d.n = c.n /\ d.alone = c.alone
               /\ d.part = "curve" <=> c.part = "curve"
  <2>1. CASE SetSteps(t)
    <3>1. call' = [call EXCEPT ![t] = OnTo(c)]
      BY <2>1 DEF SetSteps
    <3>2. QED BY <1>2, <3>1, OnToFacts
  <2>2. CASE Drive(t)
    <3> DEFINE e == [c EXCEPT !.at = "wait"]
    <3>1. call' = [call EXCEPT ![t] = e]
      BY <1>2, <2>2 DEF Drive, TypeOK
    <3>2. e.at = "wait" /\ e.id = c.id /\ e.target = c.target /\ e.n = c.n /\ e.alone = c.alone
          /\ e.part = c.part
      BY <1>2, SameCall
    <3> HIDE DEF e
    <3>3. QED BY <3>1, <3>2
  <2>3. CASE Wait(t)
    <3> DEFINE e == [c EXCEPT !.at = "ack"]
    <3>1. call' = [call EXCEPT ![t] = e]
      BY <1>2, <2>3 DEF Wait, TypeOK
    <3>2. e.at = "ack" /\ e.id = c.id /\ e.target = c.target /\ e.n = c.n /\ e.alone = c.alone
          /\ e.part = c.part
      BY <1>2, SameCall
    <3> HIDE DEF e
    <3>3. QED BY <3>1, <3>2
  <2>4. CASE Ack(t)
    <3>1. call' = [call EXCEPT ![t] = Driven(c)] /\ c.at = "ack"
      BY <2>4 DEF Ack, At
    <3>2. QED BY <1>2, <3>1, DrivenFacts
  <2>5. QED BY <2>1, <2>2, <2>3, <2>4
<1>4. call'[t] = d /\ call' = [call EXCEPT ![t] = call'[t]]
  BY <1>2, <1>3 DEF TypeOK
<1>5. ~Refused(c) /\ ~Refused(d)
  BY <1>1, <1>3, AskedSame DEF HeightInv, Aimed
<1>6. OnCourse(t)
  BY <1>1, <1>3, <1>4, <1>5 DEF OnCourse, Moving
<1>7. QED BY <1>1, <1>4, <1>6, HeightSteps

(***************************************************************************)
(* The motion is over: the lift is at HeightNow if it has been made and    *)
(* nothing has come between.                                               *)
(***************************************************************************)
LEMMA EndHeight ==
  ASSUME CallInv, AloneInv, HeightInv, NEW t \in Thread, End(t)
  PROVE  HeightInv'
<1> DEFINE c == call[t]
<1>1. /\ c.at = "end" /\ Moving(t) /\ UNCHANGED heightNow
      /\ angle' = [angle EXCEPT ![c.id] = c.target]
      /\ call' = [call EXCEPT ![t] = NoCall]
      /\ known' = (known \/ (c.id = Lift /\ c.alone /\ ~Refused(c)))
  BY DEF End, At, Moving
<1>2. TypeOK /\ c.id \in {Lift, Turn} /\ Aimed(t)
  BY DEF CallInv, TypeOK, Call, HeightInv
<1>3. call'[t].at = "idle" /\ ~Moving(t)' /\ \A u \in Thread \ {t} : call'[u] = call[u]
  BY <1>1, <1>2, NoCallFields DEF TypeOK, Moving
<1>4. Aimed(t)'
  BY <1>3 DEF Aimed, Moving
<1>5. ASSUME NEW u \in Thread \ {t} PROVE Aimed(u)'
  <2>1. CASE Moving(u)
    <3>1. ~c.alone
      BY <1>1, <2>1 DEF AloneInv
    <3>2. known' = known
      BY <1>1, <1>2, <3>1 DEF TypeOK
    <3>3. QED BY <1>1, <1>3, <3>2 DEF HeightInv, Aimed, Moving
  <2>2. CASE ~Moving(u)
    BY <1>3, <2>2 DEF Aimed, Moving
  <2>3. QED BY <2>1, <2>2
<1>6. LiftThere'
  <2>1. SUFFICES ASSUME known', \A u \in Thread : Moving(u)' => call'[u].id = Turn,
                        heightNow \in Lowest..Zero
                 PROVE  angle'[Lift] = heightNow
    BY <1>1 DEF LiftThere
  <2>2. CASE c.id = Lift
    <3>1. c.target = heightNow
      BY <1>1, <1>2, <2>1, <2>2 DEF Aimed
    <3>2. QED BY <1>1, <1>2, <2>2, <3>1 DEF TypeOK
  <2>3. CASE c.id = Turn
    <3>1. angle'[Lift] = angle[Lift] /\ known
      <4>1. angle'[Lift] = angle[Lift]
        BY <1>1, <1>2, <2>3 DEF TypeOK, Lift, Turn
      <4>2. c.id # Lift
        BY <2>3 DEF Lift, Turn
      <4>3. known
        BY <1>1, <2>1, <4>2
      <4>4. QED BY <4>1, <4>3
    <3>2. \A u \in Thread : Moving(u) => call[u].id = Turn
      BY <1>3, <2>1, <2>3 DEF Moving
    <3>3. QED BY <2>1, <3>1, <3>2 DEF HeightInv, LiftThere
  <2>4. QED BY <1>2, <2>2, <2>3
<1>7. QED BY <1>4, <1>5, <1>6 DEF HeightInv

\* The interrupt only counts.
LEMMA TimerHeight ==
  ASSUME CallInv, HeightInv, TIM8_UP_IRQHandler
  PROVE  HeightInv'
<1>1. /\ UNCHANGED <<heightNow, angle, known>>
      /\ call' = [u \in Thread |-> IF Moving(u) /\ call[u].alone /\ call[u].id = channel
                                   THEN [call[u] EXCEPT !.made = @ + dir[channel]] ELSE call[u]]
  BY DEF TIM8_UP_IRQHandler, Tick
<1>2. \A u \in Thread :
        /\ call'[u].at = call[u].at /\ call'[u].id = call[u].id /\ call'[u].part = call[u].part
        /\ call'[u].target = call[u].target /\ call'[u].n = call[u].n
        /\ call'[u].alone = call[u].alone
  <2>1. TypeOK
    BY DEF CallInv
  <2>2. QED BY <1>1, <2>1 DEF TypeOK, Call
<1>3. \A u \in Thread : OnCourse(u) \/ (~Moving(u) /\ ~Moving(u)')
  BY <1>2 DEF OnCourse, Moving, Refused
<1>4. QED BY <1>1, <1>3, HeightSame

\* Every step keeps to it.
LEMMA HeightNext ==
  ASSUME CallInv, AloneInv, HeightInv, [Next]_vars
  PROVE  HeightInv'
<1>1. ASSUME NEW t \in Thread, Step(t) PROVE HeightInv'
  BY <1>1, AimHeight, StepHeight, EndHeight DEF Step
<1>2. CASE UNCHANGED vars
  <2>1. UNCHANGED <<heightNow, angle, known, call>>
    BY <1>2 DEF vars
  <2>2. \A u \in Thread : OnCourse(u) \/ (~Moving(u) /\ ~Moving(u)')
    BY <2>1 DEF OnCourse, Moving
  <2>3. QED BY <2>1, <2>2, HeightSame
<1>3. CASE Next
  <2>1. WatchdogReset => HeightInv'
    <3>1. (Init => HeightInv)'
      BY HeightInit, PTL
    <3>2. QED BY <3>1, ResetIsInit
  <2>2. QED BY <1>1, <1>3, <2>1, MutexHeight, BeginHeight, TimerHeight DEF Next
<1>4. QED BY <1>2, <1>3

(***************************************************************************)
(* HeightNow is the angle of the lift at rest, whatever has been jogged    *)
(* before, but after a curve upwards, which is refused, and after a reset  *)
(* that preempts a motion of the lift, until the next motion made.         *)
(***************************************************************************)
THEOREM HeightIsKnown == Spec => []HeightKnown
<1>1. Init => AloneInv /\ HeightInv
  BY AloneInit, HeightInit
<1>2. CallInv /\ AloneInv /\ HeightInv /\ [Next]_vars => AloneInv' /\ HeightInv'
  BY AloneNext, HeightNext
<1>3. HeightInv => HeightKnown
  BY DEF HeightInv, LiftThere, HeightKnown
<1>4. QED BY <1>1, <1>2, <1>3, CallsInvariance, PTL DEF Spec

(***************************************************************************)
(* A Bluetooth motion owns Action_mux all the way, whatever MainCtrl does  *)
(* (MOVE_CTL_EVENT: taken before the motion, released after it).           *)
(***************************************************************************)
THEOREM BluetoothOwnsMutex == Spec => [](Moving("UsartRece") => mux = "UsartRece")
<1>1. CallInv => (Moving("UsartRece") => mux = "UsartRece")
  BY DEF CallInv, OwnerMoves, Thread
<1>2. QED BY <1>1, CallsInvariance, PTL
=============================================================================
