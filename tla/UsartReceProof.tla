--------------------------- MODULE UsartReceProof ---------------------------
(***************************************************************************)
(* Proofs about the receive path, for every set of frames, every queue     *)
(* capacity of two or more and every configuration of the ports.           *)
(***************************************************************************)
EXTENDS UsartRece, TLAPS

(***************************************************************************)
(* The inductive invariant.  Before the thread runs nothing is queued and  *)
(* nobody else has been started; afterwards the set of received events     *)
(* goes with the place the thread is at, every event is backed by a        *)
(* message (which needs the thread to be asleep only when no event is up,  *)
(* and a capacity of two: one message in transit, one for the event that   *)
(* arrives meanwhile), and Action_mux goes with the places of both its     *)
(* users.                                                                  *)
(***************************************************************************)
BootInv ==
  pc \in {"board", "off", "halted"} =>
    /\ queue = [p \in Port |-> <<>>] /\ evset = {} /\ recved = {}
    /\ main = "init" /\ owner = NULL

RecvedInv ==
  /\ pc \in {"recv", "suspend"} => recved = {}
  /\ pc \in {"mq", "free", "act", "mutex", "motion"} => \E p \in Port : recved = {p}

MainInv == main = "init" => owner # "MainCtrl"

IInv == TypeOK /\ BootInv /\ RecvedInv /\ MainInv
          /\ EventBacked /\ NoLostWakeup /\ MutexHandedOver
-----------------------------------------------------------------------------
\* What the handlers read of a frame has the type of the variable it goes to.
LEMMA FrameFields ==
  /\ Noise \in Frame
  /\ \A p \in Port : FramesOf(p) \subseteq Frame
  /\ \A f \in Frame : f.kind = "car" => f.val \in CarState
  /\ \A f \in Frame : f.kind = "code" => f.val \in TaskCode
<1>1. \A p \in Port : FramesOf(p) \subseteq Frame
  BY DEF Frame
<1>2. Noise \in FramesOf("USART2")
  BY DEF FramesOf
<1>3. ASSUME NEW f \in Frame
      PROVE  /\ f.kind = "car" => f.val \in CarState
             /\ f.kind = "code" => f.val \in TaskCode
  <2>1. PICK p \in Port : f \in FramesOf(p)
    BY DEF Frame
  <2>2. CASE p = "USART2"
    BY <2>1, <2>2 DEF FramesOf, Noise, Long
  <2>3. CASE p = "USART3"
    BY <2>1, <2>3 DEF FramesOf, Noise, Long
  <2>4. CASE p = "UART4"
    BY <2>1, <2>4 DEF FramesOf, Noise, Long
  <2>5. QED BY <2>2, <2>3, <2>4 DEF Port
<1>4. QED BY <1>1, <1>2, <1>3 DEF Port

\* What a queue is created as.
LEMMA EmptyQueue ==
  LET q == [p \in Port |-> <<>>] IN
    /\ q \in [Port -> Seq(Frame)]
    /\ \A p \in Port : Len(q[p]) = 0
<1>1. <<>> \in Seq(Frame) /\ Len(<<>>) = 0
  OBVIOUS
<1>2. QED BY <1>1

\* The invariant holds at the start.
LEMMA InitInv == Init => IInv
<1>1. SUFFICES ASSUME Init PROVE IInv
  OBVIOUS
<1>2. TypeOK
  <2>1. queue \in [Port -> Seq(Frame)] /\ \A p \in Port : Len(queue[p]) <= QueueCap
    BY <1>1, QueueCapAssumption, EmptyQueue DEF Init
  <2>2. QED BY <1>1, <2>1, FrameFields DEF Init, TypeOK, ReceLabel, MainLabel
<1>3. BootInv /\ RecvedInv /\ MainInv
  BY <1>1, NullAssumption DEF Init, BootInv, RecvedInv, MainInv
<1>4. EventBacked /\ NoLostWakeup /\ MutexHandedOver
  BY <1>1, NullAssumption DEF Init, EventBacked, Claims, NoLostWakeup, MutexHandedOver
<1>5. QED BY <1>2, <1>3, <1>4 DEF IInv

\* A reset leads to a state that satisfies the invariant whatever the flash.
LEMMA ResetInv == ASSUME Reset, iapFlag' \in BOOLEAN PROVE IInv'
<1>1. TypeOK'
  <2>1. queue' \in [Port -> Seq(Frame)] /\ \A p \in Port : Len(queue'[p]) <= QueueCap
    BY QueueCapAssumption, EmptyQueue DEF Reset
  <2>2. QED BY <2>1, FrameFields DEF Reset, TypeOK, ReceLabel, MainLabel
<1>2. BootInv' /\ RecvedInv' /\ MainInv'
  BY NullAssumption DEF Reset, BootInv, RecvedInv, MainInv
<1>3. EventBacked' /\ NoLostWakeup' /\ MutexHandedOver'
  BY NullAssumption DEF Reset, EventBacked, Claims, NoLostWakeup, MutexHandedOver
<1>4. QED BY <1>1, <1>2, <1>3 DEF IInv
-----------------------------------------------------------------------------
(***************************************************************************)
(* The interrupt handlers.  rt_mq_send adds a message or finds the queue   *)
(* full, and a queue that is full holds a message for the event even while *)
(* one of its slots is in transit.                                         *)
(***************************************************************************)
LEMMA SentOrFull ==
  ASSUME TypeOK, NEW p \in Port, NEW f \in FramesOf(p), MqSend(p, f)
  PROVE  /\ queue' \in [Port -> Seq(Frame)]
         /\ \A q \in Port \ {p} : queue'[q] = queue[q]
         /\ \A q \in Port : Len(queue'[q]) \in Nat /\ Len(queue'[q]) <= QueueCap
         /\ \/ Len(queue'[p]) = Len(queue[p]) + 1
            \/ Len(queue'[p]) = Len(queue[p]) /\ Len(queue[p]) + InTransit(p) >= QueueCap
<1>0. queue \in [Port -> Seq(Frame)] /\ f \in Frame
      /\ \A q \in Port : Len(queue[q]) \in Nat /\ Len(queue[q]) <= QueueCap
  BY FrameFields DEF TypeOK
<1>1. InTransit(p) \in {0, 1}
  BY DEF InTransit
<1>2. CASE Len(queue[p]) + InTransit(p) < QueueCap
  <2>1. queue' = [queue EXCEPT ![p] = Append(@, f)]
    BY <1>2 DEF MqSend
  <2>2. Append(queue[p], f) \in Seq(Frame) /\ Len(Append(queue[p], f)) = Len(queue[p]) + 1
    BY <1>0
  <2>3. Len(queue[p]) + 1 <= QueueCap
    BY <1>0, <1>1, <1>2, QueueCapAssumption
  <2>4. queue' \in [Port -> Seq(Frame)] /\ queue'[p] = Append(queue[p], f)
        /\ \A q \in Port \ {p} : queue'[q] = queue[q]
    BY <1>0, <2>1, <2>2
  <2>5. QED BY <1>0, <2>2, <2>3, <2>4
<1>3. CASE ~(Len(queue[p]) + InTransit(p) < QueueCap)
  <2>1. queue' = queue
    BY <1>3 DEF MqSend
  <2>2. Len(queue[p]) + InTransit(p) >= QueueCap
    BY <1>0, <1>1, <1>3, QueueCapAssumption
  <2>3. QED BY <1>0, <2>1, <2>2
<1>4. QED BY <1>2, <1>3

\* An interrupt delivers a frame.
LEMMA DeliverInv ==
  ASSUME IInv, NEW p \in Port, NEW f \in FramesOf(p), Deliver(p, f)
  PROVE  IInv'
<1>0. TypeOK /\ BootInv /\ RecvedInv /\ MainInv
      /\ EventBacked /\ NoLostWakeup /\ MutexHandedOver
  BY DEF IInv
<1>1. CASE UNCHANGED <<queue, event, pc>>
  <2>1. TypeOK'
    BY <1>0, <1>1 DEF Deliver, TypeOK, event, task
  <2>2. QED
    BY <1>0, <1>1, <2>1 DEF Deliver, event, IInv, BootInv, RecvedInv, MainInv, EventBacked, Claims,
       NoLostWakeup, MutexHandedOver
<1>2. CASE pc = "off" /\ pc' = "halted" /\ UNCHANGED <<queue, event>>
  <2>1. TypeOK'
    BY <1>0, <1>2 DEF Deliver, TypeOK, event, task, ReceLabel
  <2>2. QED
    BY <1>0, <1>2, <2>1, NullAssumption DEF Deliver, event, IInv, BootInv, RecvedInv, MainInv,
       EventBacked, Claims, NoLostWakeup, MutexHandedOver
<1>3. CASE pc \notin {"board", "halted", "off"} /\ MqSend(p, f) /\ EventSend(p)
  <2>1. /\ queue' \in [Port -> Seq(Frame)]
        /\ \A q \in Port \ {p} : queue'[q] = queue[q]
        /\ \A q \in Port : Len(queue'[q]) \in Nat /\ Len(queue'[q]) <= QueueCap
        /\ \/ Len(queue'[p]) = Len(queue[p]) + 1
           \/ Len(queue'[p]) = Len(queue[p]) /\ Len(queue[p]) + InTransit(p) >= QueueCap
    BY <1>0, <1>3, SentOrFull
  <2>2. UNCHANGED <<taken, receCarSta, codeS, taskStart, main, awaited, owner, iapFlag>>
        /\ idle' \subseteq Port
    BY <1>0 DEF Deliver, task, TypeOK
  <2>3. \A q \in Port : Len(queue[q]) \in Nat
    BY <1>0 DEF TypeOK
  <2>4. CASE pc = "suspend"
    <3>1. evset' = {} /\ recved' = {p} /\ pc' = "switch"
      BY <1>0, <1>3, <2>4 DEF EventSend, NoLostWakeup
    <3>2. TypeOK'
      BY <1>0, <2>1, <2>2, <3>1 DEF TypeOK, ReceLabel
    <3>3. Len(queue'[p]) >= 1
      BY <2>1, <2>3, <2>4, QueueCapAssumption DEF InTransit
    <3>4. EventBacked'
      <4>1. ASSUME NEW q \in Port PROVE Claims(q)' <= Len(queue'[q])
        <5>1. CASE q = p
          BY <2>1, <3>1, <3>3, <5>1 DEF Claims
        <5>2. CASE q # p
          <6>1. {p} # {q}
            BY <5>2
          <6>2. Claims(q)' = 0
            BY <3>1, <6>1 DEF Claims
          <6>3. QED BY <2>1, <6>2
        <5>3. QED BY <5>1, <5>2
      <4>2. QED BY <4>1 DEF EventBacked
    <3>5. BootInv' /\ RecvedInv' /\ MainInv' /\ NoLostWakeup' /\ MutexHandedOver'
      BY <1>0, <1>3, <2>2, <2>4, <3>1
      DEF BootInv, RecvedInv, MainInv, NoLostWakeup, MutexHandedOver
    <3>6. QED BY <3>2, <3>4, <3>5 DEF IInv
  <2>5. CASE pc # "suspend"
    <3>1. evset' = evset \cup {p} /\ UNCHANGED <<recved, pc>>
      BY <1>3, <2>5 DEF EventSend
    <3>2. TypeOK'
      BY <1>0, <2>1, <2>2, <3>1 DEF TypeOK, ReceLabel
    <3>3. EventBacked'
      <4>1. ASSUME NEW q \in Port PROVE Claims(q)' <= Len(queue'[q])
        <5>0. Claims(q) <= Len(queue[q])
          BY <1>0 DEF EventBacked
        <5>1. CASE q # p
          BY <2>1, <3>1, <5>0, <5>1 DEF Claims
        <5>2. CASE q = p /\ Len(queue'[p]) = Len(queue[p]) + 1
          BY <2>3, <3>1, <5>0, <5>2 DEF Claims
        <5>3. CASE q = p /\ Len(queue'[p]) = Len(queue[p])
                   /\ Len(queue[p]) + InTransit(p) >= QueueCap
          <6>1. CASE pc = "free"
            <7>1. Claims(q)' <= 1
              BY <3>1, <6>1 DEF Claims
            <7>2. Len(queue'[p]) >= 1
              <8>1. InTransit(p) \in {0, 1}
                BY DEF InTransit
              <8>2. QED BY <2>3, <5>3, <8>1, QueueCapAssumption
            <7>3. Claims(q)' \in Nat
              BY DEF Claims
            <7>4. QED BY <2>1, <5>3, <7>1, <7>2, <7>3
          <6>2. CASE pc # "free"
            <7>1. Claims(q)' <= 2 /\ Claims(q)' \in Nat
              BY DEF Claims
            <7>2. Len(queue'[p]) >= 2
              BY <2>3, <5>3, <6>2, QueueCapAssumption DEF InTransit
            <7>3. QED BY <2>1, <5>3, <7>1, <7>2
          <6>3. QED BY <6>1, <6>2
        <5>4. QED BY <2>1, <5>1, <5>2, <5>3
      <4>2. QED BY <4>1 DEF EventBacked
    <3>4. BootInv' /\ RecvedInv' /\ MainInv' /\ NoLostWakeup' /\ MutexHandedOver'
      BY <1>0, <1>3, <2>2, <2>5, <3>1
      DEF BootInv, RecvedInv, MainInv, NoLostWakeup, MutexHandedOver
    <3>5. QED BY <3>2, <3>3, <3>4 DEF IInv
  <2>6. QED BY <2>4, <2>5
<1>4. QED BY <1>1, <1>2, <1>3 DEF Deliver
-----------------------------------------------------------------------------
(***************************************************************************)
(* The thread.                                                             *)
(***************************************************************************)

\* UsartRece receives events or sleeps.
LEMMA EventRecvInv == ASSUME IInv, EventRecv PROVE IInv'
<1>0. TypeOK /\ BootInv /\ RecvedInv /\ MainInv
      /\ EventBacked /\ NoLostWakeup /\ MutexHandedOver
  BY DEF IInv
<1>1. TypeOK'
  BY <1>0 DEF EventRecv, TypeOK, event, task, ReceLabel
<1>2. EventBacked'
  <2>1. ASSUME NEW p \in Port PROVE Claims(p)' <= Claims(p) /\ Claims(p)' \in Nat /\ Claims(p) \in Nat
    <3>1. CASE evset = {}
      BY <3>1 DEF EventRecv, event, Claims
    <3>2. CASE evset # {}
      BY <3>2 DEF EventRecv, event, Claims
    <3>3. QED BY <3>1, <3>2
  <2>2. UNCHANGED queue
    BY DEF EventRecv
  <2>3. \A p \in Port : Len(queue[p]) \in Nat
    BY <1>0 DEF TypeOK
  <2>4. QED BY <1>0, <2>1, <2>2, <2>3 DEF EventBacked
<1>3. BootInv' /\ RecvedInv' /\ MainInv' /\ NoLostWakeup' /\ MutexHandedOver'
  BY <1>0 DEF EventRecv, event, BootInv, RecvedInv, MainInv, NoLostWakeup, MutexHandedOver
<1>4. QED BY <1>1, <1>2, <1>3 DEF IInv

\* It serves the next of them.
LEMMA SwitchEventInv == ASSUME IInv, SwitchEvent PROVE IInv'
<1>0. TypeOK /\ BootInv /\ RecvedInv /\ MainInv
      /\ EventBacked /\ NoLostWakeup /\ MutexHandedOver
  BY DEF IInv
<1>1. TypeOK'
  BY <1>0 DEF SwitchEvent, TypeOK, task, ReceLabel
<1>2. EventBacked'
  <2>1. ASSUME NEW p \in Port PROVE Claims(p)' <= Claims(p) /\ Claims(p)' \in Nat /\ Claims(p) \in Nat
    BY DEF SwitchEvent, Claims
  <2>2. UNCHANGED queue
    BY DEF SwitchEvent
  <2>3. \A p \in Port : Len(queue[p]) \in Nat
    BY <1>0 DEF TypeOK
  <2>4. QED BY <1>0, <2>1, <2>2, <2>3 DEF EventBacked
<1>3. BootInv' /\ RecvedInv' /\ MainInv' /\ NoLostWakeup' /\ MutexHandedOver'
  BY <1>0 DEF SwitchEvent, Handled, BootInv, RecvedInv, MainInv, NoLostWakeup, MutexHandedOver
<1>4. QED BY <1>1, <1>2, <1>3 DEF IInv

\* Taking the message honours the claim of the received event.
LEMMA MqRecvInv == ASSUME IInv, NEW p \in Port, MqRecv(p) PROVE IInv'
<1>0. TypeOK /\ BootInv /\ RecvedInv /\ MainInv
      /\ EventBacked /\ NoLostWakeup /\ MutexHandedOver
  BY DEF IInv
<1>1. \A q \in Port : Len(queue[q]) \in Nat /\ Len(queue[q]) <= QueueCap
  BY <1>0 DEF TypeOK
<1>2. queue[p] # <<>> /\ Len(queue[p]) >= 1
  <2>1. Claims(p) >= 1
    BY DEF MqRecv, Claims
  <2>2. Claims(p) \in Nat
    BY DEF Claims
  <2>3. Len(queue[p]) >= 1
    BY <1>0, <1>1, <2>1, <2>2 DEF EventBacked
  <2>4. QED BY <2>3
<1>3. /\ taken' = Head(queue[p]) /\ pc' = "free" /\ queue' = [queue EXCEPT ![p] = Tail(@)]
      /\ UNCHANGED <<idle, evset, recved, receCarSta, codeS, taskStart, main, awaited, owner, iapFlag>>
  BY <1>2 DEF MqRecv, event, task
<1>4. /\ queue' \in [Port -> Seq(Frame)]
      /\ \A q \in Port \ {p} : queue'[q] = queue[q]
      /\ Len(queue'[p]) = Len(queue[p]) - 1
      /\ Head(queue[p]) \in Frame
  <2>1. queue \in [Port -> Seq(Frame)]
    BY <1>0 DEF TypeOK
  <2>2. Tail(queue[p]) \in Seq(Frame) /\ Len(Tail(queue[p])) = Len(queue[p]) - 1
        /\ Head(queue[p]) \in Frame
    BY <1>2, <2>1
  <2>3. QED BY <1>3, <2>1, <2>2
<1>5. TypeOK'
  <2>1. \A q \in Port : Len(queue'[q]) <= QueueCap
    BY <1>1, <1>4, QueueCapAssumption
  <2>2. QED BY <1>0, <1>3, <1>4, <2>1 DEF TypeOK, ReceLabel
<1>6. EventBacked'
  <2>1. ASSUME NEW q \in Port PROVE Claims(q)' <= Len(queue'[q])
    <3>1. Claims(q) <= Len(queue[q])
      BY <1>0 DEF EventBacked
    <3>2. CASE q = p
      <4>1. Claims(p) = Claims(p)' + 1 /\ Claims(p)' \in Nat
        BY <1>3 DEF MqRecv, Claims
      <4>2. QED BY <1>1, <1>4, <3>1, <3>2, <4>1
    <3>3. CASE q # p
      <4>1. Claims(q)' <= Claims(q) /\ Claims(q)' \in Nat /\ Claims(q) \in Nat
        BY <1>3 DEF Claims
      <4>2. QED BY <1>1, <1>4, <3>1, <3>3, <4>1
    <3>4. QED BY <3>2, <3>3
  <2>2. QED BY <2>1 DEF EventBacked
<1>7. BootInv' /\ RecvedInv' /\ MainInv' /\ NoLostWakeup' /\ MutexHandedOver'
  BY <1>0, <1>3 DEF MqRecv, BootInv, RecvedInv, MainInv, NoLostWakeup, MutexHandedOver
<1>8. QED BY <1>5, <1>6, <1>7 DEF IInv

(***************************************************************************)
(* A step that leaves the queues and the events alone, and the thread      *)
(* neither before the handling of an event nor brought there, disturbs     *)
(* nothing but types and the mutex.                                        *)
(***************************************************************************)
LEMMA ClaimsKept ==
  ASSUME EventBacked, UNCHANGED <<queue, evset>>,
         pc' \in {"switch", "mq"} => pc' = pc /\ recved' = recved,
         TypeOK
  PROVE  EventBacked'
<1>1. ASSUME NEW p \in Port PROVE Claims(p)' <= Claims(p) /\ Claims(p)' \in Nat /\ Claims(p) \in Nat
  BY DEF Claims
<1>2. \A p \in Port : Len(queue[p]) \in Nat
  BY DEF TypeOK
<1>3. QED BY <1>1, <1>2 DEF EventBacked

\* A handler works on its buffer.
LEMMA HandleInv ==
  ASSUME IInv, MqFree \/ ReceCarState_Wire \/ ReceTaskCode_Mult \/ BlueEcho
  PROVE  IInv'
<1>0. TypeOK /\ BootInv /\ RecvedInv /\ MainInv
      /\ EventBacked /\ NoLostWakeup /\ MutexHandedOver
  BY DEF IInv
<1>1. CASE MqFree
  <2>1. TypeOK'
    BY <1>0, <1>1 DEF MqFree, TypeOK, event, task, ReceLabel, MainLabel
  <2>2. EventBacked'
    BY <1>0, <1>1, ClaimsKept DEF MqFree, event
  <2>3. BootInv' /\ RecvedInv' /\ MainInv' /\ NoLostWakeup' /\ MutexHandedOver'
    BY <1>0, <1>1, NullAssumption
    DEF MqFree, event, task, BootInv, RecvedInv, MainInv, NoLostWakeup, MutexHandedOver
  <2>4. QED BY <2>1, <2>2, <2>3 DEF IInv
<1>2. CASE ReceCarState_Wire
  <2>1. TypeOK'
    BY <1>0, <1>2, FrameFields DEF ReceCarState_Wire, Loop, TypeOK, event, task, ReceLabel, MainLabel
  <2>2. EventBacked'
    BY <1>0, <1>2, ClaimsKept DEF ReceCarState_Wire, Loop, event
  <2>3. BootInv' /\ RecvedInv' /\ MainInv' /\ NoLostWakeup' /\ MutexHandedOver'
    BY <1>0, <1>2, NullAssumption
    DEF ReceCarState_Wire, Loop, event, task, BootInv, RecvedInv, MainInv, NoLostWakeup, MutexHandedOver
  <2>4. QED BY <2>1, <2>2, <2>3 DEF IInv
<1>3. CASE ReceTaskCode_Mult
  <2>1. TypeOK'
    BY <1>0, <1>3, FrameFields DEF ReceTaskCode_Mult, Loop, CodeFound, TypeOK, event, task, ReceLabel, MainLabel
  <2>2. EventBacked'
    BY <1>0, <1>3, ClaimsKept DEF ReceTaskCode_Mult, Loop, CodeFound, event
  <2>3. BootInv' /\ RecvedInv' /\ MainInv' /\ NoLostWakeup' /\ MutexHandedOver'
    BY <1>0, <1>3, NullAssumption
    DEF ReceTaskCode_Mult, Loop, CodeFound, event, task, BootInv, RecvedInv, MainInv, NoLostWakeup, MutexHandedOver
  <2>4. QED BY <2>1, <2>2, <2>3 DEF IInv
<1>4. CASE BlueEcho
  <2>1. TypeOK'
    BY <1>0, <1>4, FrameFields DEF BlueEcho, Loop, TypeOK, event, task, ReceLabel, MainLabel
  <2>2. EventBacked'
    BY <1>0, <1>4, ClaimsKept DEF BlueEcho, Loop, event
  <2>3. BootInv' /\ RecvedInv' /\ MainInv' /\ NoLostWakeup' /\ MutexHandedOver'
    BY <1>0, <1>4, NullAssumption
    DEF BlueEcho, Loop, event, task, BootInv, RecvedInv, MainInv, NoLostWakeup, MutexHandedOver
  <2>4. QED BY <2>1, <2>2, <2>3 DEF IInv
<1>5. QED BY <1>1, <1>2, <1>3, <1>4

\* A Bluetooth command moves the arm.
LEMMA MotionInv ==
  ASSUME IInv, BlueMotion \/ BlueMotionEnd
  PROVE  IInv'
<1>0. TypeOK /\ BootInv /\ RecvedInv /\ MainInv
      /\ EventBacked /\ NoLostWakeup /\ MutexHandedOver
  BY DEF IInv
<1>1. CASE BlueMotion
  <2>1. TypeOK'
    BY <1>0, <1>1 DEF BlueMotion, ReceRuns, TypeOK, event, task, ReceLabel, MainLabel
  <2>2. EventBacked'
    BY <1>0, <1>1, ClaimsKept DEF BlueMotion, ReceRuns, event
  <2>3. BootInv' /\ RecvedInv' /\ MainInv' /\ NoLostWakeup' /\ MutexHandedOver'
    BY <1>0, <1>1, NullAssumption
    DEF BlueMotion, ReceRuns, event, task, TypeOK, BootInv, RecvedInv, MainInv, NoLostWakeup, MutexHandedOver
  <2>4. QED BY <2>1, <2>2, <2>3 DEF IInv
<1>2. CASE BlueMotionEnd
  <2>1. TypeOK'
    BY <1>0, <1>2, FrameFields DEF BlueMotionEnd, Loop, TypeOK, event, task, ReceLabel, MainLabel
  <2>2. EventBacked'
    BY <1>0, <1>2, ClaimsKept DEF BlueMotionEnd, Loop, event
  <2>3. BootInv' /\ RecvedInv' /\ MainInv' /\ NoLostWakeup' /\ MutexHandedOver'
    BY <1>0, <1>2, NullAssumption
    DEF BlueMotionEnd, Loop, event, task, BootInv, RecvedInv, MainInv, NoLostWakeup, MutexHandedOver
  <2>4. QED BY <2>1, <2>2, <2>3 DEF IInv
<1>3. QED BY <1>1, <1>2

\* The keys.
LEMMA KeyInv ==
  ASSUME IInv, KeyShort \/ KeyTaskStart \/ KeyPersist
  PROVE  IInv'
<1>0. TypeOK /\ BootInv /\ RecvedInv /\ MainInv
      /\ EventBacked /\ NoLostWakeup /\ MutexHandedOver
  BY DEF IInv
<1>1. CASE KeyShort
  <2>1. TypeOK'
    BY <1>0, <1>1 DEF KeyShort, TypeOK, event, task, ReceLabel, MainLabel
  <2>2. EventBacked'
    BY <1>0, <1>1, ClaimsKept DEF KeyShort, event
  <2>3. BootInv' /\ RecvedInv' /\ MainInv' /\ NoLostWakeup' /\ MutexHandedOver'
    BY <1>0, <1>1, NullAssumption
    DEF KeyShort, event, task, BootInv, RecvedInv, MainInv, NoLostWakeup, MutexHandedOver, KeyRuns
  <2>4. QED BY <2>1, <2>2, <2>3 DEF IInv
<1>2. CASE KeyTaskStart
  <2>1. TypeOK'
    BY <1>0, <1>2 DEF KeyTaskStart, TypeOK, event, task, ReceLabel, MainLabel
  <2>2. EventBacked'
    BY <1>0, <1>2, ClaimsKept DEF KeyTaskStart, event
  <2>3. BootInv' /\ RecvedInv' /\ MainInv' /\ NoLostWakeup' /\ MutexHandedOver'
    BY <1>0, <1>2, NullAssumption
    DEF KeyTaskStart, event, task, BootInv, RecvedInv, MainInv, NoLostWakeup, MutexHandedOver, KeyRuns
  <2>4. QED BY <2>1, <2>2, <2>3 DEF IInv
<1>3. CASE KeyPersist
  <2>1. TypeOK'
    BY <1>0, <1>3 DEF KeyPersist, TypeOK, event, task, ReceLabel, MainLabel
  <2>2. EventBacked'
    BY <1>0, <1>3, ClaimsKept DEF KeyPersist, event
  <2>3. BootInv' /\ RecvedInv' /\ MainInv' /\ NoLostWakeup' /\ MutexHandedOver'
    BY <1>0, <1>3, NullAssumption
    DEF KeyPersist, event, task, BootInv, RecvedInv, MainInv, NoLostWakeup, MutexHandedOver, KeyRuns
  <2>4. QED BY <2>1, <2>2, <2>3 DEF IInv
<1>4. QED BY <1>1, <1>2, <1>3

\* MainCtrl takes and releases the mutex.
LEMMA MainCtrlInv ==
  ASSUME IInv, MainCtrl
  PROVE  IInv'
<1>0. TypeOK /\ BootInv /\ RecvedInv /\ MainInv
      /\ EventBacked /\ NoLostWakeup /\ MutexHandedOver
  BY DEF IInv
<1>1. CASE MainConsume
  <2>1. TypeOK'
    BY <1>0, <1>1 DEF MainConsume, TypeOK, event, task, ReceLabel, MainLabel
  <2>2. EventBacked'
    BY <1>0, <1>1, ClaimsKept DEF MainConsume, event
  <2>3. BootInv' /\ RecvedInv' /\ MainInv' /\ NoLostWakeup' /\ MutexHandedOver'
    BY <1>0, <1>1, NullAssumption
    DEF MainConsume, event, task, BootInv, RecvedInv, MainInv, NoLostWakeup, MutexHandedOver, MainRuns
  <2>4. QED BY <2>1, <2>2, <2>3 DEF IInv
<1>2. CASE MainRestart
  <2>1. TypeOK'
    BY <1>0, <1>2 DEF MainRestart, TypeOK, event, task, ReceLabel, MainLabel
  <2>2. EventBacked'
    BY <1>0, <1>2, ClaimsKept DEF MainRestart, event
  <2>3. BootInv' /\ RecvedInv' /\ MainInv' /\ NoLostWakeup' /\ MutexHandedOver'
    BY <1>0, <1>2, NullAssumption
    DEF MainRestart, event, task, BootInv, RecvedInv, MainInv, NoLostWakeup, MutexHandedOver, MainRuns
  <2>4. QED BY <2>1, <2>2, <2>3 DEF IInv
<1>3. CASE MainAwait
  <2>1. TypeOK'
    BY <1>0, <1>3 DEF MainAwait, TypeOK, event, task, ReceLabel, MainLabel
  <2>2. EventBacked'
    BY <1>0, <1>3, ClaimsKept DEF MainAwait, event
  <2>3. BootInv' /\ RecvedInv' /\ MainInv' /\ NoLostWakeup' /\ MutexHandedOver'
    BY <1>0, <1>3, NullAssumption
    DEF MainAwait, event, task, BootInv, RecvedInv, MainInv, NoLostWakeup, MutexHandedOver, MainRuns
  <2>4. QED BY <2>1, <2>2, <2>3 DEF IInv
<1>4. CASE MainGoOn
  <2>1. TypeOK'
    BY <1>0, <1>4 DEF MainGoOn, TypeOK, event, task, ReceLabel, MainLabel
  <2>2. EventBacked'
    BY <1>0, <1>4, ClaimsKept DEF MainGoOn, event
  <2>3. BootInv' /\ RecvedInv' /\ MainInv' /\ NoLostWakeup' /\ MutexHandedOver'
    BY <1>0, <1>4, NullAssumption
    DEF MainGoOn, event, task, BootInv, RecvedInv, MainInv, NoLostWakeup, MutexHandedOver, MainRuns
  <2>4. QED BY <2>1, <2>2, <2>3 DEF IInv
<1>5. CASE MainDelay
  <2>1. TypeOK'
    BY <1>0, <1>5 DEF MainDelay, TypeOK, event, task, ReceLabel, MainLabel
  <2>2. EventBacked'
    BY <1>0, <1>5, ClaimsKept DEF MainDelay, event
  <2>3. BootInv' /\ RecvedInv' /\ MainInv' /\ NoLostWakeup' /\ MutexHandedOver'
    BY <1>0, <1>5, NullAssumption
    DEF MainDelay, event, task, BootInv, RecvedInv, MainInv, NoLostWakeup, MutexHandedOver, MainRuns
  <2>4. QED BY <2>1, <2>2, <2>3 DEF IInv
<1>6. CASE MainWake
  <2>1. TypeOK'
    BY <1>0, <1>6 DEF MainWake, TypeOK, event, task, ReceLabel, MainLabel
  <2>2. EventBacked'
    BY <1>0, <1>6, ClaimsKept DEF MainWake, event
  <2>3. BootInv' /\ RecvedInv' /\ MainInv' /\ NoLostWakeup' /\ MutexHandedOver'
    BY <1>0, <1>6, NullAssumption
    DEF MainWake, event, task, BootInv, RecvedInv, MainInv, NoLostWakeup, MutexHandedOver, MainRuns
  <2>4. QED BY <2>1, <2>2, <2>3 DEF IInv
<1>7. CASE MainTake
  <2>1. TypeOK'
    BY <1>0, <1>7 DEF MainTake, TypeOK, event, task, ReceLabel, MainLabel
  <2>2. EventBacked'
    BY <1>0, <1>7, ClaimsKept DEF MainTake, event
  <2>3. BootInv' /\ RecvedInv' /\ MainInv' /\ NoLostWakeup' /\ MutexHandedOver'
    BY <1>0, <1>7, NullAssumption
    DEF MainTake, event, task, TypeOK, BootInv, RecvedInv, MainInv, NoLostWakeup, MutexHandedOver, MainRuns
  <2>4. QED BY <2>1, <2>2, <2>3 DEF IInv
<1>8. CASE MainRelease
  <2>1. TypeOK'
    BY <1>0, <1>8 DEF MainRelease, TypeOK, event, task, ReceLabel, MainLabel
  <2>2. EventBacked'
    BY <1>0, <1>8, ClaimsKept DEF MainRelease, event
  <2>3. BootInv' /\ RecvedInv' /\ MainInv' /\ NoLostWakeup' /\ MutexHandedOver'
    BY <1>0, <1>8, NullAssumption
    DEF MainRelease, event, task, BootInv, RecvedInv, MainInv, NoLostWakeup, MutexHandedOver, MainRuns
  <2>4. QED BY <2>1, <2>2, <2>3 DEF IInv
<1>9. QED BY <1>1, <1>2, <1>3, <1>4, <1>5, <1>6, <1>7, <1>8 DEF MainCtrl

\* The start-up goes on.
LEMMA BootStepInv ==
  ASSUME IInv, SchedulerStart \/ CreateObjects \/ \E p \in Port : LineIdle(p)
  PROVE  IInv'
<1>0. TypeOK /\ BootInv /\ RecvedInv /\ MainInv
      /\ EventBacked /\ NoLostWakeup /\ MutexHandedOver
  BY DEF IInv
<1>1. CASE SchedulerStart
  <2>1. TypeOK'
    BY <1>0, <1>1 DEF SchedulerStart, TypeOK, event, task, ReceLabel, MainLabel
  <2>2. EventBacked'
    BY <1>0, <1>1, ClaimsKept DEF SchedulerStart, event
  <2>3. BootInv' /\ RecvedInv' /\ MainInv' /\ NoLostWakeup' /\ MutexHandedOver'
    BY <1>0, <1>1, NullAssumption
    DEF SchedulerStart, event, task, BootInv, RecvedInv, MainInv, NoLostWakeup, MutexHandedOver
  <2>4. QED BY <2>1, <2>2, <2>3 DEF IInv
<1>2. CASE CreateObjects
  <2>1. TypeOK'
    BY <1>0, <1>2 DEF CreateObjects, TypeOK, event, task, ReceLabel, MainLabel
  <2>2. EventBacked'
    BY <1>0, <1>2, ClaimsKept DEF CreateObjects, event
  <2>3. BootInv' /\ RecvedInv' /\ MainInv' /\ NoLostWakeup' /\ MutexHandedOver'
    BY <1>0, <1>2, NullAssumption
    DEF CreateObjects, event, task, BootInv, RecvedInv, MainInv, NoLostWakeup, MutexHandedOver
  <2>4. QED BY <2>1, <2>2, <2>3 DEF IInv
<1>3. CASE \E p \in Port : LineIdle(p)
  <2>1. TypeOK'
    BY <1>0, <1>3 DEF LineIdle, TypeOK, event, task, ReceLabel, MainLabel
  <2>2. EventBacked'
    BY <1>0, <1>3, ClaimsKept DEF LineIdle, event
  <2>3. BootInv' /\ RecvedInv' /\ MainInv' /\ NoLostWakeup' /\ MutexHandedOver'
    BY <1>0, <1>3, NullAssumption
    DEF LineIdle, event, task, BootInv, RecvedInv, MainInv, NoLostWakeup, MutexHandedOver
  <2>4. QED BY <2>1, <2>2, <2>3 DEF IInv
<1>4. QED BY <1>1, <1>2, <1>3

-----------------------------------------------------------------------------
\* Every step keeps the invariant.
LEMMA NextInv == IInv /\ [Next]_vars => IInv'
<1>1. SUFFICES ASSUME IInv, [Next]_vars PROVE IInv'
  OBVIOUS
<1>2. CASE UNCHANGED vars
  BY <1>1, <1>2 DEF vars, event, task, IInv, TypeOK, BootInv, RecvedInv, MainInv, EventBacked,
     Claims, NoLostWakeup, MutexHandedOver
<1>3. CASE WatchdogReset \/ BlueUpgrade
  <2>1. Reset /\ iapFlag' \in BOOLEAN
    BY <1>1, <1>3 DEF WatchdogReset, BlueUpgrade, IInv, TypeOK
  <2>2. QED BY <2>1, ResetInv
<1>4. CASE Irq
  <2>1. PICK p \in Port : \E f \in FramesOf(p) : Deliver(p, f)
    BY <1>4 DEF Irq, USART2_IRQHandler, USART3_IRQHandler, UART4_IRQHandler, Port
  <2>2. QED BY <1>1, <2>1, DeliverInv
<1>5. CASE SchedulerStart \/ CreateObjects \/ Line
  BY <1>1, <1>5, BootStepInv DEF Line
<1>6. CASE EventRecv \/ SwitchEvent \/ (\E p \in Port : MqRecv(p))
  BY <1>1, <1>6, EventRecvInv, SwitchEventInv, MqRecvInv
<1>7. CASE MqFree \/ ReceCarState_Wire \/ ReceTaskCode_Mult \/ BlueEcho
  BY <1>1, <1>7, HandleInv
<1>8. CASE BlueMotion \/ BlueMotionEnd
  BY <1>1, <1>8, MotionInv
<1>9. CASE Key
  BY <1>1, <1>9, KeyInv DEF Key
<1>10. CASE MainCtrl
  BY <1>1, <1>10, MainCtrlInv
<1>11. QED
  BY <1>1, <1>2, <1>3, <1>4, <1>5, <1>6, <1>7, <1>8, <1>9, <1>10
  DEF Next, Boot, ReceThread, MotorSteeringCtrl_BT

\* The strengthened invariant holds in every state of the receive path.
THEOREM Invariance == Spec => []IInv
<1>1. QED BY InitInv, NextInv, PTL DEF Spec

(***************************************************************************)
(* Types, and no queue ever beyond its capacity: UsartRece_thread_entry    *)
(* and the interrupt handlers.                                             *)
(***************************************************************************)
THEOREM TypeCorrect == Spec => []TypeOK
<1>1. IInv => TypeOK
  BY DEF IInv
<1>2. QED BY <1>1, Invariance, PTL

(***************************************************************************)
(* ReceCarState_Wire, ReceTaskCode_Mult and MotorSteeringCtrl_BT never     *)
(* read an empty queue, hence never parse an uninitialised ReceBuf.        *)
(***************************************************************************)
THEOREM BufferFilled == Spec => []ReceBufFilled
<1>1. IInv => ReceBufFilled
  <2>1. SUFFICES ASSUME IInv, NEW p \in Port, pc = "mq", recved = {p} PROVE queue[p] # <<>>
    BY DEF ReceBufFilled
  <2>2. Claims(p) >= 1 /\ Claims(p) \in Nat
    BY <2>1 DEF Claims
  <2>3. Claims(p) <= Len(queue[p]) /\ Len(queue[p]) \in Nat
    BY <2>1 DEF IInv, EventBacked, TypeOK
  <2>4. Len(queue[p]) >= 1
    BY <2>2, <2>3
  <2>5. QED BY <2>4
<1>2. QED BY <1>1, Invariance, PTL

(***************************************************************************)
(* An event that is up, or received and not yet served, has a message of   *)
(* its own, although rt_mq_send drops messages when a queue is full.       *)
(***************************************************************************)
THEOREM EventsBacked == Spec => []EventBacked
<1>1. IInv => EventBacked
  BY DEF IInv
<1>2. QED BY <1>1, Invariance, PTL

(***************************************************************************)
(* rt_event_recv never leaves the thread asleep on an event that is up.    *)
(***************************************************************************)
THEOREM NoWakeupLost == Spec => []NoLostWakeup
<1>1. IInv => NoLostWakeup
  BY DEF IInv
<1>2. QED BY <1>1, Invariance, PTL

(***************************************************************************)
(* Action_mux belongs to the thread that moves the arm and is handed over  *)
(* when it is released.                                                    *)
(***************************************************************************)
THEOREM MutexCorrect == Spec => []MutexHandedOver
<1>1. IInv => MutexHandedOver
  BY DEF IInv
<1>2. QED BY <1>1, Invariance, PTL

(***************************************************************************)
(* rt_mutex_take returns to MainCtrl with the mutex: rt_thread_resume of   *)
(* KeyControlTask never cuts the wait short.                               *)
(***************************************************************************)
THEOREM TakeReturnsOwner == Spec => TakenWithMutex
<1>1. IInv /\ [Next]_vars
        => [main = "mutex" /\ main' # "mutex"
              => owner' = "MainCtrl" \/ pc' = "board"]_vars
  <2>1. SUFFICES ASSUME IInv, Next, main = "mutex", main' # "mutex", pc' # "board"
                 PROVE  owner' = "MainCtrl"
    OBVIOUS
  <2>2. pc = "motion"
    BY <2>1 DEF IInv, MutexHandedOver
  <2>3. BlueMotionEnd
    BY <2>1, <2>2
    DEF Next, Boot, SchedulerStart, CreateObjects, WatchdogReset, Reset, Line, LineIdle,
        Irq, USART2_IRQHandler, USART3_IRQHandler, UART4_IRQHandler, Deliver,
        ReceThread, EventRecv, SwitchEvent, MqRecv, MqFree, ReceCarState_Wire,
        ReceTaskCode_Mult, MotorSteeringCtrl_BT, BlueMotion, BlueUpgrade, BlueEcho,
        Key, KeyShort, KeyTaskStart, KeyPersist, KeyRuns, MainCtrl, MainRuns, MainConsume,
        MainRestart, MainAwait, MainGoOn, MainDelay, MainWake, MainTake, MainRelease
  <2>4. QED BY <2>1, <2>3 DEF BlueMotionEnd
<1>2. QED BY <1>1, Invariance, PTL DEF Spec, TakenWithMutex
=============================================================================
