------------------------------- MODULE Bluetooth -------------------------------
(***************************************************************************)
(* The Bluetooth port, byte by byte: UART4 receives by DMA into            *)
(* U4Buf.RecBuf, its idle interrupt queues the buffer and arms the channel *)
(* again, UsartRece answers (MotorSteeringCtrl_BT) in U4Buf.SenBuf, a      *)
(* second channel sends that buffer, and the interrupt at its end clears   *)
(* it.                                                                     *)
(*                                                                         *)
(* The hardware goes on between any two steps, also those of the handler:  *)
(* a byte may come between its look at the counter and the copy, and       *)
(* between its clearing of the buffer and the new start of the channel.    *)
(* The handlers have one interrupt priority and do not nest; no thread     *)
(* runs while one is pending.  A handler may come late, since others may   *)
(* be running.  Which message UsartRece takes when is in UsartRece, what a *)
(* command moves in Motor; here it is answered at once.                    *)
(***************************************************************************)
EXTENDS Integers, Sequences, Crc

CONSTANTS
  Frames,        \* what the peer may send, sequences of bytes other than 0
  RecLen, SenLen,  \* U4RecLen, U4SenLen
  MqSize,        \* messages Uart4_list holds
  Heights,       \* what HeightNow may be
  MaxEarly,      \* bound: frames in a row that begin before the one before is answered;
                 \* none does once UsartRece is no longer followed
  Digits(_)      \* "%d"

Byte == 0 .. 255

ASSUME LengthAssumption ==
  RecLen \in Nat \ {0} /\ SenLen \in Nat \ {0} /\ MqSize \in Nat \ {0}
  /\ MaxEarly \in Nat
ASSUME FrameAssumption == Frames \subseteq Seq(1 .. 255) \ {<<>>}

VARIABLES
  line,     \* the bytes of the peer's frame that are still to come
  recBuf,   \* U4Buf.RecBuf
  left,     \* the receiving channel's counter
  dr,       \* a byte nobody has read from UART4->DR
  idle,     \* the idle flag
  isr,      \* what UART4_IRQHandler does next
  ran,      \* history: since the buffer was cleared a byte has run into the handler
  list,     \* Uart4_list
  pc, cmd,  \* where UsartRece is, and its ReceBuf
  senBuf,   \* U4Buf.SenBuf
  chan, sent, tc,  \* the sending channel: enabled, its position, its end reached
  early,           \* how many of the peer's last frames began early
  apart, frame,    \* history: it began when all before it was dealt with, and is frame,
                   \* until the buffer is cleared
  clean, answer,   \* history: nothing was being sent when the answer was begun; all of it, if so
  right     \* history: what the channel has sent since it was started is this answer's

receiving == <<line, recBuf, left, dr, idle, isr, ran, early, frame, apart>>
sending   == <<chan, sent, tc, right>>
thread    == <<pc, cmd, answer, clean>>
vars == <<receiving, list, thread, senBuf, sending>>

Zeros(n) == [i \in 1 .. n |-> 0]
Padded(s, n) == [i \in 1 .. n |-> IF i <= Len(s) THEN s[i] ELSE 0]
\* strlen
StrLen(s) == CHOOSE n \in 0 .. Len(s) :
               (\A i \in 1 .. n : s[i] # 0) /\ (n < Len(s) => s[n + 1] = 0)
\* s written into buf from offset k on, even where that is beyond its end.
Put(buf, k, s) ==
  [i \in DOMAIN buf \cup (k + 1) .. (k + Len(s)) |->
     IF i \in (k + 1) .. (k + Len(s)) THEN s[i - k] ELSE buf[i]]
CrcBytes(s) == LET value == CRC16_CalcuValue(s) IN <<value \div 256, value % 256>>

\* The lengths of a text that SenBuf holds with its length, its check value
\* and the commas and the 0 between them.  All texts are that short: %s of a
\* command, and "Height:%d,%d".
Fitting == {n \in 0 .. SenLen : n + Len(Digits(n)) + 4 <= SenLen}
ASSUME TextAssumption ==
  /\ \A n \in Heights \cup Byte \cup 0 .. SenLen : Digits(n) \in Seq(1 .. 255)
  /\ 0 .. RecLen - 1 \subseteq Fitting
  /\ \A h \in Heights, n \in Byte : 2 + Len(Digits(h)) + Len(Digits(n)) \in Fitting

Zero == 48
Comma == <<44>>
Height == <<72>>  \* "Height:", as one byte
WithLength(s) == s \o Comma \o Digits(Len(s)) \o Comma
Answer(s) == WithLength(s) \o CrcBytes(WithLength(s))
\* The number of a command in characters, in a char.
Number(s, n) ==
  (CASE n = 1 -> s[1] - Zero
     [] n = 2 -> (s[1] - Zero) * 10 + (s[2] - Zero)
     [] n = 3 -> (s[1] - Zero) * 100 + (s[2] - Zero) * 10 + (s[3] - Zero)) % 256

Init ==
  /\ line = <<>> /\ recBuf = Zeros(RecLen) /\ left = RecLen /\ dr = <<>> /\ idle = FALSE
  /\ isr = "off" /\ ran = FALSE /\ list = <<>> /\ pc = "recv" /\ cmd = Zeros(RecLen)
  /\ senBuf = Zeros(SenLen) /\ chan = FALSE /\ sent = 0 /\ tc = FALSE /\ right = TRUE
  /\ frame = <<>> /\ apart = TRUE /\ early = 0 /\ answer = <<>> /\ clean = TRUE
-----------------------------------------------------------------------------
(***************************************************************************)
(* Reception.                                                              *)
(***************************************************************************)

Quiet == ~idle /\ isr = "off" /\ ~chan /\ (pc = "lost" \/ (pc = "recv" /\ list = <<>>))

PeerBegin ==
  /\ line = <<>>
  /\ IF Quiet THEN early' = 0 ELSE pc # "lost" /\ early < MaxEarly /\ early' = early + 1
  /\ apart' = (~idle /\ isr = "off")
  /\ \E f \in Frames : line' = f /\ frame' = IF apart' THEN f ELSE <<>>
  /\ UNCHANGED <<recBuf, left, dr, idle, isr, ran, list, thread, senBuf, sending>>

\* A byte goes into the buffer while the counter is not 0; then one stays in
\* the data register, and the others are lost.  After the last the line idles.
Received(b) ==
  IF left > 0
  THEN recBuf' = Put(recBuf, RecLen - left, <<b>>) /\ left' = left - 1 /\ UNCHANGED dr
  ELSE dr' = (IF dr = <<>> THEN <<b>> ELSE dr) /\ UNCHANGED <<recBuf, left>>

PeerByte ==
  /\ line # <<>>
  /\ Received(Head(line))
  /\ line' = Tail(line) /\ idle' = (idle \/ Len(line) = 1)
  /\ ran' = (ran \/ isr # "off")
  /\ UNCHANGED <<isr, early, frame, apart, list, thread, senBuf, sending>>

\* rt_mq_send does not wait: a full queue takes no message.
MqSend(m) == IF Len(list) < MqSize THEN Append(list, m) ELSE list

\* Mutant: the buffer is not checked for being full.
UART4_IRQHandler_Full ==
  /\ idle /\ isr = "off"
  /\ idle' = FALSE /\ dr' = <<>>
  /\ isr' = "queue"
  /\ UNCHANGED <<line, recBuf, left, ran, early, frame, apart, list, thread, senBuf, sending>>

(***************************************************************************)
(* UART4_IRQHandler.  It reads the data register, which takes the idle     *)
(* flag back, and looks at the counter: if it is 0 the buffer is not       *)
(* queued, but a line is printed.                                          *)
(***************************************************************************)
UART4_IRQHandler ==
  /\ idle /\ isr = "off"
  /\ idle' = FALSE /\ dr' = <<>>
  /\ isr' = IF left # 0 THEN "queue" ELSE "print"
  /\ UNCHANGED <<line, recBuf, left, ran, early, frame, apart, list, thread, senBuf, sending>>

UART4_Queue ==
  /\ isr = "queue" /\ isr' = "clear"
  /\ list' = MqSend(recBuf)
  /\ UNCHANGED <<line, recBuf, left, dr, idle, ran, early, frame, apart, thread, senBuf, sending>>

\* Each character is printed when everything before it has been sent.
UART4_Print ==
  /\ isr = "print" /\ (chan => tc) /\ isr' = "clear"
  /\ UNCHANGED <<line, recBuf, left, dr, idle, ran, early, frame, apart>>
  /\ UNCHANGED <<list, thread, senBuf, sending>>

\* Mutant: the buffer is not cleared.
UART4_Clear_Keep ==
  /\ isr = "clear" /\ isr' = "arm"
  /\ ran' = FALSE /\ apart' = FALSE /\ frame' = <<>>
  /\ UNCHANGED <<line, recBuf, left, dr, idle, early, list, thread, senBuf, sending>>

UART4_Clear ==
  /\ isr = "clear" /\ isr' = "arm"
  /\ recBuf' = Zeros(RecLen)
  /\ ran' = FALSE /\ apart' = FALSE /\ frame' = <<>>
  /\ UNCHANGED <<line, left, dr, idle, early, list, thread, senBuf, sending>>

\* Mutant: the channel is not armed again.
UART4_Arm_Not ==
  /\ isr = "arm" /\ isr' = "off"
  /\ UNCHANGED <<line, recBuf, left, dr, idle, ran, early, frame, apart>>
  /\ UNCHANGED <<list, thread, senBuf, sending>>

\* DMA_Transfer: the channel takes what waits in the data register.
UART4_Arm ==
  /\ isr = "arm" /\ isr' = "off"
  /\ recBuf' = Put(recBuf, 0, dr) /\ left' = RecLen - Len(dr) /\ dr' = <<>>
  /\ UNCHANGED <<line, idle, ran, early, frame, apart, list, thread, senBuf, sending>>
-----------------------------------------------------------------------------
(***************************************************************************)
(* The answer: MotorSteeringCtrl_BT in UsartRece.                          *)
(***************************************************************************)
ThreadRuns == isr = "off" /\ ~idle /\ ~tc

\* strlen goes on behind a ReceBuf without an end: from there the thread is not
\* followed ("lost").
HasEnd(m) == \E i \in 1 .. RecLen : m[i] = 0

Recv ==
  /\ ThreadRuns /\ pc = "recv" /\ list # <<>>
  /\ cmd' = Head(list) /\ list' = Tail(list)
  /\ pc' = IF ~HasEnd(cmd') THEN "lost" ELSE IF StrLen(cmd') = 0 THEN "recv" ELSE "text"
  /\ UNCHANGED <<receiving, answer, clean, senBuf, sending>>

\* Mutant: the text is written without its 0.
Text_NoEnd(s) ==
  /\ senBuf' = Put(senBuf, 0, s)
  /\ clean' = ~chan /\ answer' = (IF chan THEN <<>> ELSE Answer(s))
  /\ pc' = "length"
  /\ UNCHANGED <<receiving, cmd, list, sending>>

\* The text: what is left of an older answer stays behind its 0.
Text(s) ==
  /\ senBuf' = Put(senBuf, 0, s \o <<0>>)
  /\ clean' = ~chan /\ answer' = (IF chan THEN <<>> ELSE Answer(s))
  /\ pc' = "length"
  /\ UNCHANGED <<receiving, cmd, list, sending>>

Moved ==
  /\ ThreadRuns /\ pc = "text" /\ StrLen(cmd) < 3
  /\ \E h \in Heights : Text(Height \o Digits(h) \o Comma \o Digits(Number(cmd, StrLen(cmd))))

IsUpgrade == StrLen(cmd) = 3 /\ Number(cmd, 3) = 110

Echo ==
  /\ ThreadRuns /\ pc = "text" /\ StrLen(cmd) >= 3 /\ ~IsUpgrade
  /\ Text(SubSeq(cmd, 1, StrLen(cmd)))

\* FlashSetFlag_IAP ends in a reset, of which the peer hears nothing.
Upgrade ==
  /\ ThreadRuns /\ pc = "text" /\ IsUpgrade
  /\ line' = <<>> /\ recBuf' = Zeros(RecLen) /\ left' = RecLen /\ dr' = <<>> /\ idle' = FALSE
  /\ isr' = "off" /\ ran' = FALSE /\ list' = <<>> /\ pc' = "recv" /\ cmd' = Zeros(RecLen)
  /\ senBuf' = Zeros(SenLen) /\ chan' = FALSE /\ sent' = 0 /\ tc' = FALSE /\ right' = TRUE
  /\ frame' = <<>> /\ apart' = TRUE /\ early' = 0 /\ answer' = <<>> /\ clean' = TRUE

\* Formatting SenBuf into itself works in place.
Length ==
  /\ ThreadRuns /\ pc = "length"
  /\ LET n == StrLen(senBuf) IN senBuf' = Put(senBuf, n, Comma \o Digits(n) \o Comma \o <<0>>)
  /\ pc' = "crc"
  /\ UNCHANGED <<receiving, cmd, answer, clean, list, sending>>

\* CRC16_ModifyData
Modify ==
  /\ ThreadRuns /\ pc = "crc"
  /\ LET n == StrLen(senBuf) IN senBuf' = Put(senBuf, n, CrcBytes(SubSeq(senBuf, 1, n)))
  /\ pc' = "start"
  /\ UNCHANGED <<receiving, cmd, answer, clean, list, sending>>

\* DMA_Transfer: what was under way is broken off.
Start ==
  /\ ThreadRuns /\ pc = "start"
  /\ chan' = TRUE /\ sent' = 0 /\ right' = TRUE
  /\ pc' = "recv" /\ cmd' = Zeros(RecLen)
  /\ UNCHANGED <<receiving, answer, clean, list, senBuf, tc>>

SendByte ==
  /\ chan /\ sent < SenLen
  /\ right' = (clean => right /\ senBuf[sent + 1] = Padded(answer, SenLen)[sent + 1])
  /\ sent' = sent + 1 /\ tc' = (sent + 1 = SenLen)
  /\ UNCHANGED <<receiving, list, thread, senBuf, chan>>

\* Mutant: the buffer is not cleared.
DMA2_Keep ==
  /\ tc /\ isr = "off"
  /\ tc' = FALSE /\ chan' = FALSE
  /\ UNCHANGED <<receiving, list, thread, sent, right, senBuf>>

DMA2_Channel4_5_IRQHandler ==
  /\ tc /\ isr = "off"
  /\ tc' = FALSE /\ senBuf' = Zeros(SenLen) /\ chan' = FALSE
  /\ UNCHANGED <<receiving, list, thread, sent, right>>
-----------------------------------------------------------------------------
Handlers == \/ UART4_IRQHandler \/ UART4_Queue \/ UART4_Print \/ UART4_Clear \/ UART4_Arm
            \/ DMA2_Channel4_5_IRQHandler
UsartRece == Recv \/ Moved \/ Echo \/ Upgrade \/ Length \/ Modify \/ Start
Hardware == PeerByte \/ SendByte

Next == PeerBegin \/ Hardware \/ Handlers \/ UsartRece
Spec == Init /\ [][Next]_vars

\* Bytes under way arrive, channels send, and an interrupt is taken in time.
Fairness == WF_vars(PeerByte) /\ WF_vars(SendByte) /\ WF_vars(Handlers)
FairSpec == Spec /\ Fairness
-----------------------------------------------------------------------------
(***************************************************************************)
(* The types; nothing is written beyond the end of a buffer, whatever the  *)
(* end-of-transmission handler clears while UsartRece fills it, and        *)
(* whatever of an older answer it finds there.                             *)
(***************************************************************************)
TypeOK ==
  /\ line \in Seq(Byte) /\ frame \in Seq(Byte) /\ dr \in Seq(Byte) /\ Len(dr) <= 1
  /\ recBuf \in [1 .. RecLen -> Byte] /\ left \in 0 .. RecLen
  /\ idle \in BOOLEAN /\ isr \in {"off", "queue", "print", "clear", "arm"} /\ ran \in BOOLEAN
  /\ apart \in BOOLEAN /\ early \in 0 .. MaxEarly
  /\ list \in Seq([1 .. RecLen -> Byte]) /\ Len(list) <= MqSize
  /\ pc \in {"recv", "text", "length", "crc", "start", "lost"}
  /\ cmd \in [1 .. RecLen -> Byte] /\ answer \in Seq(Byte) /\ clean \in BOOLEAN /\ right \in BOOLEAN
  /\ senBuf \in [1 .. SenLen -> Byte]
  /\ chan \in BOOLEAN /\ sent \in 0 .. SenLen /\ tc \in BOOLEAN

(***************************************************************************)
(* What is queued has an end for strlen in MotorSteeringCtrl_BT, in        *)
(* whatever state the frames before have left the buffer, unless a byte    *)
(* has run into the handler: between its look at the counter and the copy, *)
(* or before the channel was armed for this frame.                         *)
(***************************************************************************)
Terminated == [][isr = "queue" /\ isr' = "clear" /\ ~ran => HasEnd(recBuf)]_vars

(***************************************************************************)
(* A frame that begins when the ones before it are dealt with, and ends    *)
(* before the next begins, is queued as it was sent, and not at all when   *)
(* it is too long, however the frames before it ran into each other or     *)
(* into the handler, were too long or were cut by its printing.            *)
(***************************************************************************)
FrameWhole ==
  [][/\ isr = "off" /\ isr' # "off" /\ apart => (isr' = "queue" <=> Len(frame) < RecLen)
     /\ isr = "queue" /\ isr' # "queue" /\ apart => list' = MqSend(Padded(frame, RecLen))]_vars

(***************************************************************************)
(* An answer that was begun when nothing was being sent is sent whole,     *)
(* with its length and check value and with nothing of older answers       *)
(* behind it, unless the next answer overtakes it.                         *)
(***************************************************************************)
AnswerWhole == tc /\ clean => right

(***************************************************************************)
(* An answer that was begun when nothing was being sent is handed to the   *)
(* channel with a check value: the peer, which checks as CRC16_CheckValue  *)
(* does, takes it, and takes it no more when one bit of it has been        *)
(* changed: the arithmetic shift makes another check value than the named  *)
(* polynomial's, but one that still sees that.                             *)
(***************************************************************************)
AnswerChecks ==
  [][pc = "start" /\ chan' /\ clean =>
       LET received == SubSeq(senBuf, 1, Len(answer)) IN
       /\ CRC16_CheckValue(received)
       /\ \A i \in 1 .. Len(received), k \in 9 .. 16 :
            ~CRC16_CheckValue([received EXCEPT ![i] = Xor(received[i], Weight[k])])]_vars

(***************************************************************************)
(* Reception survives a frame that is too long: the handler's printing,    *)
(* which waits for the sending channel, ends, and the channel is armed.    *)
(***************************************************************************)
OverflowRecovers == left = 0 ~> left > 0
-----------------------------------------------------------------------------
(***************************************************************************)
(* What the comments say and the code does not do.                         *)
(***************************************************************************)

(***************************************************************************)
(* Usart.c:1018, "check for overflow": a buffer that is full is not        *)
(* queued.  The counter is looked at before the copy, and the channel goes *)
(* on: a byte between the two fills the last place, and the message has no *)
(* end.                                                                    *)
(***************************************************************************)
OverflowSeen == \A i \in 1 .. Len(list) : HasEnd(list[i])

(***************************************************************************)
(* Transfer_Thread.c:205, "the given number 110 is the upgrade command":   *)
(* no other text is.  The number is kept in a char, 366 is 110 in it.      *)
(***************************************************************************)
UpgradeOnly110 == pc = "text" /\ IsUpgrade => SubSeq(cmd, 1, 3) = <<49, 49, 48>>
=============================================================================
