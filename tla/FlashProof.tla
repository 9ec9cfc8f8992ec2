----------------------------- MODULE FlashProof -----------------------------
(***************************************************************************)
(* FLASH_Write implements the store whose writes are one step, for every   *)
(* size of the flash and of its pages, and every set of writes of which    *)
(* none goes over the end of its page.                                     *)
(*                                                                         *)
(* The invariant says how far the write under way has come.  CallInv: the  *)
(* locals still describe the request, which is never split.  PageInv: of   *)
(* the page that is rewritten, what lies before i is as in FLASH_BUF and   *)
(* the rest is erased; the same of the words that are programmed alone.    *)
(* So every half-word that is programmed is erased, and what the loop      *)
(* leaves is what the request wants.                                       *)
(***************************************************************************)
EXTENDS Flash, TLAPS

Fits == \A r \in Requests : InPage(r)

\* A request is under way.
Busy == pc \in {"read", "erase", "rewrite", "program"}

CallInv ==
  /\ pgerr = FALSE
  /\ pc # "fault"
  /\ Busy => /\ locked = FALSE
             /\ secremain \in 1 .. Half /\ secoff + secremain <= Half
             /\ NumToWrite = secremain
             /\ WriteAddr = [page |-> secpos, byte |-> 2 * secoff]

PageInv ==
  /\ pc = "erase" => FLASH_BUF = mem[secpos]
  /\ pc = "rewrite" => \A o \in Offset : mem[secpos][o] = IF o < i THEN FLASH_BUF[o] ELSE Erased
  /\ pc = "program" => /\ i <= secremain
                       /\ \A w \in 0 .. secremain - 1 :
                            mem[secpos][secoff + w] = IF w < i THEN pBuffer[w] ELSE Erased

Inv == TypeOK /\ CallInv /\ PageInv
-----------------------------------------------------------------------------
\* What a change of one half-word, or of a page, does to the flash.
LEMMA CellChanged ==
  ASSUME mem \in [Page -> [Offset -> Value]], NEW p \in Page, NEW o \in Offset, NEW v \in Value,
         mem' = [mem EXCEPT ![p][o] = v]
  PROVE  /\ mem' \in [Page -> [Offset -> Value]]
         /\ mem'[p][o] = v
         /\ \A e \in Offset \ {o} : mem'[p][e] = mem[p][e]
         /\ \A q \in Page \ {p} : mem'[q] = mem[q]
<1>1. mem[p] \in [Offset -> Value]
  OBVIOUS
<1>2. mem' = [mem EXCEPT ![p] = [mem[p] EXCEPT ![o] = v]]
  OBVIOUS
<1>3. [mem[p] EXCEPT ![o] = v] \in [Offset -> Value]
  BY <1>1
<1> QED BY <1>1, <1>2, <1>3

\* A function of pages that is changed in one of them.
LEMMA PageChanged ==
  ASSUME mem \in [Page -> [Offset -> Value]], NEW p \in Page, NEW page \in [Offset -> Value],
         mem' = [mem EXCEPT ![p] = page]
  PROVE  /\ mem' \in [Page -> [Offset -> Value]]
         /\ mem'[p] = page
         /\ \A q \in Page \ {p} : mem'[q] = mem[q]
OBVIOUS

\* A half-word that is erased takes what is programmed.
LEMMA Programs ==
  ASSUME NEW p, NEW o, NEW v, Ready, mem[p][o] = Erased, ProgramHalfWord(p, o, v)
  PROVE  mem' = [mem EXCEPT ![p][o] = v] /\ pgerr' = pgerr
BY DEF ProgramHalfWord

\* In a write that stays in its page, a word that is programmed alone is in
\* that page, at an even address.
LEMMA ProgramsInPage ==
  ASSUME Inv, Program
  PROVE  /\ i \in 0 .. secremain - 1 /\ secoff + i \in Offset
         /\ mem' = [mem EXCEPT ![secpos][secoff + i] = pBuffer[i]]
         /\ pgerr' = pgerr /\ i' = i + 1 /\ pc' = pc
         /\ UNCHANGED <<locked, locals>>
<1> DEFINE b == WriteAddr.byte + 2 * i
           over == b >= SECTOR_SIZE
           p == IF over THEN WriteAddr.page + 1 ELSE WriteAddr.page
           o == (IF over THEN b - SECTOR_SIZE ELSE b) \div 2
<1>1. /\ pc = "program" /\ i < secremain /\ i \in Nat /\ secoff \in Nat /\ secremain \in Nat
      /\ secoff + secremain <= Half /\ Half \in Nat /\ secpos \in Page
      /\ WriteAddr.page = secpos /\ WriteAddr.byte = 2 * secoff
      /\ Ready
  BY FlashAssumption DEF Inv, TypeOK, CallInv, Busy, Program, Ready, Offset
<1>2. b = 2 * (secoff + i) /\ ~over
  BY <1>1 DEF SECTOR_SIZE
<1>3. b % 2 = 0 /\ b \div 2 = secoff + i
  BY <1>1, <1>2
<1>4. p = secpos /\ o = secoff + i
  BY <1>1, <1>2, <1>3
<1>5. i \in 0 .. secremain - 1 /\ secoff + i \in Offset
  BY <1>1 DEF Offset
<1>6. mem[p][o] = Erased
  BY <1>1, <1>4, <1>5 DEF Inv, PageInv
<1>7. ProgramHalfWord(p, o, pBuffer[i]) /\ i' = i + 1 /\ pc' = pc /\ UNCHANGED <<locked, locals>>
  BY <1>1, <1>3, <1>4 DEF Program
<1> QED BY <1>1, <1>4, <1>5, <1>6, <1>7, Programs

\* So does every half-word of a page that is rewritten.
LEMMA Rewrites ==
  ASSUME Inv, Rewrite
  PROVE  /\ i \in Offset
         /\ mem' = [mem EXCEPT ![secpos][i] = FLASH_BUF[i]]
         /\ pgerr' = pgerr /\ i' = i + 1
         /\ UNCHANGED <<locked, pc, locals>>
<1>1. pc = "rewrite" /\ i \in Offset /\ Ready
  BY FlashAssumption DEF Inv, TypeOK, CallInv, Busy, Rewrite, Ready, Offset
<1>2. mem[secpos][i] = Erased
  BY <1>1, FlashAssumption DEF Inv, PageInv, Offset
<1> QED BY <1>1, <1>2, Programs DEF Rewrite

\* What a restart leaves of the state.
LEMMA Restarted ==
  ASSUME Restart, mem' \in [Page -> [Offset -> Value]]
  PROVE  Inv'
<1>1. 0 \in Page /\ 0 \in Offset /\ 0 \in 0 .. SECTOR_SIZE - 1 /\ 0 \in Value
  BY FlashAssumption DEF Page, Offset, SECTOR_SIZE
<1>2. pBuffer' \in [0 .. NumToWrite' - 1 -> Value]
  <2>1. 0 .. NumToWrite' - 1 = {}
    BY DEF Restart
  <2> QED BY <2>1 DEF Restart
<1>3. TypeOK'
  <2>1. FLASH_BUF' \in [Offset -> Value]
    BY <1>1 DEF Restart
  <2>2. WriteAddr' \in [page : Page, byte : 0 .. SECTOR_SIZE - 1]
    BY <1>1 DEF Restart
  <2>3. locked' \in BOOLEAN /\ pgerr' \in BOOLEAN
    BY DEF Restart
  <2>4. secremain' \in 0 .. Half /\ i' \in 0 .. Half /\ NumToWrite' \in Nat
    BY FlashAssumption DEF Restart
  <2>5. secpos' \in Page /\ secoff' \in Offset /\ pc' = "idle"
    BY <1>1 DEF Restart
  <2> QED BY <1>2, <2>1, <2>2, <2>3, <2>4, <2>5 DEF TypeOK
<1> QED BY <1>3 DEF Restart, Inv, CallInv, PageInv, Busy

\* A step of the power failing loses at most what is at stake.
LEMMA Lost ==
  ASSUME Inv, PowerLoss
  PROVE  /\ mem' \in [Page -> [Offset -> Value]]
         /\ \A p \in Page, o \in Offset : mem'[p][o] = mem[p][o] \/ <<p, o>> \in AtStake
<1> USE DEF Inv, TypeOK
<1>1. CASE UNCHANGED mem
  BY <1>1
<1>2. CASE pc = "erase" /\ \E page \in [Offset -> Value] : mem' = [mem EXCEPT ![secpos] = page]
  <2>1. AtStake = {secpos} \X Offset
    BY <1>2 DEF AtStake
  <2> QED BY <1>2, <2>1, PageChanged
<1>3. CASE /\ pc = "rewrite" /\ i < Half
           /\ \E v \in Value : mem' = [mem EXCEPT ![secpos][i] = v]
  <2>1. AtStake = {secpos} \X Offset
    BY <1>3 DEF AtStake
  <2>2. i \in Offset
    BY <1>3, FlashAssumption DEF Offset
  <2> QED BY <1>3, <2>1, <2>2, CellChanged
<1>4. CASE /\ pc = "program" /\ i < secremain
           /\ \E v \in Value :
                mem' = [mem EXCEPT ![WriteAddr.page][(WriteAddr.byte + 2 * i) \div 2] = v]
  <2>1. AtStake = Words
    BY <1>4 DEF AtStake
  <2>2. WriteAddr = [page |-> secpos, byte |-> 2 * secoff] /\ secoff + secremain <= Half
    BY <1>4 DEF CallInv, Busy
  <2>3. /\ WriteAddr.page = secpos /\ WriteAddr.byte + 2 * i = 2 * (secoff + i)
        /\ secoff + i \in secoff .. secoff + secremain - 1 /\ secoff + i \in Offset
    BY <1>4, <2>2, FlashAssumption DEF Offset
  <2>4. (2 * (secoff + i)) \div 2 = secoff + i
    BY <2>3 DEF Offset
  <2>5. PICK v \in Value : mem' = [mem EXCEPT ![secpos][secoff + i] = v]
    BY <1>4, <2>3, <2>4
  <2>6. <<secpos, secoff + i>> \in AtStake
    BY <2>1, <2>3 DEF Words
  <2>7. /\ mem' \in [Page -> [Offset -> Value]]
        /\ \A e \in Offset \ {secoff + i} : mem'[secpos][e] = mem[secpos][e]
        /\ \A q \in Page \ {secpos} : mem'[q] = mem[q]
    BY <2>3, <2>5, CellChanged
  <2>8. ASSUME NEW p \in Page, NEW o \in Offset, <<p, o>> # <<secpos, secoff + i>>
        PROVE  mem'[p][o] = mem[p][o]
    BY <2>7, <2>8
  <2> QED BY <2>6, <2>7, <2>8
<1> QED BY <1>1, <1>2, <1>3, <1>4 DEF PowerLoss
-----------------------------------------------------------------------------
\* The invariant, one action at a time.
LEMMA CallKeeps ==
  ASSUME Fits, Inv, NEW r \in Requests, Call(r)
  PROVE  Inv'
<1>1. /\ r.page \in Page /\ r.off \in Offset /\ r.num \in Nat \ {0} /\ r.off + r.num <= Half
      /\ r.data \in [0 .. r.num - 1 -> Value]
  BY FlashAssumption DEF Fits, InPage, Page, Offset
<1>2. secremain' = r.num
  BY <1>1, FlashAssumption DEF Call, Smaller, Offset
<1>3. 2 * r.off \in 0 .. SECTOR_SIZE - 1 /\ r.num \in 1 .. Half
  BY <1>1, FlashAssumption DEF SECTOR_SIZE, Offset
<1>4. WriteAddr' \in [page : Page, byte : 0 .. SECTOR_SIZE - 1]
  BY <1>1, <1>3 DEF Call
<1>5. locked' \in BOOLEAN /\ pgerr' \in BOOLEAN
  BY DEF Call, Inv, TypeOK
<1>6. TypeOK'
  BY <1>1, <1>2, <1>3, <1>4, <1>5 DEF Call, Inv, TypeOK
<1>7. CallInv'
  BY <1>1, <1>2, <1>3 DEF Call, Inv, CallInv, Busy
<1> QED BY <1>6, <1>7 DEF Call, Inv, PageInv

\* Reading the page into the buffer keeps the invariant.
LEMMA ReadKeeps ==
  ASSUME Inv, Read
  PROVE  Inv'
<1>1. /\ secpos \in Page /\ mem[secpos] \in [Offset -> Value] /\ pc' \in {"erase", "program"}
      /\ 0 \in 0 .. Half /\ pc = "read"
  BY FlashAssumption DEF Read, Inv, TypeOK
<1>2. locked' \in BOOLEAN /\ pgerr' \in BOOLEAN
  BY DEF Read, hw, Inv, TypeOK
<1>3. TypeOK'
  BY <1>1, <1>2 DEF Read, hw, Inv, TypeOK
<1>4. CallInv'
  BY <1>1 DEF Read, hw, Inv, CallInv, Busy
<1>5. PageInv'
  <2>1. CASE pc' = "erase"
    BY <2>1 DEF Read, hw, PageInv
  <2>2. CASE pc' = "program"
    <3>1. \A w \in 0 .. secremain - 1 : mem[secpos][secoff + w] = Erased
      BY <2>2 DEF Read
    <3>2. 0 <= secremain /\ secremain \in Nat
      BY FlashAssumption DEF Inv, TypeOK
    <3> QED BY <2>2, <3>1, <3>2 DEF Read, hw, PageInv
  <2> QED BY <1>1, <2>1, <2>2
<1> QED BY <1>3, <1>4, <1>5 DEF Inv

\* So does erasing it,
LEMMA EraseKeeps ==
  ASSUME Inv, Erase
  PROVE  Inv' /\ FLASH_BUF' = Patched(FLASH_BUF)
<1> DEFINE blank == [o \in Offset |-> Erased]
<1>1. /\ secpos \in Page /\ Ready /\ secoff \in Nat /\ secremain \in 1 .. Half
      /\ NumToWrite = secremain /\ Half \in Nat
  BY FlashAssumption DEF Erase, Inv, TypeOK, CallInv, Busy, Ready, Offset
<1>2. blank \in [Offset -> Value] /\ mem' = [mem EXCEPT ![secpos] = blank]
  BY <1>1, FlashAssumption DEF Erase, ErasePage
<1>3. mem' \in [Page -> [Offset -> Value]] /\ mem'[secpos] = blank
  BY <1>1, <1>2, PageChanged DEF Inv, TypeOK
<1>4. FLASH_BUF' = Patched(FLASH_BUF)
  BY DEF Erase, Patched
<1>5. FLASH_BUF' \in [Offset -> Value]
  <2>1. ASSUME NEW o \in Offset, o \in secoff .. secoff + secremain - 1
        PROVE  pBuffer[o - secoff] \in Value
    <3>1. o - secoff \in 0 .. NumToWrite - 1
      BY <1>1, <2>1 DEF Offset
    <3> QED BY <3>1 DEF Inv, TypeOK
  <2>2. ASSUME NEW o \in Offset
        PROVE  FLASH_BUF[o] \in Value
    BY DEF Inv, TypeOK
  <2> QED BY <2>1, <2>2 DEF Erase
<1>6. locked' \in BOOLEAN /\ pgerr' \in BOOLEAN
  BY DEF Erase, Inv, TypeOK
<1>7. TypeOK'
  BY <1>1, <1>3, <1>5, <1>6 DEF Erase, Inv, TypeOK
<1>8. CallInv'
  BY DEF Erase, Inv, CallInv, Busy
<1>9. PageInv'
  BY <1>3 DEF Erase, PageInv, Offset
<1> QED BY <1>4, <1>7, <1>8, <1>9 DEF Inv

\* programming it again from the buffer,
LEMMA RewriteKeeps ==
  ASSUME Inv, Rewrite
  PROVE  Inv'
<1>1. /\ i \in Offset /\ mem' = [mem EXCEPT ![secpos][i] = FLASH_BUF[i]]
      /\ pgerr' = pgerr /\ i' = i + 1 /\ UNCHANGED <<locked, pc, locals>> /\ pc = "rewrite"
  BY Rewrites DEF Rewrite
<1>2. secpos \in Page /\ FLASH_BUF[i] \in Value /\ i + 1 \in 0 .. Half
  BY <1>1, FlashAssumption DEF Inv, TypeOK, Offset
<1>3. /\ mem' \in [Page -> [Offset -> Value]] /\ mem'[secpos][i] = FLASH_BUF[i]
      /\ \A e \in Offset \ {i} : mem'[secpos][e] = mem[secpos][e]
  BY <1>1, <1>2, CellChanged DEF Inv, TypeOK
<1>4. locked' \in BOOLEAN /\ pgerr' \in BOOLEAN
  BY <1>1 DEF Inv, TypeOK
<1>5. TypeOK'
  BY <1>1, <1>2, <1>3, <1>4 DEF locals, Inv, TypeOK
<1>6. CallInv'
  BY <1>1 DEF locals, Inv, CallInv, Busy
<1>7. ASSUME NEW o \in Offset
      PROVE  mem'[secpos][o] = IF o < i + 1 THEN FLASH_BUF[o] ELSE Erased
  BY <1>1, <1>3, FlashAssumption DEF Inv, PageInv, Offset
<1>8. PageInv'
  BY <1>1, <1>7 DEF locals, PageInv
<1> QED BY <1>5, <1>6, <1>8 DEF Inv

\* and programming half-words that were erased already.
LEMMA ProgramKeeps ==
  ASSUME Inv, Program
  PROVE  Inv' /\ Patched(mem'[secpos]) = Patched(mem[secpos])
<1>1. /\ i \in 0 .. secremain - 1 /\ secoff + i \in Offset
      /\ mem' = [mem EXCEPT ![secpos][secoff + i] = pBuffer[i]]
      /\ pgerr' = pgerr /\ i' = i + 1 /\ pc' = pc /\ UNCHANGED <<locked, locals>>
      /\ pc = "program"
  BY ProgramsInPage DEF Program
<1>2. /\ secpos \in Page /\ NumToWrite = secremain /\ secremain \in 1 .. Half
      /\ secoff \in Nat /\ secoff + secremain <= Half /\ Half \in Nat
  BY <1>1, FlashAssumption DEF Inv, TypeOK, CallInv, Busy, Offset
<1>3. pBuffer[i] \in Value /\ i + 1 \in 0 .. Half /\ i + 1 <= secremain
  BY <1>1, <1>2 DEF Inv, TypeOK
<1>4. /\ mem' \in [Page -> [Offset -> Value]] /\ mem'[secpos][secoff + i] = pBuffer[i]
      /\ \A e \in Offset \ {secoff + i} : mem'[secpos][e] = mem[secpos][e]
  BY <1>1, <1>2, <1>3, CellChanged DEF Inv, TypeOK
<1>5. locked' \in BOOLEAN /\ pgerr' \in BOOLEAN
  BY <1>1 DEF Inv, TypeOK
<1>6. TypeOK'
  BY <1>1, <1>3, <1>4, <1>5 DEF locals, Inv, TypeOK
<1>7. CallInv'
  BY <1>1 DEF locals, Inv, CallInv, Busy
<1>8. ASSUME NEW w \in 0 .. secremain - 1
      PROVE  mem'[secpos][secoff + w] = IF w < i + 1 THEN pBuffer[w] ELSE Erased
  <2>1. secoff + w \in Offset
    BY <1>2 DEF Offset
  <2>2. mem[secpos][secoff + w] = IF w < i THEN pBuffer[w] ELSE Erased
    BY <1>1 DEF Inv, PageInv
  <2> QED BY <1>1, <1>2, <1>4, <2>1, <2>2
<1>9. PageInv'
  BY <1>1, <1>3, <1>8 DEF locals, PageInv
<1>10. \A o \in Offset \ (secoff .. secoff + secremain - 1) : mem'[secpos][o] = mem[secpos][o]
  BY <1>1, <1>2, <1>4
<1>11. Patched(mem'[secpos]) = Patched(mem[secpos])
  BY <1>10 DEF Patched
<1> QED BY <1>6, <1>7, <1>9, <1>11 DEF Inv

\* The write is over, and nothing is left to do in another page.
LEMMA AdvanceKeeps ==
  ASSUME Inv, Advance
  PROVE  Inv' /\ UNCHANGED <<mem, locals>> /\ pc' = "done" /\ Busy
<1>1. Busy /\ NumToWrite = secremain
  BY DEF Advance, Written, Busy, Inv, CallInv
<1>2. locked' = TRUE /\ pc' = "done" /\ UNCHANGED <<locals, mem, pgerr, i>>
  BY <1>1 DEF Advance
<1>3. locked' \in BOOLEAN /\ pgerr' \in BOOLEAN
  BY <1>2 DEF Inv, TypeOK
<1>4. TypeOK'
  BY <1>2, <1>3 DEF locals, Inv, TypeOK
<1> QED BY <1>1, <1>2, <1>4 DEF Inv, CallInv, PageInv, Busy

\* What the program has stored where it is done.
LEMMA WrittenDone ==
  ASSUME Inv, Written
  PROVE  Intent = mem[secpos]
<1>1. mem[secpos] \in [Offset -> Value] /\ FLASH_BUF \in [Offset -> Value] /\ Half \in Nat
      /\ secoff \in Nat /\ secremain \in Nat
  BY FlashAssumption DEF Inv, TypeOK, Offset
<1>2. CASE pc = "rewrite" /\ i = Half
  <2>1. Intent = FLASH_BUF
    BY <1>2 DEF Intent
  <2>2. \A o \in Offset : mem[secpos][o] = FLASH_BUF[o]
    BY <1>1, <1>2 DEF Inv, PageInv, Offset
  <2> QED BY <1>1, <2>1, <2>2
<1>3. CASE pc = "program" /\ i = secremain
  <2>1. Intent = Patched(mem[secpos])
    BY <1>3 DEF Intent
  <2>2. ASSUME NEW o \in Offset, o \in secoff .. secoff + secremain - 1
        PROVE  pBuffer[o - secoff] = mem[secpos][o]
    <3>1. o - secoff \in 0 .. secremain - 1 /\ o - secoff < i /\ secoff + (o - secoff) = o
      BY <1>1, <1>3, <2>2 DEF Offset
    <3> QED BY <1>3, <3>1 DEF Inv, PageInv
  <2>3. Patched(mem[secpos]) = [o \in Offset |-> mem[secpos][o]]
    BY <2>2 DEF Patched
  <2> QED BY <1>1, <2>1, <2>3
<1> QED BY <1>2, <1>3 DEF Written

\* The invariant holds at the start.
LEMMA InvInit == Init => Inv
<1> SUFFICES ASSUME Init PROVE Inv
  OBVIOUS
<1>1. 0 \in Page /\ 0 \in Offset /\ 0 \in 0 .. SECTOR_SIZE - 1 /\ 0 \in Value /\ 0 .. 0 - 1 = {}
  BY FlashAssumption DEF Page, Offset, SECTOR_SIZE
<1>2. FLASH_BUF \in [Offset -> Value] /\ WriteAddr \in [page : Page, byte : 0 .. SECTOR_SIZE - 1]
  BY <1>1 DEF Init
<1>3. pBuffer \in [0 .. NumToWrite - 1 -> Value]
  BY <1>1 DEF Init
<1>4. locked \in BOOLEAN /\ pgerr \in BOOLEAN
  BY DEF Init
<1>5. secremain \in 0 .. Half /\ i \in 0 .. Half /\ NumToWrite \in Nat
  BY FlashAssumption DEF Init
<1>6. TypeOK
  BY <1>1, <1>2, <1>3, <1>4, <1>5 DEF Init, TypeOK
<1> QED BY <1>6 DEF Init, Inv, CallInv, PageInv, Busy

\* Every step keeps it.
LEMMA InvNext == Fits /\ Inv /\ [Next]_vars => Inv'
<1> SUFFICES ASSUME Fits, Inv, [Next]_vars PROVE Inv'
  OBVIOUS
<1>1. CASE \E r \in Requests : Call(r)
  BY <1>1, CallKeeps
<1>2. CASE Read
  BY <1>2, ReadKeeps
<1>3. CASE Erase
  BY <1>3, EraseKeeps
<1>4. CASE Rewrite
  BY <1>4, RewriteKeeps
<1>5. CASE Program
  BY <1>5, ProgramKeeps
<1>6. CASE Advance
  BY <1>6, AdvanceKeeps
<1>7. CASE sys_soft_reset
  BY <1>7, Restarted DEF sys_soft_reset, Inv, TypeOK
<1>8. CASE PowerLoss
  BY <1>8, Lost, Restarted DEF PowerLoss
<1>9. CASE UNCHANGED vars
  <2>1. UNCHANGED <<mem, locked, pgerr, pc, FLASH_BUF, pBuffer, WriteAddr, secpos, secoff,
                    secremain, NumToWrite, i>>
    BY <1>9 DEF vars, hw, locals
  <2> QED BY <2>1 DEF Inv, TypeOK, CallInv, PageInv, Busy
<1> QED BY <1>1, <1>2, <1>3, <1>4, <1>5, <1>6, <1>7, <1>8, <1>9 DEF Next, Step
-----------------------------------------------------------------------------
\* Types, and what the store is in a state between two writes.
LEMMA BetweenWrites ==
  ASSUME Inv, ~Busy
  PROVE  [mem EXCEPT ![secpos] = Intent] = mem /\ AtStake = {}
<1>1. pc \in {"idle", "done"}
  BY DEF Busy, Inv, TypeOK, CallInv
<1>2. Intent = mem[secpos] /\ AtStake = {}
  BY <1>1 DEF Intent, AtStake
<1> QED BY <1>2 DEF Inv, TypeOK

\* A step of the store that starts a write is a call.
LEMMA CallBegins ==
  ASSUME Fits, Inv, NEW r \in Requests, Call(r)
  PROVE  Store!Begin(r)
<1>1. /\ r.page \in Page /\ r.off \in Offset /\ r.num \in Nat \ {0} /\ r.off + r.num <= Half
      /\ pc = "idle" /\ pc' = "read" /\ mem' = mem /\ secpos' = r.page /\ secoff' = r.off
      /\ pBuffer' = r.data
  BY FlashAssumption DEF Fits, InPage, Page, Offset, Call
<1>2. secremain' = r.num
  BY <1>1, FlashAssumption DEF Call, Smaller, Offset
<1>3. [mem EXCEPT ![secpos] = Intent] = mem /\ AtStake = {}
  BY <1>1, BetweenWrites DEF Busy
<1>4. Intent' = Store!Patch(mem[r.page], r)
  BY <1>1, <1>2 DEF Intent, Patched, Store!Patch, Store!Span, Offset, Store!Offset
<1>5. AtStake' = Store!Stake(mem[r.page], r)
  <2>1. Words' = {r.page} \X Store!Span(r)
    BY <1>1, <1>2 DEF Words, Store!Span
  <2>2. Clean' <=> (\A o \in Store!Span(r) : mem[r.page][o] = Erased)
    <3>1. \A o \in Store!Span(r) : <<r.page, o>> \in Words'
      BY <2>1
    <3>2. \A c \in Words' : c[1] = r.page /\ c[2] \in Store!Span(r)
      BY <2>1
    <3> QED BY <1>1, <3>1, <3>2 DEF Clean
  <2>3. CASE \A o \in Store!Span(r) : mem[r.page][o] = Erased
    <3>1. AtStake' = Words'
      BY <1>1, <2>2, <2>3 DEF AtStake
    <3> QED BY <2>1, <2>3, <3>1 DEF Store!Stake
  <2>4. CASE ~ \A o \in Store!Span(r) : mem[r.page][o] = Erased
    <3>1. AtStake' = {r.page} \X Offset
      BY <1>1, <2>2, <2>4 DEF AtStake
    <3> QED BY <2>4, <3>1 DEF Store!Stake, Offset, Store!Offset
  <2> QED BY <2>3, <2>4
<1>6. [mem' EXCEPT ![secpos'] = Intent'] = [mem EXCEPT ![r.page] = Store!Patch(mem[r.page], r)]
  BY <1>1, <1>4
<1> QED BY <1>3, <1>5, <1>6 DEF Store!Begin

\* The steps in between do not show.
LEMMA ReadHidden ==
  ASSUME Inv, Read
  PROVE  UNCHANGED <<[mem EXCEPT ![secpos] = Intent], AtStake>>
<1>1. /\ pc = "read" /\ mem' = mem /\ secpos' = secpos /\ FLASH_BUF' = mem[secpos]
      /\ UNCHANGED <<pBuffer, secoff, secremain>>
      /\ secoff \in Nat /\ secremain \in 1 .. Half
  BY FlashAssumption DEF Read, hw, Inv, TypeOK, CallInv, Busy, Offset
<1>2. Clean <=> ~(\E w \in 0 .. secremain - 1 : mem[secpos][secoff + w] # Erased)
  <2>1. ASSUME NEW w \in 0 .. secremain - 1
        PROVE  <<secpos, secoff + w>> \in Words
    BY <1>1 DEF Words
  <2>2. ASSUME NEW c \in Words
        PROVE  c[1] = secpos /\ c[2] - secoff \in 0 .. secremain - 1
               /\ secoff + (c[2] - secoff) = c[2]
    BY <1>1, <2>2 DEF Words
  <2> QED BY <2>1, <2>2 DEF Clean
<1>3. Intent = Patched(mem[secpos])
  BY <1>1 DEF Intent
<1>4. CASE pc' = "erase"
  <2>1. ~Clean
    BY <1>2, <1>4 DEF Read
  <2>2. AtStake = {secpos} \X Offset /\ AtStake' = {secpos} \X Offset
    BY <1>1, <1>4, <2>1 DEF AtStake
  <2>3. Intent' = Patched(mem[secpos])
    BY <1>1, <1>4 DEF Intent, Patched
  <2> QED BY <1>1, <1>3, <2>2, <2>3
<1>5. CASE pc' = "program"
  <2>1. Clean
    BY <1>2, <1>5 DEF Read
  <2>2. AtStake = Words /\ AtStake' = Words
    <3>1. Words' = Words
      BY <1>1 DEF Words
    <3>2. AtStake = Words
      BY <1>1, <2>1 DEF AtStake
    <3>3. AtStake' = Words'
      BY <1>5 DEF AtStake
    <3> QED BY <3>1, <3>2, <3>3
  <2>3. Intent' = Patched(mem[secpos])
    BY <1>1, <1>5 DEF Intent, Patched
  <2> QED BY <1>1, <1>3, <2>2, <2>3
<1> QED BY <1>4, <1>5 DEF Read

\* Erasing leaves what the page is to become and what is at stake: a stutter of the store.
LEMMA EraseHidden ==
  ASSUME Inv, Erase
  PROVE  UNCHANGED <<[mem EXCEPT ![secpos] = Intent], AtStake>>
<1>1. /\ pc = "erase" /\ pc' = "rewrite" /\ secpos' = secpos /\ secpos \in Page /\ Ready
  BY DEF Erase, Inv, TypeOK, CallInv, Busy, Ready
<1>2. mem' = [mem EXCEPT ![secpos] = [o \in Offset |-> Erased]]
  BY <1>1 DEF Erase, ErasePage
<1>3. Intent = Patched(FLASH_BUF) /\ Intent' = Patched(FLASH_BUF)
  BY <1>1, EraseKeeps DEF Intent
<1>4. AtStake = {secpos} \X Offset /\ AtStake' = {secpos} \X Offset
  BY <1>1 DEF AtStake
<1>5. [mem' EXCEPT ![secpos] = Intent] = [mem EXCEPT ![secpos] = Intent]
  BY <1>1, <1>2 DEF Inv, TypeOK
<1> QED BY <1>1, <1>3, <1>4, <1>5

\* So does programming the page again from the buffer.
LEMMA RewriteHidden ==
  ASSUME Inv, Rewrite
  PROVE  UNCHANGED <<[mem EXCEPT ![secpos] = Intent], AtStake>>
<1>1. /\ pc = "rewrite" /\ pc' = pc /\ secpos' = secpos /\ secpos \in Page
      /\ FLASH_BUF' = FLASH_BUF
      /\ mem' = [mem EXCEPT ![secpos][i] = FLASH_BUF[i]]
  BY Rewrites DEF Rewrite, locals, Inv, TypeOK
<1>2. Intent = FLASH_BUF /\ Intent' = FLASH_BUF
  BY <1>1 DEF Intent
<1>3. AtStake = {secpos} \X Offset /\ AtStake' = {secpos} \X Offset
  BY <1>1 DEF AtStake
<1>4. [mem' EXCEPT ![secpos] = Intent] = [mem EXCEPT ![secpos] = Intent]
  BY <1>1 DEF Inv, TypeOK
<1> QED BY <1>1, <1>2, <1>3, <1>4

\* So does programming half-words that are erased.
LEMMA ProgramHidden ==
  ASSUME Inv, Program
  PROVE  UNCHANGED <<[mem EXCEPT ![secpos] = Intent], AtStake>>
<1>1. /\ pc = "program" /\ pc' = pc /\ secpos \in Page
      /\ UNCHANGED <<secpos, secoff, secremain, pBuffer>>
      /\ mem' = [mem EXCEPT ![secpos][secoff + i] = pBuffer[i]]
  BY ProgramsInPage DEF Program, locals, Inv, TypeOK
<1>2. Intent = Patched(mem[secpos]) /\ Intent' = Patched(mem'[secpos])
  BY <1>1 DEF Intent, Patched
<1>3. Intent' = Intent
  BY <1>2, ProgramKeeps
<1>4. AtStake = Words /\ AtStake' = Words
  BY <1>1 DEF AtStake, Words
<1>5. [mem' EXCEPT ![secpos] = Intent] = [mem EXCEPT ![secpos] = Intent]
  BY <1>1 DEF Inv, TypeOK
<1> QED BY <1>1, <1>3, <1>4, <1>5

\* The end of the loop is the end of the write.
LEMMA AdvanceFinishes ==
  ASSUME Inv, Advance
  PROVE  Store!Finish
<1>1. UNCHANGED <<mem, locals>> /\ Inv' /\ ~Busy' /\ Written
  BY AdvanceKeeps DEF Advance, Busy
<1>2. secpos' = secpos /\ secpos \in Page
  BY <1>1 DEF locals, Inv, TypeOK
<1>3. [mem EXCEPT ![secpos] = Intent] = mem
  BY <1>1, <1>2, WrittenDone DEF Inv, TypeOK
<1>4. [mem EXCEPT ![secpos] = Intent]' = mem' /\ AtStake' = {}
  <2>1. pc' = "done"
    BY AdvanceKeeps
  <2>2. Intent' = mem'[secpos'] /\ AtStake' = {}
    BY <2>1 DEF Intent, AtStake
  <2> QED BY <1>1, <1>2, <2>2 DEF Inv, TypeOK
<1>5. AtStake # {}
  <2>1. /\ secoff \in Offset /\ secoff \in Nat /\ secremain \in 1 .. Half /\ pc \in {"rewrite", "program"}
    BY <1>1, AdvanceKeeps, FlashAssumption DEF Inv, TypeOK, CallInv, Written, Busy, Offset
  <2>2. secoff \in secoff .. secoff + secremain - 1
    BY <2>1
  <2>3. <<secpos, secoff>> \in {secpos} \X Offset /\ <<secpos, secoff>> \in Words
    BY <2>1, <2>2 DEF Words
  <2>4. AtStake = Words \/ AtStake = {secpos} \X Offset
    BY <2>1 DEF AtStake
  <2> QED BY <2>3, <2>4
<1> QED BY <1>1, <1>3, <1>4, <1>5 DEF Store!Finish

\* A failure of the power loses what is at stake, and a restart nothing.
LEMMA PowerLossLoses ==
  ASSUME Inv, PowerLoss
  PROVE  Store!Lose
<1>1. /\ mem' \in [Page -> [Offset -> Value]]
      /\ \A p \in Page, o \in Offset : mem'[p][o] = mem[p][o] \/ <<p, o>> \in AtStake
      /\ Inv' /\ ~Busy'
  BY Lost, Restarted DEF PowerLoss, Restart, Busy
<1>2. [mem EXCEPT ![secpos] = Intent]' = mem' /\ AtStake' = {}
  <2>1. pc' = "idle"
    BY DEF PowerLoss, Restart
  <2>2. Intent' = mem'[secpos'] /\ AtStake' = {}
    BY <2>1 DEF Intent, AtStake
  <2> QED BY <1>1, <2>2
<1>3. ASSUME NEW p \in Page, NEW o \in Offset, <<p, o>> \notin AtStake
      PROVE  mem'[p][o] = [mem EXCEPT ![secpos] = Intent][p][o]
  <2>1. CASE p # secpos
    BY <1>1, <1>3, <2>1 DEF Inv, TypeOK
  <2>2. CASE p = secpos
    <3>1. CASE AtStake = {secpos} \X Offset
      BY <1>3, <2>2, <3>1
    <3>2. CASE AtStake = Words /\ pc \in {"read", "program"}
      <4>1. o \notin secoff .. secoff + secremain - 1
        BY <1>3, <2>2, <3>2 DEF Words
      <4>2. Intent[o] = mem[secpos][o]
        BY <3>2, <4>1 DEF Intent, Patched
      <4> QED BY <1>1, <1>3, <2>2, <4>2 DEF Inv, TypeOK
    <3>3. CASE ~Busy
      BY <1>1, <1>3, <3>3, BetweenWrites
    <3> QED BY <3>1, <3>2, <3>3 DEF AtStake, Busy
  <2> QED BY <2>1, <2>2
<1> QED BY <1>1, <1>2, <1>3 DEF Store!Lose, Page, Offset, Store!Page, Store!Offset

\* So does a reset when the write is done.
LEMMA ResetHidden ==
  ASSUME Inv, sys_soft_reset
  PROVE  UNCHANGED <<[mem EXCEPT ![secpos] = Intent], AtStake>>
<1>1. mem' = mem /\ pc = "done" /\ pc' = "idle" /\ mem \in [Page -> [Offset -> Value]]
  BY DEF sys_soft_reset, Restart, Inv, TypeOK
<1>2. [mem EXCEPT ![secpos] = Intent] = mem /\ AtStake = {}
  BY <1>1, BetweenWrites DEF Busy
<1>3. Intent' = mem'[secpos'] /\ AtStake' = {}
  BY <1>1 DEF Intent, AtStake
<1> QED BY <1>1, <1>2, <1>3
-----------------------------------------------------------------------------
\* The invariant always holds when every request stays on its page.
THEOREM Invariance == Fits => (Spec => []Inv)
<1> SUFFICES ASSUME Fits PROVE Spec => []Inv
  OBVIOUS
<1>1. Inv /\ [Next]_vars => Inv'
  BY InvNext
<1> QED BY <1>1, InvInit, PTL DEF Spec

\* The types of the flash, the buffer and the computed addresses.
THEOREM FlashTypes == Fits => (Spec => []TypeOK)
BY Invariance, PTL DEF Inv

\* No half-word is programmed that is not erased (Flash.c:86-108).
THEOREM NoError == Fits => (Spec => []NoProgError)
<1>1. Inv => NoProgError
  BY DEF Inv, CallInv, NoProgError
<1> QED BY <1>1, Invariance, PTL

\* FLASH_Write implements the store whose writes are one step: what is
\* stored is the record and what was there around it, and a failure of the
\* power loses only what was at stake (Flash.c:82-129).
THEOREM Implements == Fits => (Spec => StoreSpec)
<1> SUFFICES ASSUME Fits PROVE Spec => StoreSpec
  OBVIOUS
<1>1. Init => Store!Init
  <2> SUFFICES ASSUME Init PROVE Store!Init
    OBVIOUS
  <2>1. [mem EXCEPT ![secpos] = Intent] = mem /\ AtStake = {}
    BY InvInit, BetweenWrites DEF Init, Busy
  <2> QED BY <2>1 DEF Init, Store!Init, Page, Offset, Store!Page, Store!Offset
<1>2. Inv /\ [Next]_vars => [Store!Next]_<<[mem EXCEPT ![secpos] = Intent], AtStake>>
  <2> SUFFICES ASSUME Inv, [Next]_vars
               PROVE  [Store!Next]_<<[mem EXCEPT ![secpos] = Intent], AtStake>>
    OBVIOUS
  <2>1. CASE \E r \in Requests : Call(r)
    BY <2>1, CallBegins DEF Store!Next
  <2>2. CASE Read
    BY <2>2, ReadHidden
  <2>3. CASE Erase
    BY <2>3, EraseHidden
  <2>4. CASE Rewrite
    BY <2>4, RewriteHidden
  <2>5. CASE Program
    BY <2>5, ProgramHidden
  <2>6. CASE Advance
    BY <2>6, AdvanceFinishes DEF Store!Next
  <2>7. CASE sys_soft_reset
    BY <2>7, ResetHidden
  <2>8. CASE PowerLoss
    BY <2>8, PowerLossLoses DEF Store!Next
  <2>9. CASE UNCHANGED vars
    BY <2>9 DEF vars, hw, locals, Intent, Patched, AtStake, Words, Clean
  <2> QED BY <2>1, <2>2, <2>3, <2>4, <2>5, <2>6, <2>7, <2>8, <2>9 DEF Next, Step
<1> QED BY <1>1, <1>2, Invariance, PTL DEF Spec, StoreSpec, Store!Spec
=============================================================================
