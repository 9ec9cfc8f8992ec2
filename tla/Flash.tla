------------------------------- MODULE Flash -------------------------------
(* The writes to the internal flash (Drivers/Hardware/Flash/Flash.c): the   *)
(* flag that sends the boot loader into an upgrade is stored with           *)
(* FLASH_Write, by the Bluetooth command 110 (Iap.c) and by a key held at   *)
(* power-on (board.c).  A page of flash is erased as a whole, an erased     *)
(* half-word can be programmed once, and the power may fail between any two *)
(* operations or in the middle of one.                                      *)
(*                                                                          *)
(* An address of the code is a record of its page and its byte offset in    *)
(* the page; SECTOR_SIZE bytes are Half half-words.  The words of a request *)
(* are a function of their index, as pBuffer[i] is.                         *)
EXTENDS Integers

CONSTANTS Pages, Half, Value, Erased, Requests

ASSUME FlashAssumption ==
  /\ Pages \in Nat \ {0} /\ Half \in Nat \ {0}
  /\ Erased \in Value /\ 0 \in Value
  /\ \A r \in Requests :
       /\ r.page \in 0 .. Pages - 1 /\ r.off \in 0 .. Half - 1 /\ r.num \in Nat \ {0}
       /\ r.data \in [0 .. r.num - 1 -> Value]

VARIABLES
  mem,         \* the flash: a half-word for each page and offset
  locked,      \* the LOCK bit of FLASH_CR
  pgerr,       \* the PGERR bit of FLASH_SR: it stays until a reset
  pc,          \* where FLASH_Write is
  FLASH_BUF,   \* the copy of the page in RAM
  pBuffer,     \* the words that are left to write
  WriteAddr,   \* where the words go when the page needs no erasing
  secpos, secoff, secremain, NumToWrite,   \* the locals of FLASH_Write
  i            \* the counter of its loops

hw == <<mem, locked, pgerr>>
locals == <<FLASH_BUF, pBuffer, WriteAddr, secpos, secoff, secremain, NumToWrite>>
vars == <<hw, pc, locals, i>>

Page == 0 .. Pages - 1
Offset == 0 .. Half - 1
SECTOR_SIZE == 2 * Half
Smaller(m, n) == IF m <= n THEN m ELSE n

----------------------------------------------------------------------------
(* The flash controller as FLASH_ProgramHalfWord and FLASH_ErasePage drive  *)
(* it: both wait for COMPLETE, which PGERR prevents, and the LOCK bit keeps *)
(* PG and PER from being set.                                               *)

Ready == ~locked /\ ~pgerr

(* A half-word that is not erased takes only the value 0. *)
ProgramHalfWord(p, o, v) ==
  IF Ready
  THEN IF mem[p][o] = Erased \/ v = 0
       THEN mem' = [mem EXCEPT ![p][o] = v] /\ pgerr' = pgerr
       ELSE mem' = mem /\ pgerr' = TRUE
  ELSE UNCHANGED <<mem, pgerr>>

ErasePage(p) ==
  mem' = IF Ready THEN [mem EXCEPT ![p] = [o \in Offset |-> Erased]] ELSE mem

Init ==
  /\ mem \in [Page -> [Offset -> Value]]
  /\ locked = TRUE /\ pgerr = FALSE
  /\ pc = "idle" /\ i = 0
  /\ FLASH_BUF = [o \in Offset |-> 0] /\ pBuffer = [w \in {} |-> 0]
  /\ WriteAddr = [page |-> 0, byte |-> 0]
  /\ secpos = 0 /\ secoff = 0 /\ secremain = 0 /\ NumToWrite = 0

(* A reset: the flash keeps its contents, the RAM and the controller do not. *)
Restart ==
  /\ locked' = TRUE /\ pgerr' = FALSE
  /\ pc' = "idle" /\ i' = 0
  /\ FLASH_BUF' = [o \in Offset |-> 0] /\ pBuffer' = [w \in {} |-> 0]
  /\ WriteAddr' = [page |-> 0, byte |-> 0]
  /\ secpos' = 0 /\ secoff' = 0 /\ secremain' = 0 /\ NumToWrite' = 0

----------------------------------------------------------------------------
(* FLASH_Write, lines 73-81, with the address in the flash (line 69). *)
Call(r) ==
  /\ pc = "idle"
  /\ locked' = FALSE
  /\ WriteAddr' = [page |-> r.page, byte |-> 2 * r.off]
  /\ pBuffer' = r.data
  /\ NumToWrite' = r.num
  /\ secpos' = r.page /\ secoff' = r.off
  /\ secremain' = Smaller(r.num, Half - r.off)
  /\ pc' = "read"
  /\ UNCHANGED <<mem, pgerr, FLASH_BUF, i>>

\* Mutant of Read: only the first word is looked at before the page is taken as erased.
Read_First ==
  /\ pc = "read"
  /\ FLASH_BUF' = mem[secpos]
  /\ i' = 0
  /\ pc' = IF mem[secpos][secoff] # Erased THEN "erase" ELSE "program"
  /\ UNCHANGED <<hw, pBuffer, WriteAddr, secpos, secoff, secremain, NumToWrite>>

(* Lines 85-93: the page is copied, and its part that will be written is    *)
(* looked at.                                                               *)
Read ==
  /\ pc = "read"
  /\ FLASH_BUF' = mem[secpos]
  /\ i' = 0
  /\ pc' = IF \E w \in 0 .. secremain - 1 : mem[secpos][secoff + w] # Erased
           THEN "erase" ELSE "program"
  /\ UNCHANGED <<hw, pBuffer, WriteAddr, secpos, secoff, secremain, NumToWrite>>

\* Mutant of Erase: the page is erased before the copy of it is taken.
Erase_Uncopied ==
  /\ pc = "erase"
  /\ ErasePage(secpos)
  /\ FLASH_BUF' = [o \in Offset |-> IF o \in secoff .. secoff + secremain - 1
                                    THEN pBuffer[o - secoff] ELSE Erased]
  /\ pc' = "rewrite"
  /\ i' = 0
  /\ UNCHANGED <<locked, pgerr, pBuffer, WriteAddr, secpos, secoff, secremain, NumToWrite>>

(* Lines 96-100. *)
Erase ==
  /\ pc = "erase"
  /\ ErasePage(secpos)
  /\ FLASH_BUF' = [o \in Offset |-> IF o \in secoff .. secoff + secremain - 1
                                    THEN pBuffer[o - secoff] ELSE FLASH_BUF[o]]
  /\ pc' = "rewrite"
  /\ i' = 0
  /\ UNCHANGED <<locked, pgerr, pBuffer, WriteAddr, secpos, secoff, secremain, NumToWrite>>

(* Line 102: FLASH_Write_NoCheck of the whole page. *)
Rewrite ==
  /\ pc = "rewrite" /\ i < Half
  /\ ProgramHalfWord(secpos, i, FLASH_BUF[i])
  /\ i' = i + 1
  /\ UNCHANGED <<locked, pc, locals>>

(* Line 107: FLASH_Write_NoCheck of the words alone.  WriteAddr is less     *)
(* than a page into its page, so the words reach at most the next one.      *)
Program ==
  LET b == WriteAddr.byte + 2 * i
      over == b >= SECTOR_SIZE
      p == IF over THEN WriteAddr.page + 1 ELSE WriteAddr.page
      o == (IF over THEN b - SECTOR_SIZE ELSE b) \div 2
  IN /\ pc = "program" /\ i < secremain
     /\ IF b % 2 = 0 /\ p \in Page
        THEN /\ ProgramHalfWord(p, o, pBuffer[i])
             /\ i' = i + 1
             /\ UNCHANGED pc
        ELSE /\ pc' = "fault"       \* a bus error: HardFault_Handler never returns
             /\ UNCHANGED <<mem, pgerr, i>>
     /\ UNCHANGED <<locked, locals>>

Written ==
  \/ pc = "rewrite" /\ i = Half
  \/ pc = "program" /\ i = secremain

(* Lines 109-130: the words are written, or the loop goes to the next page; *)
(* WriteAddr advances by the number of half-words.                          *)
Advance ==
  /\ Written
  /\ IF NumToWrite = secremain
     THEN /\ locked' = TRUE
          /\ pc' = "done"
          /\ UNCHANGED locals
     ELSE LET b == WriteAddr.byte + secremain
          IN /\ secpos' = secpos + 1 /\ secoff' = 0
             /\ pBuffer' = [w \in 0 .. NumToWrite - secremain - 1 |-> pBuffer[w + secremain]]
             /\ WriteAddr' = IF b >= SECTOR_SIZE
                             THEN [page |-> WriteAddr.page + 1, byte |-> b - SECTOR_SIZE]
                             ELSE [WriteAddr EXCEPT !.byte = b]
             /\ NumToWrite' = NumToWrite - secremain
             /\ secremain' = Smaller(NumToWrite - secremain, Half)
             /\ pc' = "read"
             /\ UNCHANGED <<FLASH_BUF, locked>>
  /\ UNCHANGED <<mem, pgerr, i>>

(* Every caller restarts the controller after the write (Iap.c:22,          *)
(* board.c:116).                                                            *)
sys_soft_reset == pc = "done" /\ Restart /\ UNCHANGED mem

(* The power fails.  What the operation under way was working on may read   *)
(* anything afterwards: the page, or the half-word.                         *)
PowerLoss ==
  /\ pc # "idle"
  /\ Restart
  /\ \/ UNCHANGED mem
     \/ /\ pc = "erase"
        /\ \E page \in [Offset -> Value] : mem' = [mem EXCEPT ![secpos] = page]
     \/ /\ pc = "rewrite" /\ i < Half
        /\ \E v \in Value : mem' = [mem EXCEPT ![secpos][i] = v]
     \/ /\ pc = "program" /\ i < secremain
        /\ WriteAddr.byte + 2 * i < SECTOR_SIZE
        /\ \E v \in Value : mem' = [mem EXCEPT ![WriteAddr.page][(WriteAddr.byte + 2 * i) \div 2] = v]

Step == Read \/ Erase \/ Rewrite \/ Program \/ Advance \/ sys_soft_reset

Next == (\E r \in Requests : Call(r)) \/ Step \/ PowerLoss

Spec == Init /\ [][Next]_vars

----------------------------------------------------------------------------
TypeOK ==
  /\ mem \in [Page -> [Offset -> Value]]
  /\ locked \in BOOLEAN /\ pgerr \in BOOLEAN
  /\ pc \in {"idle", "read", "erase", "rewrite", "program", "done", "fault"}
  /\ FLASH_BUF \in [Offset -> Value]
  /\ WriteAddr \in [page : Page, byte : 0 .. SECTOR_SIZE - 1]
  /\ secpos \in Page /\ secoff \in Offset
  /\ secremain \in 0 .. Half /\ NumToWrite \in Nat
  /\ pBuffer \in [0 .. NumToWrite - 1 -> Value]
  /\ i \in 0 .. Half

(* A request that does not go over the end of its page, as all of the       *)
(* program's do: they are one half-word long.                               *)
InPage(r) == r.off + r.num <= Half

(* No half-word is programmed that is not erased, and none at an odd        *)
(* address: the page was erased, or the part of it that is written was      *)
(* found erased, whatever an earlier failure of the power left there        *)
(* (Flash.c:86-108).  A programming error would block every later           *)
(* operation until a reset.                                                 *)
NoProgError == ~pgerr /\ pc # "fault"

(* The contents that the write under way leaves in its page: FLASH_BUF has  *)
(* them all once the page is to be erased.                                  *)
Patched(page) ==
  [o \in Offset |-> IF o \in secoff .. secoff + secremain - 1
                    THEN pBuffer[o - secoff] ELSE page[o]]
Intent ==
  CASE pc \in {"read", "program"} -> Patched(mem[secpos])
    [] pc = "erase" -> Patched(FLASH_BUF)
    [] pc = "rewrite" -> FLASH_BUF
    [] OTHER -> mem[secpos]

(* The half-words at stake: the words alone when the page is not erased for *)
(* them.                                                                    *)
Words == {secpos} \X (secoff .. secoff + secremain - 1)
Clean == \A c \in Words : mem[c[1]][c[2]] = Erased
AtStake ==
  IF pc = "program" \/ (pc = "read" /\ Clean) THEN Words
  ELSE IF pc \in {"read", "erase", "rewrite"} THEN {secpos} \X Offset
  ELSE {}

----------------------------------------------------------------------------
(* FLASH_Write implements a store whose writes are one step: the record     *)
(* comes out as it was given and the rest of its page survives the erasing, *)
(* unless the power fails while the page is being rewritten, and what was   *)
(* at stake is all that a failure loses (Flash.c:82-129).                   *)
Store == INSTANCE Store WITH store <- [mem EXCEPT ![secpos] = Intent], flux <- AtStake
StoreSpec == Store!Spec
=============================================================================
