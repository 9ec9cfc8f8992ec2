------------------------------- MODULE Store -------------------------------
(* What FLASH_Write (Flash.c) promises of the flash: a record is put where  *)
(* it was meant to go and nothing else changes, unless the power fails.     *)
(* Then what is lost is the record, if it was being written to erased       *)
(* half-words, and the page, if it had to be erased; never another page.    *)
EXTENDS Naturals

CONSTANTS Pages,     \* the number of pages
          Half,      \* the half-words of a page
          Value,     \* the contents of a half-word
          Erased,    \* 0xFFFF, what an erased half-word reads
          Requests   \* the writes the program makes

VARIABLES store,     \* the contents once the write under way is over
          flux       \* the half-words <<page, offset>> that a failure of the power loses

Page == 0 .. Pages - 1
Offset == 0 .. Half - 1

(* The half-words that a record takes, and the contents with it in place. *)
Span(r) == r.off .. r.off + r.num - 1
Patch(page, r) ==
  [o \in Offset |-> IF o \in Span(r) THEN r.data[o - r.off] ELSE page[o]]

(* What is at stake while a record is put into a page. *)
Stake(page, r) ==
  IF \A o \in Span(r) : page[o] = Erased
  THEN {r.page} \X Span(r)
  ELSE {r.page} \X Offset

Init == store \in [Page -> [Offset -> Value]] /\ flux = {}

Begin(r) ==
  /\ flux = {}
  /\ flux' = Stake(store[r.page], r)
  /\ store' = [store EXCEPT ![r.page] = Patch(@, r)]

Finish == flux # {} /\ flux' = {} /\ UNCHANGED store

Lose ==
  /\ flux' = {}
  /\ store' \in [Page -> [Offset -> Value]]
  /\ \A p \in Page, o \in Offset : <<p, o>> \notin flux => store'[p][o] = store[p][o]

Next == (\E r \in Requests : Begin(r)) \/ Finish \/ Lose

Spec == Init /\ [][Next]_<<store, flux>>
=============================================================================
