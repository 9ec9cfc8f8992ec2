------------------------------ MODULE MCTimer ------------------------------
(* A periodic soft timer, as Led_WDG_timer, one that fires once, and a      *)
(* thread that sleeps; a tick of four bits.                                 *)
EXTENDS Timer

CONSTANTS led, once, sleeper

MCPeriod == [t \in Soft |-> IF t = led THEN 3 ELSE 2]
=============================================================================
