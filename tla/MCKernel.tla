------------------------------ MODULE MCKernel ------------------------------
(* Three threads that take the mutex, MainCtrl and UsartRece among them     *)
(* (top and mid) and a less urgent one, and a thread of the priority in     *)
(* between that could keep the last from running while the first waits.     *)
EXTENDS Kernel

CONSTANTS top, mid, low, between

MCPrio == [t \in Thread |-> CASE t = top -> 0 [] t \in {mid, between} -> 1 [] t = low -> 2
                              [] OTHER -> 3]
=============================================================================
