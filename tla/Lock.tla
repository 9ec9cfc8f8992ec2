-------------------------------- MODULE Lock --------------------------------
(* What a mutex of RT-Thread promises (ipc.c): one thread holds it, as many *)
(* times as it has taken it; one that has to wait is given it by the holder *)
(* itself, the most urgent first, so that it is never free while it is      *)
(* wanted.                                                                  *)
EXTENDS Naturals

CONSTANTS Users,      \* the threads that take it
          Urgency,    \* the priority of a thread, 0 for the most urgent
          HoldMax,    \* how often a thread may take it without giving it back
          None        \* not a thread

VARIABLES holder, depth, waiting

Init == holder = None /\ depth = 0 /\ waiting = {}

Acquire(t) == holder = None /\ holder' = t /\ depth' = 1 /\ UNCHANGED waiting

Again(t) == holder = t /\ depth < HoldMax /\ depth' = depth + 1 /\ UNCHANGED <<holder, waiting>>

Wait(t) ==
  /\ holder \notin {None, t} /\ t \notin waiting
  /\ waiting' = waiting \cup {t}
  /\ UNCHANGED <<holder, depth>>

GiveUp(t) == t \in waiting /\ waiting' = waiting \ {t} /\ UNCHANGED <<holder, depth>>

Back(t) == holder = t /\ depth > 1 /\ depth' = depth - 1 /\ UNCHANGED <<holder, waiting>>

Free(t) == holder = t /\ depth = 1 /\ waiting = {} /\ holder' = None /\ depth' = 0 /\ UNCHANGED waiting

HandOver(t) ==
  /\ holder = t /\ depth = 1
  /\ \E w \in waiting :
       /\ \A u \in waiting : Urgency[w] <= Urgency[u]
       /\ holder' = w /\ depth' = 1 /\ waiting' = waiting \ {w}

Next == \E t \in Users :
          Acquire(t) \/ Again(t) \/ Wait(t) \/ GiveUp(t) \/ Back(t) \/ Free(t) \/ HandOver(t)

Spec == Init /\ [][Next]_<<holder, depth, waiting>>
=============================================================================
