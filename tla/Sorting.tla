------------------------------- MODULE Sorting -------------------------------
(***************************************************************************)
(* What the arm is for: two batches of objects, one of each colour, go     *)
(* from the raw area over the plate of the machine to the rough area, back *)
(* on the plate, and to the staging area, where the second batch is        *)
(* stacked on the first.  In both areas an object stands on the ring of    *)
(* its own colour and on the plate in the slot of its own colour.  The     *)
(* clip takes one object at a time, and an object never goes anywhere      *)
(* else.                                                                   *)
(***************************************************************************)
EXTENDS Naturals

CONSTANT Color

Object == [batch : 1..2, color : Color]

\* Where an object is on its way, in order; "clip" is in between.
Stop == {"raw", "plate1", "rough", "plate2", "staging"}

VARIABLES
  stop,  \* the last stop of each object
  held   \* the objects in the clip

vars == <<stop, held>>

Init == stop = [o \in Object |-> "raw"] /\ held = {}

\* The second batch waits until the first is in the staging area.
Turn(o) == o.batch = 1 \/ \A c \in Color : stop[[batch |-> 1, color |-> c]] = "staging"

After(s) == CASE s = "raw"    -> "plate1"
              [] s = "plate1" -> "rough"
              [] s = "rough"  -> "plate2"
              [] s = "plate2" -> "staging"

\* A batch moves together: no object leaves a stop before all have reached it.
Together(o) == \A c \in Color :
  stop[[o EXCEPT !.color = c]] \in {stop[o], After(stop[o])}

Lift(o) ==
  /\ held = {} /\ Turn(o) /\ stop[o] # "staging" /\ Together(o)
  /\ held' = {o} /\ UNCHANGED stop

Lower(o) ==
  /\ held = {o}
  /\ held' = {} /\ stop' = [stop EXCEPT ![o] = After(@)]

\* The field is set up for another run when everything has been sorted.
SetUp ==
  /\ held = {} /\ \A o \in Object : stop[o] = "staging"
  /\ stop' = [o \in Object |-> "raw"] /\ UNCHANGED held

Next == SetUp \/ \E o \in Object : Lift(o) \/ Lower(o)

Spec == Init /\ [][Next]_vars
=============================================================================
