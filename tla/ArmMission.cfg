CONSTANTS
  Code <- MCCodes
  DirectGrab = {TRUE, FALSE}
  KeyPress = {"short", "persist"}
SPECIFICATION Spec
CHECK_DEADLOCK FALSE
INVARIANT Consistent
INVARIANT EmptyHanded
INVARIANT OwnSlot
INVARIANT AllStaged
PROPERTY Sorts
PROPERTY TurnsClear
PROPERTY FirstSkipped
