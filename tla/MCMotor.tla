------------------------------- MODULE MCMotor -------------------------------
EXTENDS Motor

MCHeightOf == [Reset_L |-> 8, Stack |-> 6, Aim |-> 5, Places |-> 4]
=============================================================================
