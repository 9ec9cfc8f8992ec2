---------------------------- MODULE MCArmMission ----------------------------
EXTENDS ArmMission

Order3 == {<<"red", "green", "blue">>, <<"red", "blue", "green">>, <<"green", "red", "blue">>,
           <<"green", "blue", "red">>, <<"blue", "red", "green">>, <<"blue", "green", "red">>}

\* One first order with every second order: the arm treats the colours alike
\* but for where the plate stands when the machine is switched on, which is
\* not the first colour here.
MCCodes == {<<"blue", "red", "green">>} \X Order3
=============================================================================
