----------------------------- MODULE MCUsartRece -----------------------------
EXTENDS UsartRece

\* One motion, and the number of the upgrade command.
MCBlueNumber == {[len |-> 2, val |-> 10], [len |-> 3, val |-> 110]}
\* A motion only.
MCMotion == {[len |-> 2, val |-> 10]}
=============================================================================
