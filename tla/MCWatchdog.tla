----------------------------- MODULE MCWatchdog -----------------------------
EXTENDS Watchdog

\* One task code: the delays do not depend on it.
MCOneCode == {<<<<"red", "green", "blue">>, <<"blue", "red", "green">>>>}
=============================================================================
