-------------------------- MODULE MCTaskScheduler --------------------------
EXTENDS TaskScheduler

CONSTANTS main, other

\* remmy submits from main alone, before it waits (main.cpp:494-509).
MainOnly == {main}

\* What "@note Thread safe." (task_scheduler.hpp:144) allows.  Put in the place of
\* MainOnly it makes TLC find NoTaskIsLost violated.
TwoThreads == {main, other}
=============================================================================
