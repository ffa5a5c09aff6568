------------------------------ MODULE MCFdPool ------------------------------
EXTENDS FdPool

\* Main and one worker.  One slot inherited, two more below the soft limit
\* and one the raise adds; two epochs, so the epoch wraps.
CONSTANTS main, worker

MCThread == {main, worker}
MCInherited == {0}
=============================================================================
