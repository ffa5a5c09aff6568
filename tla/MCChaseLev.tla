----------------------------- MODULE MCChaseLev -----------------------------
EXTENDS ChaseLev, TLC

\* Two thieves and four inserts into a buffer of one slot: it grows to two
\* and to four slots, and every slot index wraps.
CONSTANTS thief1, thief2

MCThief == {thief1, thief2}
Thieves == Permutations(MCThief)
=============================================================================
