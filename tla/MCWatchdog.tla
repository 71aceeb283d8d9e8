----------------------------- MODULE MCWatchdog -----------------------------
(* Watchdog on a small instance: a millisecond is two microseconds long.   *)
EXTENDS Watchdog

CONSTANTS main, child

MCProcs == {main, child}

\* None; shorter than the shortest period; too short for its period; with just
\* enough room for the lateness; with more than enough, and a rest in each of
\* the two divisions.
MCIntervals == {0, 1, 3, 4, 7, 9}
\* The service passes no interval, one that turns the watchdog off, or one that
\* is longer than some of the above.
MCAsked == {None, 0, 4}
MCDivisors == 1..3
=============================================================================
