----------------------------- MODULE MCJournal -----------------------------
(* Journal on a small instance: a writer of the program's own, a handler   *)
(* whose writer is still the shared one beside a handler that has kept its *)
(* own from before a close(), as many descriptors as there are writers, so *)
(* that the memfd may not find one, and entries on both sides of the limit.*)
EXTENDS Journal

CONSTANTS h1, h2, w1, w2, w3

MCHandlers == {h1, h2}
MCWriters == {w1, w2, w3}
MCOwn == {w3}
MCFds == 3..5
MCSizes == {1, 2, 4}
=============================================================================
