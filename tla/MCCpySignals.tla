---------------------------- MODULE MCCpySignals ----------------------------
(* CpySignals on a small instance.                                         *)
EXTENDS CpySignals, TLC

CONSTANTS hup, usr, term, reload, shutdown, t1, t2

MCSignals == {hup, usr, term}
MCFatal == {hup, term}
MCWatchers == {reload, shutdown}
MCTasks == {t1, t2}

\* Each signal has one watcher.
MCApart == (reload :> {hup, usr}) @@ (shutdown :> {term})
=============================================================================
