---------------------------- MODULE MCMpSignals ----------------------------
(* MpSignals on a small instance: three watchers that share signals.       *)
EXTENDS MpSignals, TLC

CONSTANTS hup, term, chld, reload, shutdown, children

MCSignals == {hup, term, chld}
MCFatal == {hup, term}
MCWatchers == {reload, shutdown, children}
MCNamed == (reload :> {hup}) @@ (shutdown :> {hup, term}) @@ (children :> {chld, term})
MCBase == {chld}
=============================================================================
