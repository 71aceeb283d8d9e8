---------------------------- MODULE MCListenFds ----------------------------
(* ListenFds on a small instance.                                          *)
EXTENDS ListenFds

CONSTANTS http, control, nothing, unknown

\* Two targets, 3 and 4, with room for scratch copies above them, or less when
\* the service has those numbers open.
MCFds == 3..7
MCWords == {http, control, nothing, unknown}
MCFdNames == {<<http>>, <<nothing>>, <<http, control>>}
=============================================================================
