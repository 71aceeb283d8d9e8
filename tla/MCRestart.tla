----------------------------- MODULE MCRestart -----------------------------
(* Restart on a small instance.                                            *)
EXTENDS Restart, TLC

CONSTANTS pipe1, pipe2, listener, http, state, nothing, unknown, stored, bell

MCFiles == {pipe1, pipe2}

\* A stored descriptor may have the name of this socket.
MCSockets == <<[file |-> listener, name |-> <<http>>]>>

MCWords == {http, state, nothing, unknown, stored, bell}

\* Two proper names, one with a colon and one with a control character.
MCFdNames == {<<http>>, <<state>>, <<http, state>>, <<bell>>}
MCManagerNames == {<<http>>, <<state>>, <<stored>>}

FileSymmetry == Permutations(MCFiles)
=============================================================================
