-------------------------- MODULE DescriptorNames --------------------------
(***************************************************************************)
(* What activation.py makes of LISTEN_FDNAMES, for a service that is       *)
(* started with descriptors (ListenFds) and one that is started again with *)
(* those it had stored (Restart).                                          *)
(*                                                                         *)
(* A name is what the colons in it make of it: a sequence of words.        *)
(***************************************************************************)
EXTENDS Naturals, Sequences, SequencesExt

CONSTANTS Start,     \* LISTEN_FDS_START
          Words,     \* what may stand between two colons of LISTEN_FDNAMES
          Empty,     \* the empty word
          Unnamed,   \* UNNAMED
          FdNames,   \* the names a program or a test may ask for
          Absent     \* None: a variable that is not set, no name given

ASSUME DescriptorNamesAssumption ==
  /\ Start \in Nat
  /\ {Empty, Unnamed} \subseteq Words /\ Empty # Unnamed
  /\ FdNames \subseteq Seq(Words) \ {<<>>} /\ Absent \notin Seq(Words)

Mutant_Reported(word) == word

Reported(word) == IF word = Empty THEN Unnamed ELSE word

\* The names a call finds for so many descriptors: the variable is unset or "", or
\* split at its colons.
NamesFound(variable, number) ==
  IF variable \in {Absent, <<Empty>>}
  THEN [i \in 1..number |-> Unnamed]
  ELSE [i \in DOMAIN variable |-> Reported(variable[i])]

\* It raises SystemdError when they are not as many as the descriptors.
AsMany(variable, number) == number = 0 \/ Len(NamesFound(variable, number)) = number
=============================================================================
