------------------------------ MODULE ListenFds ------------------------------
(***************************************************************************)
(* Socket activation: the descriptors and LISTEN_ variables a service is   *)
(* started with, read by listen_fds and listen_fd_names of activation.py,  *)
(* and set up for tests by install_listen_fds of testing.py, one system    *)
(* call per step.                                                          *)
(*                                                                         *)
(* An open file is known by the number it was first open under.            *)
(***************************************************************************)
EXTENDS DescriptorNames

CONSTANTS Fds,       \* the descriptor numbers the process may use
          MaxGiven   \* bound: descriptors handed to install_listen_fds

ASSUME ListenFdsAssumption ==
  /\ Fds \subseteq Nat \ {0} /\ MaxGiven \in Nat
  /\ Start..(Start + MaxGiven - 1) \subseteq Fds

VARIABLES
  tab,       \* the file open under each number, or Closed
  cloexec,   \* the numbers with the close on exec flag, and those not open
  pid,       \* LISTEN_PID: "me", "other", or "unset" also if it is no number
  count,     \* LISTEN_FDS; 0 stands for anything that is not a positive number
  names,     \* LISTEN_FDNAMES: its words, or Absent
  pc,        \* where install_listen_fds is, or "idle"
  fds,       \* its argument fds
  scratch,   \* its scratch descriptors that are still open
  moved,     \* how many of them have been duplicated into place
  before,    \* history: tab at the call
  given      \* history: the names of the install that wrote the environment, or <<>>

env == <<pid, count, names>>
vars == <<tab, cloexec, env, pc, fds, scratch, moved, before, given>>

Closed == 0

\* The service starts with some descriptors open, all but the ones its parent
\* passes with the close on exec flag, and perhaps with an environment that
\* promises more than there is.
Init ==
  /\ tab \in {[f \in Fds |-> IF f \in S THEN f ELSE Closed] : S \in SUBSET Fds}
  /\ cloexec = Fds
  /\ pid \in {"unset", "me"} /\ count \in 0..MaxGiven /\ names = Absent
  /\ pc = "idle"
  /\ fds = <<>> /\ scratch = <<>> /\ moved = 0
  /\ before = tab
  /\ given = <<>>

-----------------------------------------------------------------------------
(* install_listen_fds *)

Call ==
  /\ pc = "idle"
  /\ \E n \in 0..MaxGiven :
       /\ fds' \in [1..n -> Fds]
       /\ pc' = IF n = 0 THEN "set_pid" ELSE "dup_above"
  /\ before' = tab
  /\ given' = <<>>
  /\ UNCHANGED <<tab, cloexec, env, scratch, moved>>

Mutant_ScratchFrom == Start

\* The scratch copies are made above all of the target range.
ScratchFrom == Start + Len(fds)

LowestFrom(f, least) ==
  /\ f >= least /\ tab[f] = Closed
  /\ \A g \in Fds : g >= least /\ tab[g] = Closed => f <= g

DupAbove ==
  /\ pc = "dup_above"
  /\ LET source == fds[Len(scratch) + 1]
     IN  /\ tab[source] # Closed
         /\ \E f \in Fds :
              /\ LowestFrom(f, ScratchFrom)
              /\ tab' = [tab EXCEPT ![f] = tab[source]]
              /\ cloexec' = cloexec \ {f}
              /\ scratch' = Append(scratch, f)
  /\ pc' = IF Len(scratch) + 1 = Len(fds) THEN "dup2" ELSE "dup_above"
  /\ UNCHANGED <<env, fds, moved, before, given>>

\* Where the call ends, its variables do.
Leave ==
  /\ pc' = "idle"
  /\ fds' = <<>> /\ scratch' = <<>> /\ moved' = 0
  /\ before' = tab'

\* The descriptor is not open, or there is no free number for the copy.  The
\* comprehension stands before the try: the copies made so far stay open.
DupAboveFails ==
  /\ pc = "dup_above"
  /\ \/ tab[fds[Len(scratch) + 1]] = Closed
     \/ ~\E f \in Fds : LowestFrom(f, ScratchFrom)
  /\ UNCHANGED <<tab, cloexec, env, given>>
  /\ Leave

\* dup2 closes what is open under the number, and copies without the flag.
Dup2 ==
  /\ pc = "dup2"
  /\ tab' = [tab EXCEPT ![Start + moved] = tab[scratch[moved + 1]]]
  /\ cloexec' = cloexec \ {Start + moved}
  /\ moved' = moved + 1
  /\ pc' = "clear_cloexec"
  /\ UNCHANGED <<env, fds, scratch, before, given>>

ClearCloexec ==
  /\ pc = "clear_cloexec"
  /\ cloexec' = cloexec \ {Start + moved - 1}
  /\ pc' = IF moved = Len(fds) THEN "close" ELSE "dup2"
  /\ UNCHANGED <<tab, env, fds, scratch, moved, before, given>>

\* dup2 or clear_cloexec fails.
PlacingFails ==
  /\ pc \in {"dup2", "clear_cloexec"}
  /\ pc' = "unwind"
  /\ UNCHANGED <<tab, cloexec, env, fds, scratch, moved, before, given>>

\* The finally clause, on the way on ("close") or to raising again ("unwind").
CloseScratch ==
  /\ pc \in {"close", "unwind"} /\ scratch # <<>>
  /\ tab' = [tab EXCEPT ![Head(scratch)] = Closed]
  /\ cloexec' = cloexec \cup {Head(scratch)}
  /\ scratch' = Tail(scratch)
  /\ UNCHANGED <<env, pc, fds, moved, before, given>>

Raise ==
  /\ pc = "unwind" /\ scratch = <<>>
  /\ UNCHANGED <<tab, cloexec, env, given>>
  /\ Leave

SetPid ==
  /\ pc = "set_pid" \/ (pc = "close" /\ scratch = <<>>)
  /\ pid' = "me"
  /\ pc' = "set_fds"
  /\ UNCHANGED <<tab, cloexec, count, names, fds, scratch, moved, before, given>>

SetFds ==
  /\ pc = "set_fds"
  /\ count' = Len(fds)
  /\ pc' = "set_names"
  /\ UNCHANGED <<tab, cloexec, pid, names, fds, scratch, moved, before, given>>

Mutant_Joined(ns) == IF ns = Absent THEN names ELSE FlattenSeq(ns)

\* ":".join(ns), or no variable
Joined(ns) ==
  CASE ns = Absent -> Absent
    [] ns = <<>> -> <<Empty>>
    [] OTHER -> FlattenSeq(ns)

NoNames == [i \in DOMAIN fds |-> <<Unnamed>>]

NameLists == UNION {[1..n -> FdNames] : n \in 0..MaxGiven}

\* The check at the head of the call: names, if there are any, line up with fds.
NamesAccepted(ns) == ns # Absent => Len(ns) = Len(fds)

\* Only here does it matter which names the caller gave and the check let pass.
\* A call that it refused has done nothing.
SetNames ==
  /\ pc = "set_names"
  /\ \E ns \in {Absent} \cup NameLists :
       /\ NamesAccepted(ns)
       /\ names' = Joined(ns)
       /\ given' = IF ns = Absent THEN NoNames ELSE ns
  /\ UNCHANGED <<tab, cloexec, pid, count>>
  /\ Leave

-----------------------------------------------------------------------------
(* activation.py *)

\* _take_environment, for the part that changes something
TakeEnvironment(unset) ==
  IF unset THEN pid' = "unset" /\ count' = 0 /\ names' = Absent ELSE UNCHANGED env

\* _count
Count == IF pid = "me" THEN count ELSE 0

Passed == {Start + i - 1 : i \in 1..Count}

\* The loop over set_cloexec stops at the first number that is not open.
Marked == {f \in Passed : \A g \in Passed : g <= f => g \in Fds /\ tab[g] # Closed}

\* listen_fds, listen_fd_names and listen_fds_with_names differ in what they
\* return, not in what they do.
ListenFdNames(unset, mark) ==
  /\ pc = "idle"
  /\ TakeEnvironment(unset)
  /\ cloexec' = IF mark THEN cloexec \cup Marked ELSE cloexec
  /\ UNCHANGED <<tab, pc, fds, scratch, moved, before, given>>

Names == NamesFound(names, Count)

NamesFit == AsMany(names, Count)

\* unset_listen_environment
UnsetListenEnvironment ==
  /\ pc = "idle"
  /\ TakeEnvironment(TRUE)
  /\ UNCHANGED <<tab, cloexec, pc, fds, scratch, moved, before, given>>

\* A child inherits everything, but LISTEN_PID names its parent.
Fork ==
  /\ pc = "idle" /\ pid = "me"
  /\ pid' = "other"
  /\ UNCHANGED <<tab, cloexec, count, names, pc, fds, scratch, moved, before, given>>

-----------------------------------------------------------------------------
Next ==
  \/ Call \/ DupAbove \/ DupAboveFails \/ Dup2 \/ ClearCloexec \/ PlacingFails
  \/ CloseScratch \/ Raise \/ SetPid \/ SetFds \/ SetNames
  \/ \E unset, mark \in BOOLEAN : ListenFdNames(unset, mark)
  \/ UnsetListenEnvironment \/ Fork

Spec == Init /\ [][Next]_vars

-----------------------------------------------------------------------------
(* Safety *)

\* The variables keep their types; a name that is reported is never empty.
TypeOK ==
  /\ tab \in [Fds -> Fds \cup {Closed}]
  /\ cloexec \subseteq Fds
  /\ pid \in {"me", "other", "unset"}
  /\ count \in Nat
  /\ names \in Seq(Words) \cup {Absent}
  /\ pc \in {"idle", "dup_above", "dup2", "clear_cloexec", "close", "unwind",
            "set_pid", "set_fds", "set_names"}
  /\ fds \in Seq(Fds)
  /\ scratch \in Seq(Fds)
  /\ moved \in 0..Len(fds)
  /\ before \in [Fds -> Fds \cup {Closed}]
  /\ given \in Seq(FdNames \cup {<<Unnamed>>})
  /\ Names \in Seq(Words \ {Empty})

Placed == {Start + i - 1 : i \in 1..moved}

\* The file open under number f is the one that source i had at the call.  A
\* source that was not open then may have become a scratch copy since, and is
\* taken for one.
FromSource(f, i) == before[fds[i]] # Closed => tab[f] = before[fds[i]]

\* The docstring of install_listen_fds: whatever overlap there is between the
\* descriptors handed in, the target range and the scratch copies, each target
\* gets the file its source had at the call, without the close on exec flag,
\* and every number but the targets and the open scratch copies keeps its own.
InstallKeepsFiles ==
  pc # "idle" =>
    /\ \A i \in 1..moved : FromSource(Start + i - 1, i) /\ Start + i - 1 \notin cloexec
    /\ pc \in {"dup_above", "dup2", "clear_cloexec"} =>
         \A i \in DOMAIN scratch : FromSource(scratch[i], i)
    /\ \A f \in Fds \ (Placed \cup Range(scratch)) : tab[f] = before[f]

\* The name a descriptor was installed under, as it should be reported.
FitsName(word, name) == name \in {<<word>>, <<Empty>>} /\ (name = <<Empty>> => word = Unnamed)

\* Names survive the way through LISTEN_FDNAMES: a service for which they were
\* installed is told the one each descriptor was given, UNNAMED for an empty or
\* a missing one, and gets an error, not a shifted list, when one holds a colon.
NamesLineUp ==
  given # <<>> /\ Count # 0 =>
    /\ Count = Len(given)
    /\ NamesFit <=> \A i \in DOMAIN given : Len(given[i]) = 1
    /\ NamesFit => \A i \in DOMAIN given : FitsName(Names[i], given[i])
=============================================================================
