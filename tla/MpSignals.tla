----------------------------- MODULE MpSignals -----------------------------
(***************************************************************************)
(* Signal watching on the MicroPython unix port: SignalWatcher of          *)
(* signals.py over the SignalSource of _impl_mp.py.  Every watcher of the  *)
(* thread changes the one signal mask of the thread, and puts back on      *)
(* close() the mask it found on open().                                    *)
(*                                                                         *)
(* The watchers belong to tasks of one event loop: open(), close() and     *)
(* pending() run to their end without another task in between.  Signals    *)
(* arrive between any two system calls.                                    *)
(***************************************************************************)
EXTENDS Naturals, Sequences

CONSTANTS Signals,     \* signal numbers
          Fatal,       \* those whose default action ends the process
          Watchers,    \* SignalWatcher objects
          Named,       \* the signals each watcher was built with
          Base,        \* the mask the service starts with
          NoMask,      \* None, which is not a mask
          Nested,      \* TRUE: watchers are opened and closed as with blocks
          MaxLost      \* bound: signalfds a second open() replaced

ASSUME SignalsAssumption ==
  /\ Fatal \subseteq Signals
  /\ Base \subseteq Signals
  /\ Named \in [Watchers -> (SUBSET Signals) \ {{}}]
  /\ \A m \in SUBSET Signals : NoMask # m
  /\ Nested \in BOOLEAN
  /\ MaxLost \in Nat

VARIABLES
  mask,      \* the signals the thread blocks
  pend,      \* the signals pending for the process
  killed,    \* the signal that ended the process, as a set; {} while it runs
  fd,        \* SignalSource._fd is an open signalfd
  saved,     \* SignalSource._saved: a mask, or NoMask
  isopen,    \* SignalWatcher._open
  waiting,   \* the task in wait(): "no", "ready" to poll or "asleep"
  at,        \* the thread is "idle", in open() at "signalfd", in close() at "restore"
  cur,       \* ... of this watcher
  nest,      \* history: the open watchers, oldest first
  lost       \* signalfds that were open when open() replaced their number

vars == <<mask, pend, killed, fd, saved, isopen, waiting, at, cur, nest, lost>>

Alive == killed = {}

Init ==
  /\ mask = Base
  /\ pend = {}
  /\ killed = {}
  /\ fd = [w \in Watchers |-> FALSE]
  /\ saved = [w \in Watchers |-> NoMask]
  /\ isopen = [w \in Watchers |-> FALSE]
  /\ waiting = [w \in Watchers |-> "no"]
  /\ at = "idle"
  /\ cur \in Watchers
  /\ nest = <<>>
  /\ lost = 0

-----------------------------------------------------------------------------
(* The kernel *)

\* A signal that is blocked stays pending, once.  Otherwise its default action
\* runs: the service installs no handlers.
Kill(s) ==
  /\ Alive
  /\ IF s \in mask
     THEN pend' = pend \cup {s} /\ UNCHANGED killed
     ELSE killed' = Fatal \cap {s} /\ UNCHANGED pend
  /\ UNCHANGED <<mask, fd, saved, isopen, waiting, at, cur, nest, lost>>

\* sigprocmask(SIG_SETMASK, m): what was pending and is no longer blocked is
\* delivered before the call returns.
SetMask(m) ==
  /\ mask' = m
  /\ pend' = pend \cap m
  /\ IF (pend \ m) \cap Fatal = {}
     THEN UNCHANGED killed
     ELSE \E s \in (pend \ m) \cap Fatal : killed' = {s}

-----------------------------------------------------------------------------
(* open() *)

\* With nested watchers only a closed one is opened.
MayOpen(w) == Nested => ~isopen[w]

Mutant_Blocked(w) == Named[w]

\* sigprocmask(SIG_BLOCK, ...) adds the watcher's signals to the mask.
Blocked(w) == mask \cup Named[w]

OpenBlock(w) ==
  /\ Alive /\ at = "idle" /\ MayOpen(w)
  /\ mask' = Blocked(w)
  /\ saved' = [saved EXCEPT ![w] = mask]
  /\ at' = "signalfd"
  /\ cur' = w
  /\ UNCHANGED <<pend, killed, fd, isopen, waiting, nest, lost>>

IsNested(w) == \E i \in DOMAIN nest : nest[i] = w

\* signalfd() gives a descriptor, and open() returns.
OpenFd(w) ==
  /\ Alive /\ at = "signalfd" /\ cur = w
  /\ fd[w] => lost < MaxLost
  /\ lost' = IF fd[w] THEN lost + 1 ELSE lost
  /\ fd' = [fd EXCEPT ![w] = TRUE]
  /\ isopen' = [isopen EXCEPT ![w] = TRUE]
  /\ nest' = IF IsNested(w) THEN nest ELSE Append(nest, w)
  /\ at' = "idle"
  /\ UNCHANGED <<mask, pend, killed, saved, waiting, cur>>

Mutant_OpenFailsBlocked(w) ==
  /\ Alive /\ at = "signalfd" /\ cur = w
  /\ saved' = [saved EXCEPT ![w] = NoMask]
  /\ at' = "idle"
  /\ UNCHANGED <<mask, pend, killed, fd, isopen, waiting, cur, nest, lost>>

Mutant_OpenFailsOpen(w) ==
  /\ Alive /\ at = "signalfd" /\ cur = w
  /\ SetMask(saved[w])
  /\ saved' = [saved EXCEPT ![w] = NoMask]
  /\ isopen' = [isopen EXCEPT ![w] = TRUE]
  /\ at' = "idle"
  /\ UNCHANGED <<fd, waiting, cur, nest, lost>>

\* signalfd() fails: open() puts the mask back and raises.
OpenFails(w) ==
  /\ Alive /\ at = "signalfd" /\ cur = w
  /\ SetMask(saved[w])
  /\ saved' = [saved EXCEPT ![w] = NoMask]
  /\ at' = "idle"
  /\ UNCHANGED <<fd, isopen, waiting, cur, nest, lost>>

-----------------------------------------------------------------------------
(* wait() and pending() *)

StartWait(w) ==
  /\ Alive /\ at = "idle" /\ waiting[w] = "no"
  /\ waiting' = [waiting EXCEPT ![w] = "ready"]
  /\ UNCHANGED <<mask, pend, killed, fd, saved, isopen, at, cur, nest, lost>>

\* The waiting task is cancelled, in its sleep or before its turn.
CancelWait(w) ==
  /\ Alive /\ at = "idle" /\ waiting[w] # "no"
  /\ waiting' = [waiting EXCEPT ![w] = "no"]
  /\ UNCHANGED <<mask, pend, killed, fd, saved, isopen, at, cur, nest, lost>>

Mutant_Readable(w) == (pend \ mask) \cap Named[w]

\* What a read of the signalfd finds.
Readable(w) == pend \cap Named[w]

\* A read takes one signal off.
Takes(w) == \E s \in Readable(w) : pend' = pend \ {s}

\* pending(), called by the service itself.
Pending(w) ==
  /\ Alive /\ at = "idle" /\ fd[w]
  /\ Takes(w)
  /\ UNCHANGED <<mask, killed, fd, saved, isopen, waiting, at, cur, nest, lost>>

\* One turn of the task in wait(): what it finds is its answer, and when it
\* finds nothing it goes to sleep.
WaitPolls(w) ==
  /\ Alive /\ at = "idle" /\ waiting[w] = "ready" /\ fd[w]
  /\ \/ Takes(w) /\ waiting' = [waiting EXCEPT ![w] = "no"]
     \/ /\ Readable(w) = {} /\ UNCHANGED pend
        /\ waiting' = [waiting EXCEPT ![w] = "asleep"]
  /\ UNCHANGED <<mask, killed, fd, saved, isopen, at, cur, nest, lost>>

\* The watcher was closed under the task: pending() raises SystemdError.
WaitRaises(w) ==
  /\ Alive /\ at = "idle" /\ waiting[w] = "ready" /\ ~fd[w]
  /\ waiting' = [waiting EXCEPT ![w] = "no"]
  /\ UNCHANGED <<mask, pend, killed, fd, saved, isopen, at, cur, nest, lost>>

\* poll_ms milliseconds are over.
SleepEnds(w) ==
  /\ Alive /\ waiting[w] = "asleep"
  /\ waiting' = [waiting EXCEPT ![w] = "ready"]
  /\ UNCHANGED <<mask, pend, killed, fd, saved, isopen, at, cur, nest, lost>>

-----------------------------------------------------------------------------
(* close() *)

\* With nested watchers the innermost is closed first.
MayClose(w) == Nested => nest # <<>> /\ nest[Len(nest)] = w

\* close() of the signalfd
CloseFd(w) ==
  /\ Alive /\ at = "idle" /\ isopen[w] /\ MayClose(w)
  /\ fd' = [fd EXCEPT ![w] = FALSE]
  /\ at' = "restore"
  /\ cur' = w
  /\ UNCHANGED <<mask, pend, killed, saved, isopen, waiting, nest, lost>>

Mutant_MaskAfter(w) == mask \ Named[w]

\* The mask close() leaves behind: the one open() found, if it has one.
MaskAfter(w) == IF saved[w] = NoMask THEN mask ELSE saved[w]

NestWithout(i) ==
  [j \in 1..(Len(nest) - 1) |-> IF j < i THEN nest[j] ELSE nest[j + 1]]

CloseRestore(w) ==
  /\ Alive /\ at = "restore" /\ cur = w
  /\ SetMask(MaskAfter(w))
  /\ saved' = [saved EXCEPT ![w] = NoMask]
  /\ isopen' = [isopen EXCEPT ![w] = FALSE]
  /\ \E i \in DOMAIN nest : nest[i] = w /\ nest' = NestWithout(i)
  /\ at' = "idle"
  /\ UNCHANGED <<fd, waiting, cur, lost>>

-----------------------------------------------------------------------------
Next ==
  \/ \E s \in Signals : Kill(s)
  \/ \E w \in Watchers :
       \/ OpenBlock(w) \/ OpenFd(w) \/ OpenFails(w)
       \/ StartWait(w) \/ CancelWait(w) \/ Pending(w)
       \/ WaitPolls(w) \/ WaitRaises(w) \/ SleepEnds(w)
       \/ CloseFd(w) \/ CloseRestore(w)

Spec == Init /\ [][Next]_vars

\* open() and close() run on, and a sleep ends.  A task whose sleep is over gets
\* its turn however often the other tasks run: the event loop serves ready tasks
\* in order.
Fairness ==
  \A w \in Watchers :
    /\ WF_vars(OpenFd(w) \/ OpenFails(w))
    /\ WF_vars(CloseRestore(w))
    /\ WF_vars(SleepEnds(w))
    /\ SF_vars(WaitPolls(w))

FairSpec == Spec /\ Fairness

-----------------------------------------------------------------------------
(* Safety *)

MaskOrNone == (SUBSET Signals) \cup {NoMask}

\* A watcher is in one of two conditions between calls, whatever failed before:
\* closed, with neither descriptor nor mask, or open with both.
OpenOrClosed ==
  \A w \in Watchers :
    /\ isopen[w] <=> IsNested(w)
    /\ fd[w] <=> isopen[w] /\ ~(at = "restore" /\ cur = w)
    /\ saved[w] # NoMask <=> isopen[w] \/ (at = "signalfd" /\ cur = w)

\* The variables keep their types, and SignalWatcher._open, the signalfd and
\* the saved mask agree about which watchers are open.
TypeOK ==
  /\ mask \subseteq Signals
  /\ pend \subseteq Signals
  /\ killed \subseteq Signals
  /\ fd \in [Watchers -> BOOLEAN]
  /\ saved \in [Watchers -> MaskOrNone]
  /\ isopen \in [Watchers -> BOOLEAN]
  /\ waiting \in [Watchers -> {"no", "ready", "asleep"}]
  /\ at \in {"idle", "signalfd", "restore"}
  /\ cur \in Watchers
  /\ nest \in Seq(Watchers)
  /\ lost \in Nat
  /\ OpenOrClosed

\* A watcher in whose scope the service relies on its signals being blocked.
Watching(w) == isopen[w] /\ ~(at = "restore" /\ cur = w)

\* The docstring of SignalSource: while a watcher is open its signals stay
\* blocked, whichever other watchers come and go.
WatchedStayBlocked == \A w \in Watchers : Watching(w) => Named[w] \subseteq mask

\* The mask when the first n of the open watchers had been opened.
MaskUpTo(n) ==
  Base \cup {s \in Signals : \E j \in 1..n : s \in Named[nest[j]]}

\* Why nested watchers are safe: the saved masks form a stack, each the mask
\* of the watchers opened before, so that closing the innermost one takes away
\* only what it added.
MaskIsStacked ==
  /\ \A i, j \in DOMAIN nest : nest[i] = nest[j] => i = j
  /\ \A i \in DOMAIN nest : saved[nest[i]] = MaskUpTo(i - 1)
  /\ at # "signalfd" => mask = MaskUpTo(Len(nest))
  /\ at = "signalfd" => /\ ~IsNested(cur)
                        /\ saved[cur] = MaskUpTo(Len(nest))
                        /\ mask = MaskUpTo(Len(nest)) \cup Named[cur]
  /\ at = "restore" => nest # <<>> /\ nest[Len(nest)] = cur

\* When every watcher is closed the mask is the one the service started with,
\* also when a signalfd could not be had.
MaskRestored == at = "idle" /\ nest = <<>> => mask = Base

\* The same docstring: the default disposition of a signal that an open watcher
\* names never runs.
NoDeathWhileWatched ==
  [][ \A s \in killed' \ killed : \A w \in Watchers : Watching(w) => s \notin Named[w] ]_vars

-----------------------------------------------------------------------------
(* Liveness *)

\* A task that waits gets an answer for a signal that is pending, also when the
\* signal came after the poll that found nothing and before the task slept,
\* unless the signal went to somebody else or the service ended.
SignalsReported ==
  \A w \in Watchers : \A s \in Signals :
    (waiting[w] # "no" /\ fd[w] /\ s \in pend \cap Named[w])
      ~> (waiting[w] = "no" \/ ~fd[w] \/ s \notin pend \/ ~Alive)
=============================================================================
