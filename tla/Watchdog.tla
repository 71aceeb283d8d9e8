------------------------------ MODULE Watchdog ------------------------------
(***************************************************************************)
(* The watchdog: watchdog_enabled of daemon.py, the ping loop of           *)
(* watchdog.py in the service and in a child process that inherited its    *)
(* environment, and the timer with which the service manager watches them. *)
(*                                                                         *)
(* Time is in microseconds and every clock is a countdown, so that nothing *)
(* grows for ever.                                                         *)
(***************************************************************************)
EXTENDS Naturals, Sequences, FiniteSets

CONSTANTS Procs,        \* the processes that share the environment
          Main,         \* the one WATCHDOG_PID names, when it is set
          UsecPerMs,    \* _USEC_PER_MS
          Intervals,    \* the values WATCHDOG_USEC may have; 0 for no usable one
          Asked,        \* the values a service may pass for interval_us
          None,         \* no such value
          Divisors,     \* the divisors the service may pass
          Late,         \* bound: how late the event loop runs a task
          ManagerLate   \* bound: how long a ping lies on the manager's socket

ASSUME WatchdogAssumption ==
  /\ Main \in Procs /\ IsFiniteSet(Procs)
  /\ UsecPerMs \in Nat \ {0}
  /\ Intervals \subseteq Nat
  /\ Asked \subseteq Nat \cup {None} /\ None \notin Nat
  /\ Divisors \subseteq Nat \ {0}
  /\ Late \in Nat
  /\ ManagerLate \in Nat

VARIABLES
  usec,      \* WATCHDOG_USEC
  pidenv,    \* WATCHDOG_PID: "unset", "main" or "bad"
  addr,      \* the notifier has an address
  asked,     \* the interval_us the service passes, or None
  divisor,
  owned,     \* watchdog_loop was given no notifier and makes its own
  cleared,   \* the processes that have removed the variables
  interval_us,  \* of each loop: None until it was passed or read
  pc,        \* each loop: "start", "running", "off", "failed" or "cancelled"
  left,      \* time until the event loop has run the loop at the latest
  sock,      \* the loop's notifier has its socket open
  mail,      \* pings on the manager's socket: the time left to read each
  age,       \* time since the manager last reset its timer
  expired    \* the manager has killed the service

config == <<usec, pidenv, addr, asked, divisor, owned>>
env == <<cleared, interval_us>>
loops == <<pc, left, sock>>
manager == <<mail, age, expired>>
vars == <<config, env, loops, manager>>

-----------------------------------------------------------------------------
Mutant_EnabledForAnyone(p) ==
  IF p \in cleared \/ pidenv = "bad" THEN 0 ELSE usec

\* The interval belongs to the process that WATCHDOG_PID names.
WatchdogEnabled(p) ==
  IF p \in cleared \/ pidenv = "bad" \/ (pidenv = "main" /\ p # Main) THEN 0 ELSE usec

MIN_PERIOD_MS == 1

Mutant_PeriodUnclamped(interval, div) == (interval \div div) \div UsecPerMs

Mutant_PeriodIsInterval(interval, div) ==
  LET period == interval \div UsecPerMs
  IN  IF period < MIN_PERIOD_MS THEN MIN_PERIOD_MS ELSE period

WatchdogPeriodMs(interval, div) ==
  LET period == (interval \div div) \div UsecPerMs
  IN  IF period < MIN_PERIOD_MS THEN MIN_PERIOD_MS ELSE period

\* The interval of a loop that has not read it yet is the one it would find.
Interval(p) == IF interval_us[p] = None THEN WatchdogEnabled(p) ELSE interval_us[p]

Period(p) == WatchdogPeriodMs(Interval(p), divisor) * UsecPerMs

-----------------------------------------------------------------------------
Init ==
  /\ usec \in Intervals
  /\ pidenv \in {"unset", "main", "bad"}
  /\ addr \in BOOLEAN
  /\ asked \in Asked
  /\ divisor \in Divisors
  /\ owned \in BOOLEAN
  /\ cleared = {}
  /\ interval_us = [p \in Procs |-> asked]
  /\ pc = [p \in Procs |-> "start"]
  /\ left = [p \in Procs |-> Late]
  /\ sock = [p \in Procs |-> FALSE]
  /\ mail = <<>>
  /\ age = 0
  /\ expired = FALSE

Goto(p, label) == pc' = [pc EXCEPT ![p] = label]

\* start_watchdog, or the loop itself, reads the interval it was not given.
ReadInterval(p) ==
  /\ ~expired /\ pc[p] = "start" /\ interval_us[p] = None
  /\ interval_us' = [interval_us EXCEPT ![p] = WatchdogEnabled(p)]
  /\ UNCHANGED <<config, cleared, loops, manager>>

\* watchdog_enabled(unset_environment=True), before the loop has its interval.
\* The service passes the result on, or drops it.
TakeEnvironment(p) ==
  /\ ~expired /\ pc[p] = "start" /\ interval_us[p] = None
  /\ cleared' = cleared \cup {p}
  /\ interval_us' \in {interval_us, [interval_us EXCEPT ![p] = WatchdogEnabled(p)]}
  /\ UNCHANGED <<config, loops, manager>>

\* watchdog_loop up to its while: without an interval or without an address
\* it returns.
ReturnAtOnce(p) ==
  /\ ~expired /\ pc[p] = "start" /\ interval_us[p] # None
  /\ interval_us[p] = 0 \/ ~addr
  /\ Goto(p, "off")
  /\ UNCHANGED <<config, env, left, sock, manager>>

\* A ping is due in the last Late microseconds of the countdown, and at once
\* when the loop begins.
Due(p) ==
  \/ pc[p] = "start" /\ interval_us[p] \notin {None, 0} /\ addr
  \/ pc[p] = "running" /\ left[p] <= Late

\* A closed notifier sends nothing, as one without an address does.
Mutant_OpenedOnce(p) == IF pc[p] = "start" THEN [sock EXCEPT ![p] = TRUE] ELSE sock

\* send_raw opens the socket for the first ping, and whenever it finds that
\* somebody closed the notifier.
Opened(p) == [sock EXCEPT ![p] = TRUE]

\* The manager has the ping on its socket when it went through an open one.
Delivered(p) == IF Opened(p)[p] THEN Append(mail, ManagerLate) ELSE mail

\* Counting the period from when the ping was due.
Mutant_PingFromDeadline(p) ==
  /\ ~expired /\ Due(p)
  /\ sock' = Opened(p)
  /\ mail' = Delivered(p)
  /\ Goto(p, "running")
  /\ left' = [left EXCEPT ![p] = @ + Period(p) + Late]
  /\ UNCHANGED <<config, env, age, expired>>

\* watchdog_ping is delivered, and the loop sleeps for a period.
Ping(p) ==
  /\ ~expired /\ Due(p)
  /\ sock' = Opened(p)
  /\ mail' = Delivered(p)
  /\ Goto(p, "running")
  /\ left' = [left EXCEPT ![p] = Period(p) + Late]
  /\ UNCHANGED <<config, env, age, expired>>

Mutant_SocketAtEnd(p, s) == s

\* The finally clause closes the notifier the loop made.
SocketAtEnd(p, s) == IF owned THEN [s EXCEPT ![p] = FALSE] ELSE s

\* watchdog_ping raises OSError, before or after it opened the socket, which
\* ends the loop and its task.
PingFails(p) ==
  /\ ~expired /\ Due(p)
  /\ Goto(p, "failed")
  /\ \E s \in {sock, Opened(p)} : sock' = SocketAtEnd(p, s)
  /\ UNCHANGED <<config, env, left, manager>>

\* The task is cancelled in its sleep, or before its first turn.
Cancel(p) ==
  /\ ~expired /\ pc[p] \in {"start", "running"}
  /\ Goto(p, "cancelled")
  /\ sock' = SocketAtEnd(p, sock)
  /\ UNCHANGED <<config, env, left, manager>>

\* Notifier.close by another user of the notifier the loop was given.
CloseGiven(p) ==
  /\ ~expired /\ ~owned /\ sock[p]
  /\ sock' = [sock EXCEPT ![p] = FALSE]
  /\ UNCHANGED <<config, env, pc, left, manager>>

-----------------------------------------------------------------------------
(* The service manager, and time *)

Receive ==
  /\ ~expired /\ mail # <<>>
  /\ mail' = Tail(mail)
  /\ age' = 0
  /\ UNCHANGED <<config, env, loops, expired>>

Expire ==
  /\ ~expired /\ usec # 0 /\ age > usec
  /\ expired' = TRUE
  /\ UNCHANGED <<config, env, loops, mail, age>>

Counts(p) == pc[p] \in {"start", "running"}

\* Time passes when no bound of a countdown is up.  Past the interval the age
\* of the timer does not matter any more.
Tick ==
  /\ ~expired /\ (age <= usec \/ usec = 0)
  /\ \A p \in Procs : Counts(p) => left[p] > 0
  /\ \A i \in DOMAIN mail : mail[i] > 0
  /\ left' = [p \in Procs |-> IF Counts(p) THEN left[p] - 1 ELSE left[p]]
  /\ mail' = [i \in DOMAIN mail |-> mail[i] - 1]
  /\ age' = IF usec = 0 THEN 0 ELSE age + 1
  /\ UNCHANGED <<config, env, pc, sock, expired>>

Next ==
  \/ \E p \in Procs :
       \/ ReadInterval(p) \/ TakeEnvironment(p) \/ ReturnAtOnce(p)
       \/ Ping(p) \/ PingFails(p) \/ Cancel(p) \/ CloseGiven(p)
  \/ Receive \/ Expire \/ Tick

Spec == Init /\ [][Next]_vars

\* Time passes, the event loop runs its tasks and the manager does its work.
FairSpec ==
  /\ Spec
  /\ WF_vars(Tick) /\ WF_vars(Receive) /\ WF_vars(Expire)
  /\ \A p \in Procs : WF_vars(ReadInterval(p) \/ ReturnAtOnce(p) \/ Ping(p) \/ PingFails(p))

-----------------------------------------------------------------------------
(* Safety *)

\* The variables keep their types, and no countdown starts beyond its bound.
TypeOK ==
  /\ usec \in Intervals
  /\ pidenv \in {"unset", "main", "bad"}
  /\ addr \in BOOLEAN
  /\ asked \in Asked
  /\ divisor \in Divisors
  /\ owned \in BOOLEAN
  /\ cleared \subseteq Procs
  /\ interval_us \in [Procs -> Nat \cup {None}]
  /\ pc \in [Procs -> {"start", "running", "off", "failed", "cancelled"}]
  /\ left \in [Procs -> Nat]
  /\ \A p \in Procs : left[p] <= IF pc[p] = "start" THEN Late ELSE Period(p) + Late
  /\ sock \in [Procs -> BOOLEAN]
  /\ mail \in Seq(0..ManagerLate)
  /\ age \in Nat
  /\ expired \in BOOLEAN

\* The interval leaves the period, the lateness of the event loop and that of
\* the manager room.
Slack == Period(Main) + Late + ManagerLate <= usec

Serviced == Interval(Main) # 0 /\ addr /\ pc[Main] \in {"start", "running"}

\* Why a serviced timer does not expire: the next reset, by a ping on the
\* manager's socket or by the one the loop sends next, comes in time, also when
\* somebody closes the notifier the loop was given.
ResetComes ==
  Serviced =>
    IF mail = <<>> THEN age + left[Main] <= Period(Main) + Late
    ELSE age + mail[1] <= Period(Main) + Late + ManagerLate

\* What the comment at the head of watchdog.py speaks of: half the manager's
\* interval or less as the period, and an interval of at least divisor
\* milliseconds, with an event loop and a manager that are late by up to half
\* the interval between them.
WellInside ==
  /\ divisor >= 2 /\ divisor * UsecPerMs <= Interval(Main) /\ Interval(Main) <= usec
  /\ 2 * (Late + ManagerLate) <= usec

\* That comment: there is room for a late scheduling slot.  A loop that runs
\* keeps the service alive, whether it read its interval or was given one.
LateSlotTolerated == WellInside => (Serviced => ~expired /\ age <= usec)

\* The other half of that comment, room for one lost message: a loop of which
\* one ping could not be sent does not cost the service its life.
LostMessageTolerated ==
  WellInside => (Serviced \/ pc[Main] = "failed" => ~expired)

\* A loop never spins, not even for an interval that is shorter than the
\* divisor in milliseconds: its pings are MIN_PERIOD_MS apart.
NoFlood ==
  Len(mail) <= Cardinality(Procs) * (ManagerLate \div (MIN_PERIOD_MS * UsecPerMs) + 1)

\* A loop that has ended leaves no socket of its own open.
OwnSocketClosed ==
  \A p \in Procs : owned /\ ~Counts(p) => ~sock[p]

-----------------------------------------------------------------------------
(* Liveness *)

\* The watchdog bites: when the loop of the main process died, the manager
\* finds out, although a child that inherited the environment starts a loop too.
FailureNoticed ==
  (pidenv = "main" /\ asked = None /\ usec # 0 /\ pc[Main] = "failed") ~> expired
=============================================================================
