------------------------------- MODULE Reload -------------------------------
(***************************************************************************)
(* The reload of a Type=notify-reload service: the manager notes the time, *)
(* sends SIGHUP and takes the first RELOADING=1 whose MONOTONIC_USEC is no *)
(* older for the answer, and the READY=1 behind it for the end.  The       *)
(* service is the loop of the README and of helper_reload.py over          *)
(* reloading() and ready() of daemon.py.                                   *)
(*                                                                         *)
(* Others send SIGHUP too, and the manager gives up and asks again, so     *)
(* that answers meet requests they were not meant for.  The signal watcher *)
(* is reduced to the SIGHUPs it has still to report (see MpSignals and     *)
(* CpySignals); the configuration is the number of edits in it.            *)
(***************************************************************************)
EXTENDS Naturals, Sequences

CONSTANTS NsPerUsec,   \* _NSEC_PER_USEC
          MaxNs,       \* bound: the clock stops here
          MaxSignals,  \* bound: SIGHUPs sent, by the manager or by others
          MaxEdits,    \* bound: edits of the configuration
          QueueMax     \* datagrams on the manager's socket

ASSUME ReloadAssumption ==
  /\ NsPerUsec \in Nat \ {0}
  /\ {MaxNs, MaxSignals, MaxEdits} \subseteq Nat
  /\ QueueMax \in Nat \ {0}

VARIABLES
  clock,    \* CLOCK_MONOTONIC, in nanoseconds
  edits,    \* the microsecond of each edit of the configuration
  pc,       \* where the service is
  hups,     \* SIGHUPs the watcher has to report
  stamp,    \* MONOTONIC_USEC of its latest reload
  loaded,   \* how many of the edits are in the configuration it works with
  queue,    \* datagrams on the manager's socket, oldest first
  mgr,      \* the unit: "starting", "running", "signalled" or "notified"
  begin,    \* the microsecond of the latest request
  result,   \* what has become of it: "none", "waiting", "done" or "failed"
  nsignals  \* SIGHUPs sent so far

service == <<pc, hups, stamp, loaded>>
manager == <<mgr, begin, result>>
vars == <<clock, edits, service, queue, manager, nsignals>>

\* starting: before ready(); opening: before the watcher is open; waiting: in
\* wait(); stamping, announcing: in reloading(); loading, finishing: in the
\* reload and in the ready() behind it; gone: killed or ended.
PCs == {"starting", "opening", "waiting", "stamping", "announcing", "loading", "finishing", "gone"}

\* now(CLOCK_MONOTONIC) of the manager: whole microseconds
Now == clock \div NsPerUsec

Message(kind, usec) == [kind |-> kind, usec |-> usec]

Init ==
  /\ clock = 0
  /\ edits = <<>>
  /\ pc = "starting" /\ hups = 0 /\ stamp = 0 /\ loaded = 0
  /\ queue = <<>>
  /\ mgr = "starting" /\ begin = 0 /\ result = "none"
  /\ nsignals = 0

-----------------------------------------------------------------------------
(* Time, and those who change the configuration *)

Tick ==
  /\ clock < MaxNs
  /\ clock' = clock + 1
  /\ UNCHANGED <<edits, service, queue, manager, nsignals>>

Edit ==
  /\ Len(edits) < MaxEdits
  /\ edits' = Append(edits, Now)
  /\ UNCHANGED <<clock, service, queue, manager, nsignals>>

-----------------------------------------------------------------------------
(* SIGHUP *)

Unwatched == pc \in {"starting", "opening"}

\* With no watcher open the default action ends the service.  A signal that
\* comes while one is pending adds nothing on MicroPython; on CPython the loop
\* may have taken the first one in already.
Hup ==
  /\ nsignals < MaxSignals
  /\ nsignals' = nsignals + 1
  /\ \/ pc = "gone" /\ UNCHANGED <<pc, hups>>
     \/ Unwatched /\ pc' = "gone" /\ UNCHANGED hups
     \/ /\ pc # "gone" /\ ~Unwatched
        /\ hups' = hups + 1 \/ (hups > 0 /\ hups' = hups)
        /\ UNCHANGED pc
  /\ UNCHANGED <<stamp, loaded>>

OthersHup ==
  /\ Hup
  /\ UNCHANGED <<clock, edits, queue, manager>>

-----------------------------------------------------------------------------
(* The service *)

Send(message) ==
  /\ Len(queue) < QueueMax
  /\ queue' = Append(queue, message)

\* ready(), once the service is up and after each reload
Ready ==
  /\ pc \in {"starting", "finishing"}
  /\ Send(Message("ready", 0))
  /\ pc' = IF pc = "starting" THEN "opening" ELSE "waiting"
  /\ UNCHANGED <<clock, edits, hups, stamp, loaded, manager, nsignals>>

OpenWatcher ==
  /\ pc = "opening"
  /\ pc' = "waiting"
  /\ UNCHANGED <<clock, edits, hups, stamp, loaded, queue, manager, nsignals>>

WaitReturns ==
  /\ pc = "waiting" /\ hups > 0
  /\ hups' = hups - 1
  /\ pc' = "stamping"
  /\ UNCHANGED <<clock, edits, stamp, loaded, queue, manager, nsignals>>

Mutant_MonotonicUsUp == (clock + NsPerUsec - 1) \div NsPerUsec

Mutant_MonotonicUsInNs == clock

Mutant_MonotonicUsInMs == clock \div (1000 * NsPerUsec)

MonotonicUs == clock \div NsPerUsec

\* reloading() fills in the time first and sends it in the same datagram as
\* RELOADING=1, perhaps after a wait for room.
Reloading ==
  /\ pc = "stamping"
  /\ stamp' = MonotonicUs
  /\ pc' = "announcing"
  /\ UNCHANGED <<clock, edits, hups, loaded, queue, manager, nsignals>>

Announce ==
  /\ pc = "announcing"
  /\ Send(Message("reloading", stamp))
  /\ pc' = "loading"
  /\ UNCHANGED <<clock, edits, hups, stamp, loaded, manager, nsignals>>

ReloadTheConfiguration ==
  /\ pc = "loading"
  /\ loaded' = Len(edits)
  /\ pc' = "finishing"
  /\ UNCHANGED <<clock, edits, hups, stamp, queue, manager, nsignals>>

\* SIGTERM in the loop, a message that cannot be sent, a configuration that
\* cannot be read.
Leave ==
  /\ pc # "gone"
  /\ pc' = "gone"
  /\ UNCHANGED <<clock, edits, hups, stamp, loaded, queue, manager, nsignals>>

-----------------------------------------------------------------------------
(* The manager *)

Request ==
  /\ mgr = "running"
  /\ Hup
  /\ mgr' = "signalled" /\ begin' = Now /\ result' = "waiting"
  /\ UNCHANGED <<clock, edits, queue>>

\* Reload timed out: the unit counts as running again, whatever comes later.
GiveUp ==
  /\ mgr \in {"signalled", "notified"}
  /\ mgr' = "running"
  /\ result' = IF result = "waiting" THEN "failed" ELSE result
  /\ UNCHANGED <<clock, edits, service, queue, begin, nsignals>>

\* A RELOADING=1 that nobody asked for is a reload too, one without a request.
TakesReloading(usec) ==
  \/ mgr = "running"
  \/ mgr = "signalled" /\ usec >= begin

TakesReady == mgr \in {"starting", "notified"}

Receive ==
  /\ queue # <<>>
  /\ queue' = Tail(queue)
  /\ IF Head(queue).kind = "reloading"
     THEN /\ mgr' = IF TakesReloading(Head(queue).usec) THEN "notified" ELSE mgr
          /\ UNCHANGED result
     ELSE /\ mgr' = IF TakesReady THEN "running" ELSE mgr
          /\ result' = IF mgr = "notified" /\ result = "waiting" THEN "done" ELSE result
  /\ UNCHANGED <<clock, edits, service, begin, nsignals>>

-----------------------------------------------------------------------------
ServiceStep ==
  \/ Ready \/ OpenWatcher \/ WaitReturns
  \/ Reloading \/ Announce \/ ReloadTheConfiguration

Next ==
  \/ Tick \/ Edit \/ OthersHup
  \/ ServiceStep \/ Leave
  \/ Request \/ GiveUp \/ Receive

Spec == Init /\ [][Next]_vars

\* The service runs and the manager reads its socket.  Nobody has to give up.
FairSpec == Spec /\ WF_vars(ServiceStep) /\ WF_vars(Receive)

-----------------------------------------------------------------------------
(* Properties *)

\* The variables keep their types; MONOTONIC_USEC is on the manager's scale and
\* never ahead of its clock.
TypeOK ==
  /\ clock \in Nat
  /\ edits \in Seq(Nat) /\ \A i \in DOMAIN edits : edits[i] <= Now
  /\ pc \in PCs
  /\ hups \in Nat
  /\ stamp \in 0..Now
  /\ loaded \in 0..Len(edits)
  /\ queue \in Seq([kind : {"reloading", "ready"}, usec : Nat]) /\ Len(queue) <= QueueMax
  /\ mgr \in {"starting", "running", "signalled", "notified"}
  /\ begin \in 0..Now
  /\ result \in {"none", "waiting", "done", "failed"}
  /\ nsignals \in 0..MaxSignals

\* The service works with every edit made before the microsecond usec.
Covers(usec) == \A i \in DOMAIN edits : edits[i] < usec => i <= loaded

\* README.md:146 and the docstring of reloading(): with MONOTONIC_USEC the
\* manager can tell a reload that began before its request from one that began
\* after.  So when a request counts as done, the service has loaded every edit
\* that was there when the request was made, whoever else sent SIGHUP, whatever
\* the manager gave up waiting for and however late the answers come.
AnswerIsFresh == result = "done" => Covers(begin)

\* Liveness: a request is answered, unless the manager gives up or the service
\* ends; no answer is so late, and no SIGHUP so unlucky in its moment, that the
\* unit stays in reload.
ReloadEnds == (result = "waiting") ~> (result # "waiting" \/ pc = "gone")
=============================================================================
