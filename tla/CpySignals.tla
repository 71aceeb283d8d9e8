----------------------------- MODULE CpySignals -----------------------------
(***************************************************************************)
(* Signal watching on CPython: SignalWatcher of signals.py over the        *)
(* SignalSource of _impl_cpy.py, which has the event loop call _deliver    *)
(* for every signal and keeps a queue and an asyncio.Event per watcher.    *)
(*                                                                         *)
(* The event loop runs one callback or task at a time and everything up to *)
(* an await is one step.  Signals arrive at any moment; the interpreter's  *)
(* own handler only writes their number to the loop's wakeup pipe.         *)
(***************************************************************************)
EXTENDS Naturals, Sequences, SequencesExt

CONSTANTS Signals,     \* signal numbers
          Fatal,       \* those whose default action ends the process
          Watchers,    \* SignalWatcher objects
          Named,       \* the signals each watcher was built with
          Tasks,       \* tasks that wait for signals
          None,        \* no watcher, no task
          MaxKills     \* bound: signals sent to the service

ASSUME CpySignalsAssumption ==
  /\ Fatal \subseteq Signals
  /\ Named \in [Watchers -> (SUBSET Signals) \ {{}}]
  /\ None \notin Watchers \cup Tasks
  /\ MaxKills \in Nat

VARIABLES
  killed,     \* the signal that ended the process, as a set; {} while it runs
  handler,    \* the loop's handlers: the watcher whose _deliver is called, or None
  wakeup,     \* signals on the wakeup pipe, oldest first
  ready,      \* callbacks and tasks the loop will run, in order
  inloop,     \* SignalSource._loop is set
  installed,  \* SignalSource._installed
  queue,      \* SignalSource._queue
  flag,       \* SignalSource._event is set
  waiters,    \* tasks in wait() on the watcher's event, in order
  isopen,     \* SignalWatcher._open
  task,       \* the watcher a task is in wait() for, or None
  sent,       \* signals sent so far, which numbers them
  last        \* history: the number of the latest signal each watcher reported

loop == <<handler, wakeup, ready>>
source == <<inloop, installed, queue, flag, waiters, isopen>>
vars == <<killed, loop, source, task, sent, last>>

Alive == killed = {}

Init ==
  /\ killed = {}
  /\ handler = [s \in Signals |-> None]
  /\ wakeup = <<>>
  /\ ready = <<>>
  /\ inloop = [w \in Watchers |-> FALSE]
  /\ installed = [w \in Watchers |-> {}]
  /\ queue = [w \in Watchers |-> <<>>]
  /\ flag = [w \in Watchers |-> FALSE]
  /\ waiters = [w \in Watchers |-> <<>>]
  /\ isopen = [w \in Watchers |-> FALSE]
  /\ task = [t \in Tasks |-> None]
  /\ sent = 0
  /\ last = [w \in Watchers |-> 0]

Delivery(w, n) == [task |-> None, of |-> w, n |-> n]
Turn(t) == [task |-> t, of |-> None, n |-> 0]

-----------------------------------------------------------------------------
(* The interpreter and the event loop *)

\* A signal without a handler has its default action.
Kill(s) ==
  /\ sent < MaxKills
  /\ sent' = sent + 1
  /\ IF handler[s] = None
     THEN killed' = Fatal \cap {s} /\ UNCHANGED wakeup
     ELSE wakeup' = Append(wakeup, [sig |-> s, n |-> sent + 1]) /\ UNCHANGED killed
  /\ UNCHANGED <<handler, ready, source, task, last>>

\* The loop reads its wakeup pipe and schedules the handler of every signal; for
\* one that has none any more that comes to nothing.
Scheduled == [i \in DOMAIN wakeup |-> Delivery(handler[wakeup[i].sig], wakeup[i].n)]

ReadWakeup ==
  /\ wakeup # <<>>
  /\ wakeup' = <<>>
  /\ ready' = ready \o Scheduled
  /\ UNCHANGED <<killed, handler, source, task, sent, last>>

-----------------------------------------------------------------------------
(* open() and close() *)

\* open() makes a new event; a task that waits on the old one stays there.
NewEvent(w) ==
  /\ inloop' = [inloop EXCEPT ![w] = TRUE]
  /\ flag' = [flag EXCEPT ![w] = FALSE]
  /\ waiters' = [waiters EXCEPT ![w] = <<>>]

Mutant_Install(w, S) ==
  /\ handler' = [s \in Signals |-> IF s \in S THEN w ELSE handler[s]]
  /\ installed' = [installed EXCEPT ![w] = S]

\* add_signal_handler replaces whatever handler the signals had.
Install(w, S) ==
  /\ handler' = [s \in Signals |-> IF s \in S THEN w ELSE handler[s]]
  /\ installed' = [installed EXCEPT ![w] = @ \cup S]

Open(w) ==
  /\ NewEvent(w)
  /\ Install(w, Named[w])
  /\ isopen' = [isopen EXCEPT ![w] = TRUE]
  /\ UNCHANGED <<killed, wakeup, ready, queue, task, sent, last>>

\* add_signal_handler raises for one of the signals, after some others.
OpenFails(w) ==
  /\ NewEvent(w)
  /\ \E S \in SUBSET Named[w] : S # Named[w] /\ Install(w, S)
  /\ UNCHANGED <<killed, wakeup, ready, queue, isopen, task, sent, last>>

Mutant_Removed(w) == Signals

\* remove_signal_handler leaves the default action.
Removed(w) == installed[w]

Close(w) ==
  /\ isopen[w]
  /\ handler' = [s \in Signals |-> IF s \in Removed(w) THEN None ELSE handler[s]]
  /\ installed' = [installed EXCEPT ![w] = {}]
  /\ inloop' = [inloop EXCEPT ![w] = FALSE]
  /\ queue' = [queue EXCEPT ![w] = <<>>]
  /\ isopen' = [isopen EXCEPT ![w] = FALSE]
  /\ UNCHANGED <<killed, wakeup, ready, flag, waiters, task, sent, last>>

-----------------------------------------------------------------------------
(* pending() and wait() *)

\* pending() with a signal on the queue
Take(w) ==
  /\ queue[w] # <<>>
  /\ queue' = [queue EXCEPT ![w] = Tail(@)]
  /\ flag' = [flag EXCEPT ![w] = @ /\ Tail(queue[w]) # <<>>]
  /\ last' = [last EXCEPT ![w] = Head(queue[w])]

Pending(w) ==
  /\ inloop[w]
  /\ Take(w)
  /\ UNCHANGED <<killed, loop, inloop, installed, waiters, isopen, task, sent>>

\* The body of the while loop in wait(), run by task t for watcher w: pending()
\* raises, or returns a signal, or the task goes to sleep on the event.
WaitRaises(t, w) ==
  /\ ~inloop[w]
  /\ task' = [task EXCEPT ![t] = None]
  /\ UNCHANGED <<source, last>>

WaitReturns(t, w) ==
  /\ inloop[w]
  /\ Take(w)
  /\ task' = [task EXCEPT ![t] = None]
  /\ UNCHANGED <<inloop, installed, waiters, isopen>>

WaitSleeps(t, w) ==
  /\ inloop[w] /\ queue[w] = <<>>
  /\ task' = [task EXCEPT ![t] = w]
  /\ flag' = [flag EXCEPT ![w] = FALSE]
  /\ waiters' = [waiters EXCEPT ![w] = Append(@, t)]
  /\ UNCHANGED <<inloop, installed, queue, isopen, last>>

WaitBody(t, w) == WaitRaises(t, w) \/ WaitReturns(t, w) \/ WaitSleeps(t, w)

StartWait(t, w) ==
  /\ task[t] = None
  /\ WaitBody(t, w)
  /\ UNCHANGED <<killed, loop, sent>>

\* The event is set under a task that sleeps on it, and its turn comes.
RunTask ==
  /\ ready # <<>> /\ Head(ready).task # None
  /\ LET t == Head(ready).task IN WaitBody(t, task[t])
  /\ ready' = Tail(ready)
  /\ UNCHANGED <<killed, handler, wakeup, sent>>

Mutant_Woken(w) == IF flag[w] \/ waiters[w] = <<>> THEN 0 ELSE 1

\* Event.set() wakes every task that waits on the event, unless it was set.
Woken(w) == IF flag[w] THEN 0 ELSE Len(waiters[w])

Mutant_Enqueue(w, n) == <<n>> \o queue[w]

Enqueue(w, n) == Append(queue[w], n)

\* _deliver, also after the watcher was closed
RunDeliver ==
  /\ ready # <<>> /\ Head(ready).of # None
  /\ LET w == Head(ready).of
     IN  /\ queue' = [queue EXCEPT ![w] = Enqueue(w, Head(ready).n)]
         /\ flag' = [flag EXCEPT ![w] = TRUE]
         /\ waiters' = [waiters EXCEPT ![w] = SubSeq(@, Woken(w) + 1, Len(@))]
         /\ ready' = Tail(ready) \o [i \in 1..Woken(w) |-> Turn(waiters[w][i])]
  /\ UNCHANGED <<killed, handler, wakeup, inloop, installed, isopen, task, sent, last>>

RunNothing ==
  /\ ready # <<>> /\ Head(ready).task = None /\ Head(ready).of = None
  /\ ready' = Tail(ready)
  /\ UNCHANGED <<killed, handler, wakeup, source, task, sent, last>>

\* A task waits in one place.
Without(s, places) == IF places = {} THEN s ELSE RemoveAt(s, CHOOSE i \in places : TRUE)

\* The task is cancelled, asleep or with its turn already scheduled.
CancelWait(t) ==
  /\ task[t] # None
  /\ task' = [task EXCEPT ![t] = None]
  /\ waiters' = [w \in Watchers |->
                    Without(waiters[w], {i \in DOMAIN waiters[w] : waiters[w][i] = t})]
  /\ ready' = Without(ready, {i \in DOMAIN ready : ready[i].task = t})
  /\ UNCHANGED <<killed, handler, wakeup, inloop, installed, queue, flag, isopen, sent, last>>

-----------------------------------------------------------------------------
Next ==
  /\ Alive
  /\ \/ \E s \in Signals : Kill(s)
     \/ ReadWakeup \/ RunDeliver \/ RunTask \/ RunNothing
     \/ \E w \in Watchers :
          \/ Open(w) \/ OpenFails(w) \/ Close(w) \/ Pending(w)
          \/ \E t \in Tasks : StartWait(t, w)
     \/ \E t \in Tasks : CancelWait(t)

Spec == Init /\ [][Next]_vars

\* The event loop runs: it reads its wakeup pipe and works through what is ready.
FairSpec ==
  /\ Spec
  /\ WF_vars(Alive /\ ReadWakeup)
  /\ WF_vars(Alive /\ (RunDeliver \/ RunTask \/ RunNothing))

-----------------------------------------------------------------------------
(* Safety *)

\* The loop calls a watcher only for what it has installed, and an open watcher
\* has installed all it names, whatever failed before.
Consistent ==
  \A w \in Watchers :
    /\ \A s \in Signals : handler[s] = w => s \in installed[w]
    /\ isopen[w] => inloop[w] /\ installed[w] = Named[w]

ReadyItem == [task : Tasks \cup {None}, of : Watchers \cup {None}, n : Nat]

\* The variables keep their types, and a watcher's flags, its list of installed
\* handlers and the loop's table agree.
TypeOK ==
  /\ killed \subseteq Signals
  /\ handler \in [Signals -> Watchers \cup {None}]
  /\ wakeup \in Seq([sig : Signals, n : Nat])
  /\ ready \in Seq(ReadyItem)
  /\ inloop \in [Watchers -> BOOLEAN]
  /\ installed \in [Watchers -> SUBSET Signals]
  /\ queue \in [Watchers -> Seq(Nat)]
  /\ flag \in [Watchers -> BOOLEAN]
  /\ waiters \in [Watchers -> Seq(Tasks)]
  /\ isopen \in [Watchers -> BOOLEAN]
  /\ task \in [Tasks -> Watchers \cup {None}]
  /\ sent \in Nat
  /\ last \in [Watchers -> Nat]
  /\ Consistent

\* The comment in wait() about clearing the event before waiting for it: a task
\* sleeps only on a clear event, and never while its watcher has a signal.
NobodySleepsOnASignal ==
  \A w \in Watchers : waiters[w] # <<>> => queue[w] = <<>> /\ ~flag[w]

\* Item i of a sequence on the way to watcher w, which is on its queue, on the
\* loop's list or on the wakeup pipe.
DueInLoop(w, i) == ready[i].of = w
DueInPipe(w, i) == handler[wakeup[i].sig] = w

\* A watcher reports each signal once, and in the order they were sent, however
\* it is closed, opened and polled in between: what it reported last, what is on
\* its queue, what the loop will deliver and what is still on the pipe ascend.
OnceAndInOrder ==
  \A w \in Watchers :
    /\ \A i \in DOMAIN queue[w] :
         /\ last[w] < queue[w][i]
         /\ \A j \in DOMAIN queue[w] : i < j => queue[w][i] < queue[w][j]
    /\ \A i \in DOMAIN ready : DueInLoop(w, i) =>
         /\ last[w] < ready[i].n
         /\ \A j \in DOMAIN queue[w] : queue[w][j] < ready[i].n
         /\ \A j \in DOMAIN ready : i < j /\ DueInLoop(w, j) => ready[i].n < ready[j].n
    /\ \A i \in DOMAIN wakeup : DueInPipe(w, i) =>
         /\ last[w] < wakeup[i].n
         /\ \A j \in DOMAIN queue[w] : queue[w][j] < wakeup[i].n
         /\ \A j \in DOMAIN ready : DueInLoop(w, j) => ready[j].n < wakeup[i].n
         /\ \A j \in DOMAIN wakeup : i < j /\ DueInPipe(w, j) => wakeup[i].n < wakeup[j].n

\* The docstring of SignalWatcher: what an open watcher names is reported to it,
\* so its default action never runs.
NoDeathWhileWatched ==
  [][ \A s \in killed' \ killed : \A w \in Watchers : isopen[w] => s \notin Named[w] ]_vars

-----------------------------------------------------------------------------
(* Liveness *)

InWait(t, w) ==
  /\ task[t] = w
  /\ (\E i \in DOMAIN waiters[w] : waiters[w][i] = t) \/ (\E i \in DOMAIN ready : ready[i].task = t)

SignalDue(w) ==
  \/ queue[w] # <<>>
  \/ \E i \in DOMAIN ready : DueInLoop(w, i)
  \/ \E i \in DOMAIN wakeup : DueInPipe(w, i)

\* When a signal is on its way to an open watcher and a task waits for one, the
\* task is not left asleep with the signal.
SignalsReported ==
  \A w \in Watchers :
    LET due == Alive /\ isopen[w] /\ SignalDue(w) /\ \E t \in Tasks : InWait(t, w)
    IN  due ~> ~due
=============================================================================
