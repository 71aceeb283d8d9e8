# A verification project for micropython-systemd

`mpsystemd` lets a service that runs on CPython or on the MicroPython unix port
speak systemd's protocols: notifications and barriers, the watchdog, signals,
socket activation, the descriptor store and the journal. These modules model the
parts of it that keep state, open descriptors, run beside other code or depend
on the order in which things happen. TLC checks them on small instances; TLAPS
proves the most important results for every value of the constants.

`PROJECT.json` lists the components, runs, mutants, hazards and theorems, and
maps each definition to the source lines it stands for.

## 1. The system

Interaction is of four kinds: datagrams to the service manager and to journald;
the process-wide descriptor table, signal mask and environment, which every
component shares; the event loop, which runs the watchdog task and the tasks
that wait for signals; and time.

| Part | State it keeps | Operations | What is hard | What makes it correct |
|---|---|---|---|---|
| Notifier (`daemon.py`) | address read at construction, one datagram socket opened on demand; the module level functions make one for each call | `notify` and its wrappers, `barrier_begin`/`barrier_finish`/`barrier`, `close`, and the functions of the same names | three system calls per barrier, each may fail with descriptors open; timeout against a late answer; full queue; listener that goes away | no descriptor leaked or confused, none left behind by a module level call; a barrier that returns True vouches for what was sent before it; every write end gets closed |
| Listener (`testing.py`) | bound socket, datagrams with descriptors | `receive`, `close_fds`, `close`, `Datagram.fields` | descriptors in discarded datagrams | as above |
| Watchdog (`watchdog.py`, `daemon.py`) | one notifier per loop, its own or a given one; an interval given or read from the environment | `watchdog_enabled`, `watchdog_period_ms`, `watchdog_loop` | scheduling delays, division of small intervals, children that inherit the environment, cancellation, others who close the given notifier | a loop that runs keeps the service alive, one that died is noticed |
| Signals, MicroPython (`signals.py`, `_impl_mp.py`) | signalfd and the saved mask per watcher; the thread's mask is shared | `open`, `pending`, `wait`, `close` | watchers that overlap; failure between the mask and the signalfd; a signal at any moment | signals of open watchers never have their default action; the mask comes back |
| Signals, CPython (`signals.py`, `_impl_cpy.py`) | queue, event, installed handlers per watcher; the loop's handler table is shared | the same | deliveries scheduled before `close` and run after it; partial failure of `open`; cancelled waiters | each signal reported once and in order; no task sleeps while a signal is queued |
| Socket activation (`activation.py`) | none; reads and clears `LISTEN_*` | `listen_fds`, `listen_fd_names`, `listen_fds_with_names`, `unset_listen_environment` | environment cleared before an error; partial close on exec | names and descriptors line up |
| Activation set up (`testing.py`) | descriptor table, `LISTEN_*` | `install_listen_fds` | overlap of sources, targets and scratch copies | every target gets the file its source had |
| Journal (`journal.py`, `memfd_sealed`) | a shared writer with a socket, a program's own writers; handlers keep one of either | `send`, `send_fields`, `close`, handler `emit` | short writes, failure at each of seven system calls, a writer closed under a handler | whole entries only; no memfd left open |
| Descriptor store (`daemon.py`) | the manager's store | `fdstore`, `fdstore_remove`, barrier | a crash before the message is read, several restarts, names that a socket has too | what was stored comes back under its name, what was removed does not |
| Reload (`daemon.py`) | none | `reloading` with `MONOTONIC_USEC`, `ready` | requests and other SIGHUPs during a reload, late answers, requests given up | the manager never takes an old answer for a new one, and none stays unanswered |
| Encoding (`daemon.py`, `journal.py`, `testing.py`) | none, pure | `build_payload`, `Datagram.fields`, `encode_fields` | newlines in values, names that differ in case, order of dictionaries | what is parsed is what was given |
| Addresses (`_address.py`, `_impl_mp.py`) | none, pure | `encode_unix_address`, `describe`, `_sockaddr_un` | one NUL more or less, at the size of `sun_path` | an accepted address reaches the socket that was meant |
| Platform (`_impl_mp.py`, `_impl_cpy.py`, `_platform.py`) | none of its own | system calls, `SCM_RIGHTS` layout, `poll_fd`, `monotonic_us` | errors in the middle, alignment on two word sizes | the descriptors that were sent are those that are returned |
| Support (`util.py`, `errors.py`, `_aio.py`, `__init__.py`) | none | `booted`, error classes, `sleep_ms` | | |

The hazards behind the last two columns are listed line by line in
`PROJECT.json`, each with the properties aimed at it or the reason why there is
none.

## 2. Modules

| Module | Models | Refines or used by |
|---|---|---|
| `BarrierPromise` | what `daemon.py` promises about barriers, without descriptors or sockets | implemented by `Notifier` |
| `Notifier` | `Notifier` of `daemon.py`, the descriptor table, the listener of `testing.py` | `NotifierProofs`, `MCNotifier` |
| `Watchdog` | `watchdog_enabled`, the period, the loop, the manager's timer | `WatchdogProofs`, `MCWatchdog` |
| `MpSignals` | watchers over `signalfd` and one signal mask | `MpSignalsProofs`, `MCMpSignals` |
| `CpySignals` | watchers over the asyncio event loop | `CpySignalsProofs`, `MCCpySignals` |
| `DescriptorNames` | what `listen_fd_names` makes of `LISTEN_FDNAMES` | `ListenFds`, `Restart` |
| `ListenFds` | `LISTEN_*`, `activation.py`, `install_listen_fds` | `ActivationProofs`, `MCListenFds` |
| `Journal` | `JournalWriter`, `memfd_sealed`, the shared writer, own writers, handlers | `JournalProofs`, `MCJournal` |
| `Reload` | `reloading`, `ready`, `monotonic_us`, the loop around them, the manager's request | `ReloadProofs` |
| `Restart` | `fdstore`, `fdstore_remove`, the manager's store, crash and restart, and the way back through `DescriptorNames` | `ActivationProofs`, `MCRestart` |
| `Payload` | `build_payload`, `Datagram.fields` | `Codec` |
| `JournalFields` | `encode_fields`, and journald's parser | `Codec` |
| `ControlMessage` | `_scm_rights`, `_parse_scm_rights`, and the kernel's side | `Codec` |
| `Addresses` | `_address.py`, `_sockaddr_un`, and the kernel's reading | `Codec` |
| `Codec` | the four of them, each from its input to its reader | `CodecProofs`, `MCCodec` |

The definitions called `Mutant_...` are mistakes one could plausibly make in the
code. They are used nowhere; each is the counterpart of the definition below it
and, put in its place, breaks a property. They show that the property can fail.

### Notifier

A step is one system call; what the code does between two of them touches the
caller's own variables only. `Construct`, `StartNotify`, `StartBarrier` and
`BarrierWithoutPipe` are the entry points; `OpenSocket`, `SocketFails`,
`SendNotify`, `SendBarrier`, `SendRefused` and `SendErrs` are `send_raw`, where
`SendErrs` is any error while the listener is up, with room on its queue or not;
`UndoRead`, `UndoWrite` and `DropWrite` are the `except` and `finally` clauses
of `barrier_begin`; `Finish`, `TimeOut`, `FinishAgain` and `CloseRead` are
`barrier_finish` and the end of `barrier`. `fdtab` is the descriptor table:
`pipe()` and `socket()` take the lowest free numbers, so a number that is closed
too early is given to someone else and the confusion shows. A pipe is at end of
file when no write end is left in `fdtab`, in `queue` or with the listener.

The fields of a message are left out. They do not change what happens; all the
wrappers (`ready`, `status`, `errno`, ...) are `StartNotify`. `fdstore` is a
matter of `Restart`, the text of a message of `Payload`.

The callers in `ModuleCallers` use the module level functions (`notify`,
`barrier`, ... of `daemon.py`), each of which makes a Notifier, reads the
environment again for it, and closes it on every way out: `AfterCall` leads to
`Exit`, the end of the `with` block. The others keep the one they made.

`mark`, `pipe`, `nsent` and `done` are history: what was sent before a barrier
and what was received.

### Watchdog

Times are microseconds as in the code (`UsecPerMs` of them to the millisecond),
kept as countdowns. `left[p]` runs down to the latest moment at which the event
loop will have run loop `p` again; the last `Late` units of it are the window in
which it may run. `mail` holds the time left in which the manager will have
read each ping. `Tick` passes time and is blocked by a countdown that is up, so
the two bounds on lateness are assumptions, stated as constants. `sock[p]` says
whether the loop's notifier has its socket open. A ping opens it when it is not
(`Opened`) and is delivered through it (`Delivered`); a ping that fails may do so
before or after it opened it. A loop may be given a notifier that others use
too; `CloseGiven` is one of them closing it.

`asked` is the `interval_us` of the call. A loop that was given none has it
read from the environment (`ReadInterval`), which the service may have cleared
itself by `watchdog_enabled(unset_environment=True)`, passing the result on or
not (`TakeEnvironment`). An interval that is given is subject to no check of
`WATCHDOG_PID`.

### MpSignals and CpySignals

On MicroPython `open()` is two steps, the mask and the signalfd, because a
signal may arrive between them; `close()` is two as well. `SetMask` delivers
pending signals that become unblocked, as the kernel does. A task in `wait()` is
`"ready"` to poll or `"asleep"`: `WaitPolls` is one poll with what follows from
it, `SleepEnds` the end of `poll_ms`, and between the two a signal may arrive,
be read by another watcher (`WaitPolls`, `Pending`) or find the watcher closed
(`WaitRaises`). `Nested` chooses between watchers that are used as nested `async with` blocks and any order.

On CPython everything up to an `await` is one step of the loop, and signals go
through the interpreter's wakeup pipe, the loop's ready list and `_deliver`.
The event is asyncio's: `set()` moves every waiter to the ready list. Signals
are numbered so that order and duplication can be told. A signal that has lost
its handler by the time the pipe is read becomes an empty item of the ready
list, which the loop passes over (`RunNothing`); in asyncio it becomes none.

### ListenFds

An open file is known by the number it first had, a name by the words its colons
divide it into. `install_listen_fds` takes a system call per step, with failures
of `dup_above`, `dup2` and `clear_cloexec` and the `finally` clause that closes
the scratch copies. A call whose names are not as many as its descriptors is
refused before the first of them (`NamesAccepted`). The three functions of `activation.py` differ in what they return and
are one action; `Names` and `NamesFit` are what they return. How they read
`LISTEN_FDNAMES` is in `DescriptorNames`, which `Restart` shares.

### Journal

`send_raw` and `memfd_sealed` take a system call per step, and each may fail.
`write()` takes any part of what is left. A memfd is the bytes in it, its seal
and its offset. Of an entry only the length and the positions of its bytes
matter: `Bytes` are the positions a `write()` takes, from `ViewFrom`, where the
loop begins it, so that a write from the wrong place leaves the wrong file. `SendTooLarge` is EMSGSIZE, which is
certain, `SendNoBuffers` is ENOBUFS, which is not. A send to a full queue
blocks. A writer that a handler kept from before `close()` opens its socket
again at the handler's next record, as the code does. The same holds for the
writers in `Own`, which a program makes, gives to handlers and closes for itself
(`SendOwn`, `CloseOwn`).

### Reload

The service is the loop of the repository's README and of
`tests/integration/helper_reload.py`; the manager compares timestamps as
systemd does (`TakesReloading`). `reloading` is two steps: the clock is read,
and the message is sent later, when the queue may be full and time has passed.
Anyone may send SIGHUP, the manager may give up a request and make another, and
the configuration is edited at any time, so that answers meet requests they were
not meant for. The configuration is the number of edits in it. The clock runs in
nanoseconds and both sides divide it. `ready` before the watcher is open is what
the helper does: a SIGHUP in between ends the service (`Unwatched`), which is why
`ReloadEnds` allows for a service that is gone.

### Restart

A service hands descriptors to the manager, no more in a message than
`MaxFdsPerMessage`, has them removed, asks for a barrier and dies at any moment.
A send that fails changes nothing here: it is a stutter. `log` is all it ever sent, `acked` what an answered
barrier of the life that sent it vouches for. Messages on their way when it dies
may be lost or not. The way back reads, as `ListenFds` does, what the manager
passes: the sockets first, then the store in any order. Names are sequences of
words as there, so that a colon in a name is one word more. The definitions that
both modules would call `Init`, `Next`, `Spec` and `TypeOK` are `StoreInit`,
`StoreNext`, `StoreSpec` and `StoreTypeOK` here, and `service` is what `pc` is
there, so that one proof module extends both.

### Codec

Four pure functions and their readers. Each behaviour takes one input to its
outcome: `Notify` through `build_payload` and `Datagram.fields`, `Log` through
`encode_fields` and a parser of journald's format, `Pass` a number of
descriptors, refused when it is too large, through `sendmsg` and `recvmsg` with
room for more or fewer,
`Address` through `encode_unix_address`. What the reader should find is said
without the encoding: `Means` for a notification, `Meant` for an entry,
`MeantSocket` for an address, and the set of offsets for descriptors. An entry
is a mapping, whose items `encode_fields` sorts by name, or a sequence of pairs,
which it leaves alone; `NameRank` is how names compare. Texts are
sequences of lines of words where nothing depends on single bytes, and bytes
where it does.

## 3. Runs

| Run | Question | Result |
|---|---|---|
| `notifier` | Can a failure or an interleaving leak a descriptor, or make a barrier lie? Does a module level call leave one behind? Does every step implement `BarrierPromise`? If the listener reads, does every write end get closed and every barrier return? | no; no; yes; yes (145 253 states) |
| `notifier_stuck` | Does a barrier return if the listener does not read? | **no** |
| `mpsignals_nested` | Do nested watchers that share signals keep them blocked and report them? | yes (12 798) |
| `mpsignals_overlap` | And watchers that overlap without nesting? | **no** |
| `watchdog` | Does a running loop keep the service alive, a dead one not, and does the loop never spin? | yes (1 061 277) |
| `watchdog_lost` | Is there room for one lost message? | **no** |
| `cpysignals` | Is every signal reported once, in order, to a task that waits? | yes (87 851) |
| `listenfds` | Does every target get the right file and every descriptor its name? | yes (2 683 983) |
| `journal` | Do only whole entries arrive, with nothing left open, and does a call return? | yes (1 200 134) |
| `reload` | Was everything edited before a request loaded when it counts as done, and does every request get its answer? | yes (103 524) |
| `restart` | Is what a barrier vouched for found under its name after a restart, and what was removed not? | yes (3 179 506) |
| `codec` | Does each reader find what the writer meant? | yes (62 088) |

The three runs that end in a violation compare the code with a sentence of its
documentation; the findings in `PROJECT.json` quote it:

1. `barrier` says it returns False on timeout (`daemon.py:240`). The timeout
   covers the poll; the send before it blocks for ever on a full queue.
2. `SignalSource` says that the default dispositions never run
   (`_impl_mp.py:442`). `close()` restores the mask its own `open()` found, and
   with watchers that overlap unblocks signals of a watcher that is still open.
3. `watchdog.py:6` says that half the interval leaves room for one lost message.
   A ping that cannot be sent ends the loop.

What the models also show, without a run of its own:

* `barrier_finish` answers True when the listener closed its socket with the
  barrier on its queue: the kernel closes the write end with the datagram.
  `BarrierPromise` has this as `Lose`.
* On CPython the later of two watchers of one signal takes the handler over, and
  the first `close()` removes it for both. `CpySignals` has the behaviour, its
  instance gives every watcher signals of its own.
* `check_fdname` takes names outside ASCII, which systemd files under `stored`
  (`NameOf`), so that they do not come back under their own name.
  `KeptUntilRemoved` is about the name systemd uses.
* When the kernel installs fewer descriptors than were sent, `recv` returns
  those and says nothing of the rest (`Pass`): it does not look at `MSG_CTRUNC`.
* A path with a NUL inside is accepted and ends for the kernel at the NUL.
  `CodecAssumption` leaves such paths out, which the environment cannot hold.

### Bounds, and why they are enough

* **Notifier**: two callers, one that keeps its Notifier and one that calls the
  module level functions, four descriptors where they need three each, a queue
  of two, three calls. Any two calls compete for the last descriptor, a
  number is freed by one and taken by the other, the queue fills up, and a
  barrier waits behind a notification of someone else. `MaxOps` bounds the
  calls; no action but those that start a call reads it. There is no symmetry,
  because of the liveness properties.
* **Watchdog**: a service and a child, lateness of one unit on each side, six
  intervals: none, below the shortest period, too short for the lateness, just
  long enough, more than enough, with remainders in both divisions; divisors one
  to three; a call that passes no interval, zero, or one that is shorter or
  longer than the environment's.
* **MpSignals**: three watchers, each sharing a signal with another, one signal
  blocked from the start and one whose default action is harmless. `MaxLost`
  bounds the second opens of an open watcher, which only the overlap run allows.
* **CpySignals**: two watchers, two tasks, three signals, two sent. Two suffice
  for reordering and duplication, and the proofs hold for any number.
* **ListenFds**: up to two descriptors onto the targets 3 and 4 out of the
  numbers 3 to 7, from every set of open descriptors: sources on targets,
  swapped, repeated, closed, and too little room for the copies. Names: a word,
  the empty word, and one with a colon.
* **Journal**: two handlers, the shared writer and its successor, and one of the
  program's own; three descriptors, so that three sockets leave no room for a
  memfd; entries of one, two and four bytes with two the limit of a datagram; a
  queue of two. Four bytes are written in one to four parts, so that a second
  and a third write begin where a first one ended.
* **Reload**: two nanoseconds to the microsecond and a clock that stops at four,
  so that a request falls between two microseconds and two reloads into one;
  three SIGHUPs, among them two requests and one of someone else; two edits; a
  queue of two, which an answer nobody reads can fill.
* **Restart**: two descriptors, one socket whose name a descriptor may be given
  too, three messages, three lives, a queue of two. Three messages are a store,
  a removal or second store, and a barrier; three lives a store of one life, a
  removal in the next and the look in the third. Names: two proper ones, one
  with a colon, one with a control character. Symmetric in the descriptors. Two
  descriptors fit into one message (`MaxFdsPerMessage`); what happens to a call
  with more is in `Codec`, and the theorem holds for every limit.
* **Codec**: up to two states out of five and up to two keywords out of four
  that include two that differ in case, in either order, with four values;
  entries of one field of up to five characters or two of up to two, in bytes of
  base 8 with two digits of length, so that a length holds every byte that has a
  meaning, newline and equals sign included; mappings of up to three fields in
  every order, with names that differ only in case; one to six descriptors sent
  and asked for, on words of four and eight bytes, so that padding makes room for
  one more, and 252 to 254, of which the last are too many; all addresses of up to five bytes over `@`, NUL, `/` and a letter with a
  `sun_path` of four.

`CHECK_DEADLOCK FALSE` stands where the system may stop: a signal may end the
process (`MpSignals*`, `CpySignals*`), the manager kills the service or the
loops end (`Watchdog*`), the service is gone and the bounds are used up
(`Reload`, `Restart`), an input has its outcome (`Codec`). The other runs check
for deadlock.

### Fairness

* `Notifier`: a thread inside a call goes on (weak), and gets through a send
  that is possible again and again (strong): the kernel wakes the senders that
  wait for room in turn. The listener reads and closes what it read (weak); this
  part is what `notifier_stuck` leaves out. No failure and no timeout is
  assumed, except that a poll with a timeout ends, which `TimeOut` being part of
  a call's steps says.
* `Watchdog`: time passes, the event loop and the manager do what is due.
* `MpSignals`: `open` and `close` run on and a sleep ends (weak); a task whose
  sleep is over gets its turn (strong, as the others' steps may come between; the
  event loop serves ready tasks in order).
* `CpySignals`: the loop reads its pipe and works off its ready list.
* `Journal`: the kernel serves each call that need not wait and journald reads
  its socket. Failures are in `Mishap`, outside the fairness, so a call does not
  come back merely because it may fail.
* `Reload`: the service goes on with its loop (weak) and the manager reads its
  socket (weak). Neither time nor giving up a request is assumed, so a request
  is answered and not merely given up.

## 4. Proofs

Checked by TLAPS, for any constants that satisfy the module's assumption.

* `NotifierProofs`. `TypeOK` is inductive. `DescriptorsOwned` is inductive
  together with it: each descriptor has one owner, of the right kind, and
  `HoldsWhatItNeeds` says at which point of a call it is held. From it follows
  `CallsLeaveNothing`: between calls nothing is open but the sockets of the
  Notifiers that are kept. The proof has one
  lemma for opening and one for closing descriptors, and each action cites one
  of them. `BarrierMeansProcessed` is not inductive. Its strengthening is
  `QueueInOrder`: the queue is what was sent and not yet received, in order, and
  a barrier that was sent is either behind nothing unprocessed or still on the
  queue with its write end. A read end at end of file therefore has no datagram
  left on the queue, and everything before it was received.
  `BarrierWaitsForListener`: a barrier that is not answered has its write end on
  the queue or with the listener; it needs that a pipe belongs to one barrier
  (`PipesApart`) and that every open descriptor has its owner. `PromiseKept` maps
  each step to a step of `BarrierPromise` or a stutter under that invariant.
* `MpSignalsProofs`, assuming `Nested`. The saved masks form a stack
  (`MaskIsStacked`): what the n-th watcher saved is the base mask with the
  signals of the watchers below. Closing the innermost takes away only what it
  added; from there `WatchedStayBlocked`, `MaskRestored` and
  `NoDeathWhileWatched`. Without `Nested` they are false (`mpsignals_overlap`).
  `NestedTypeCorrect` follows from the same invariant, and so does
  `NestedSignalsAreRead`: a smaller mask, put on by a failed `open()` or a
  `close()`, drops the pending signals it no longer blocks, and those of a
  watcher that is still open are not among them; and nobody reads a signal but
  through an open watcher that names it.
* `WatchdogProofs`. `PeriodIsHalf`: with a divisor of two or more and an
  interval of at least that many milliseconds, the period in whole
  milliseconds is at most half the interval, for all intervals. `ResetComes`
  says that the next reset of the timer, by a ping on its way or by the one the
  loop is about to send, comes in time, whoever closed the notifier before it; it
  is inductive with `TypeOK`, and together with the first gives
  `LateSlotTolerated`, for an interval that was read or given. `OwnSocketClosed` is
  inductive by itself, over every way a loop may end. `NoFlood` needs to know
  which loop sent which ping: `PingsApart` says that the pings can be dealt out
  to the loops so that those of one loop lie a shortest period apart, a
  period before the next of that loop. Pings on the socket are then no more than
  loops times periods that fit into the manager's lateness, by an injection.
  `DeadLoopsGetNoReprieve`: once the main loop has ended, the timer is reset only
  by pings that were sent before, as no child may send one (`OnlyMainPings`).
* `CpySignalsProofs`. `TypeOK` needs that a watcher installs handlers only for
  what it names, so that `open()` after an `open()` that failed half way leaves
  nothing else behind. `NobodySleepsOnASignal` is inductive with it.
  `OnceAndInOrder` is not: a handler may change hands while a signal is on the
  pipe. `InOrder` strengthens it to the numbers of all watchers: what was
  reported, the queues, the deliveries on the ready list and the pipe ascend.
  Every step but three only drops items (`Picked`) or takes from the front of a
  queue (`Fewer`), and one lemma covers them all; the three are a new signal,
  the reading of the pipe and a delivery. `NoDeathWhileWatched` assumes `Apart`,
  that no two watchers name the same signal; the invariant is that every signal
  an open watcher names has this watcher as its handler.
* `ActivationProofs`, of `ListenFds`. `InstallKeepsFiles`, for any number of
  descriptors and any that are open already. The scratch copies are distinct,
  above the targets and on numbers that were free at the call (`ScratchApart`),
  so placing a target destroys no copy, and closing a copy restores what was
  there. A source that was open at the call is never one of the copies, so it
  still has its file when its turn comes. The targets are assumed to be numbers
  the process may use. `TypeOK` and `NamesLineUp` follow from `EnvironmentInv`:
  `LISTEN_FDNAMES` is what the joined names of the descriptors make of it
  (`InstalledNames`). The heart is `FlattenSingles`: there are as many words as
  names if and only if no name has a colon, and then the words are the names.
  `FlattenSeq` recurs over its argument; `Induct` proves it by the least
  counterexample, a set, and no induction over an operator is needed.
* `ActivationProofs`, of `Restart`: `StoreTypeOK` and `KeptUntilRemoved`, for
  any number of files, names, sockets, lives and messages. They rest on
  `RestartAssumption` and `DescriptorNamesAssumption` alone. `KeptUntilRemoved` speaks of one step and
  of the whole past, so it needs an invariant (`StoreInv`). `Base`: the queue is
  the end of the log, and what is stored was in a message that was handled, under
  the name of that message. `Content`: a message that is certain, being vouched
  for or sent by the life that is still up, is what the store shows as long as no
  message handled later tells against it; only what a dead life sent can have been
  lost. `StartOK`: between `Restart` and `Find` the descriptors and names that
  were passed are what the store owes. `FindFinds` takes them back through
  `FdNamesFound` and `NumbersOf`, with one word to each name of the manager.
* `JournalProofs`. `CallInHand` (what a call works with) and `EntryInMemfd`
  (its memfd holds the bytes of the entry as far as they were written, in order)
  strengthen `TypeOK`, `DescriptorsOwned` and
  `EntriesWhole` to an inductive invariant, for any number of writers of one's
  own.
* `ReloadProofs`. `AnswerIsFresh` rests on the order of time: the timestamps on
  the queue ascend and the edits are in the order in which they were made, so a
  READY=1 behind a RELOADING=1 vouches for every edit before that timestamp, and
  a RELOADING=1 the manager accepted is no older than its request. The proof
  holds for any rate of the clock, any number of senders and any queue.
  `RequestsAreUnderWay`: while the service is there, an open request has an
  answer on the queue that the manager will take, or the service has still to
  send it. A SIGHUP not yet reported gets a time after the request, so an older
  answer that is passed over does no harm, and behind each RELOADING=1 comes a
  READY=1 (`ReadyFollows`).
* `CodecProofs`. `RightsArrive`: the limit, the size of the buffer, the length in its
  header and what `_parse_scm_rights` counts, for any number of descriptors sent,
  asked for and installed, on both word sizes. `AddressReachesItsSocket`: for
  any address and any size of `sun_path`; the heart of it is that the kernel,
  which stops at the first NUL, finds the whole path. `EntriesReadBack`, that is
  `EntryRoundTrip`, for any number of fields, any names and values, any base and
  any number of digits. Each field lies at an offset of its own (`FlattenParts`).
  Where one begins, the parser returns it and goes on behind it: a name holds
  neither a newline nor an equals sign, so the first of them is the one that was
  put there (`TextReads`, `BinaryReads`); the length is read back digit by digit
  (`LengthReadsBack`), and nothing in the value or in the digits is looked at for
  anything else. The fields then follow from the last to the first
  (`ItemsReadBack`). The items of a mapping are there in the order of their names
  (`ItemsSound`), so the order the mapping had is forgotten (`OrderIsForgotten`).
  That the recursive functions of the encoding and of the
  parser exist at all is proved too (`Iteration`, `ParserExists`).
  `NotificationsAreFaithful`, that is `PayloadFaithful`: every line of a state
  that says something has a place in the message, in the order of states and
  lines (`StatesPlaced`), and the keywords lie behind them in the order of their
  names; that a dictionary or a mapping can be put in order is proved by inserting
  its items one by one (`Insert`, `InOrder`). The reader finds these lines and no
  others (`ReaderFinds`), so the last one of a name is what was meant by it
  (`LastMeans`) and the names are those that were given (`NamesFound`). A message
  is never mistaken for a refusal (`MessageIsRead`, `WhyRefused`).

The assumptions: descriptor numbers are not 0, which stands for none; queues,
intervals and sizes are natural numbers; each watcher names a signal; the
targets of an installation are usable numbers; `Main` is one of the processes,
of which there are finitely many; a variable that is not set is no sequence of
words, and the empty word is not the name of what has none; the manager's names
are single words that are neither empty nor improper, there are finitely many
files, and those of the sockets are not among the ones the service opens itself;
newline and equals sign are two bytes, neither of which a name is made of; a
value is no longer than its eight bytes of length can say; the keywords of a
notification are a dictionary, so no two have one name, and neither have two
items of a mapping, whose names can be put in an order; a text has at least one
line and a line at least one word; and a refusal is no message.
TLC evaluates them in every run.

Only model-checked: the liveness properties, `SignalsReported` among them, which
need fairness and ENABLED and are out of the prover's reach. What can be proved
of five of them is their safety, that nobody waits for something that is not
under way: `BarrierWaitsForListener` for `BarrierReturns`, `RequestsAreUnderWay`
for `ReloadEnds`, `DeadLoopsGetNoReprieve` for `FailureNoticed`, and for
`SignalsReported` `NestedSignalsAreRead` on MicroPython and
`NobodySleepsOnASignal` on CPython. `Sorted`, `SortedItems` and
`DatagramLines` are stated by what they return, ascending arrangements of the
items and the places of the lines that are not empty, because `SortSeq` and
`SelectSeq` are defined recursively in a way the provers know nothing of.

## 5. What is not modelled

* `booted`, the error classes, the imports, `sleep_ms`: no state.
* The ffi binding, the `msghdr` and `iovec` layouts and error texts of
  `_impl_mp.py`; the calls themselves are modelled by their effects. On CPython
  the socket module lays out control messages.
* What `str()` makes of a value and how text is decoded; `priority_for_level`
  and the fields a handler collects from a record: a value is a text already.
* `watchdog_trigger`, `errno`, `main_pid`, `extend_timeout` beyond being
  messages: what systemd does with them is not a matter of this code.
* The test driver and the integration tests, except for the loop of
  `helper_reload.py`.
* What a call of `activation.py` that raised leaves behind: the model has it (the
  environment is gone), no property judges it. The same goes for a handler that
  opens its socket again after `close()`, for a second `open()` of an open
  watcher, and for a signal that is delivered when its watcher closes.
* The error that `close()` of a memfd that was sent may report: the descriptor is
  gone all the same, which is what `CloseSent` says.
* A handler that is dropped: nothing in the code reacts to it.

## 6. Plan

1. `Notifier` over `BarrierPromise`, the most used and most delicate part. Done,
   with proofs.
2. `MpSignals`, `Watchdog`. Done, with proofs.
3. `CpySignals`, `ListenFds`. Done, with proofs.
4. `Journal`. Done, with proofs.
5. `Restart`, with `DescriptorNames` taken out of `ListenFds`. Done, with proofs.
6. `Reload`. Done, with proofs.
7. A watchdog loop over a notifier that others close: in `Watchdog`, with
   proofs.
8. `Codec`. Done, with proofs.
