------------------------------- MODULE Restart -------------------------------
(***************************************************************************)
(* The descriptor store: fdstore and fdstore_remove of daemon.py, the      *)
(* manager that keeps what it is handed, and a service that dies at any    *)
(* moment, is started again and asks listen_fds_with_names what it has.    *)
(*                                                                         *)
(* A message that is still on its way when the service dies may or may not *)
(* count; a barrier that was answered says that everything its life sent   *)
(* before it does.  How a barrier gets its answer is the matter of         *)
(* Notifier.                                                               *)
(*                                                                         *)
(* No name here is one of ListenFds, so that ActivationProofs extends both.*)
(***************************************************************************)
EXTENDS DescriptorNames, FiniteSets

CONSTANTS Files,         \* open files the service has at first
          Sockets,       \* what its .socket units pass: a sequence of [file, name]
          Improper,      \* words with a control character, or too long
          Polls,         \* what a program may say about polling: TRUE, FALSE or None
          ManagerNames,  \* names the manager takes for names
          Stored,        \* the word it uses for any other
          MaxFdsPerMessage, \* descriptors a message takes
          QueueMax,      \* datagrams on the manager's socket
          MaxRequests,   \* bound: messages sent
          MaxLives       \* bound: times the service is started

ASSUME RestartAssumption ==
  /\ IsFiniteSet(Files) /\ {Stored} \cup Improper \subseteq Words
  /\ Polls \subseteq BOOLEAN \cup {Absent}
  /\ <<Stored>> \in ManagerNames
  /\ ManagerNames \subseteq Seq(Words \ ({Empty} \cup Improper))
  /\ \A n \in ManagerNames : Len(n) = 1
  /\ Sockets \in Seq(Range(Sockets))
  /\ \A s \in Range(Sockets) : s.file \notin Files /\ s.name \in ManagerNames
  /\ {QueueMax, MaxLives, MaxFdsPerMessage} \subseteq Nat \ {0} /\ MaxRequests \in Nat

VARIABLES
  service,  \* the service: "starting", "up", "barrier" or "down"
  passed,   \* the files it was started with, the first under number Start
  fdnames,  \* LISTEN_FDNAMES: its words, or Absent
  found,    \* what listen_fds_with_names returned: numbers by name
  open,     \* the files of Files it has open
  hungup,   \* those of Files whose other end is gone
  queue,    \* messages on the manager's socket, oldest first
  store,    \* what the manager keeps: a set of [file, name, poll]
  log,      \* history: every message sent
  acked,    \* history: which of them an answered barrier vouches for
  lives     \* times the service has been started

world == <<passed, fdnames, found, hungup, lives>>
storeVars == <<service, world, open, queue, store, log, acked>>

Message(kind, name, files, poll) ==
  [kind |-> kind, name |-> name, files |-> files, poll |-> poll, life |-> lives]

StoreInit ==
  /\ service = "up" /\ lives = 1
  /\ passed = <<>> /\ fdnames = Absent /\ found = <<>>
  /\ open = Files /\ hungup = {}
  /\ queue = <<>> /\ store = {}
  /\ log = <<>> /\ acked = {}

-----------------------------------------------------------------------------
(* The service *)

\* send_raw; a full queue makes it wait.  A call that fails, for want of memory or
\* of a manager that listens, sends nothing and changes nothing here: that is a
\* step of none of these variables.
Send(message) ==
  /\ service = "up"
  /\ Len(log) < MaxRequests /\ Len(queue) < QueueMax
  /\ queue' = Append(queue, message)
  /\ log' = Append(log, message)
  /\ UNCHANGED <<world, open, store>>

Mutant_CheckFdname(name) == name # <<Empty>> /\ Range(name) \cap Improper = {}

\* It raises ValueError for any other.
CheckFdname(name) == name # <<Empty>> /\ Len(name) = 1 /\ name[1] \notin Improper

\* With no files, or more than a message takes, it raises ValueError as well.
FdStore(files, name, poll) ==
  /\ files # {} /\ files \subseteq open /\ Cardinality(files) <= MaxFdsPerMessage
  /\ name # Absent => CheckFdname(name)
  /\ Send(Message("store", name, files, poll))
  /\ UNCHANGED <<service, acked>>

FdStoreRemove(name) ==
  /\ CheckFdname(name)
  /\ Send(Message("remove", name, {}, Absent))
  /\ UNCHANGED <<service, acked>>

BarrierBegin ==
  /\ Send(Message("barrier", Absent, {}, Absent))
  /\ service' = "barrier"
  /\ UNCHANGED acked

Handled == Len(log) - Len(queue)

\* The manager has read the barrier, the latest message, and closed its copy of
\* the write end.
BarrierAnswers == Handled = Len(log)

BarrierFinish ==
  /\ service = "barrier"
  /\ BarrierAnswers
  /\ service' = "up"
  /\ acked' = acked \cup {i \in DOMAIN log : log[i].life = lives}
  /\ UNCHANGED <<world, open, queue, store, log>>

BarrierTimesOut ==
  /\ service = "barrier"
  /\ service' = "up"
  /\ UNCHANGED <<world, open, queue, store, log, acked>>

Crash ==
  /\ service # "down"
  /\ service' = "down"
  /\ open' = {}
  /\ UNCHANGED <<world, queue, store, log, acked>>

-----------------------------------------------------------------------------
(* The manager *)

NameOf(name) == IF name \in ManagerNames THEN name ELSE <<Stored>>

\* A file it has already it does not take again.
New(files) == {f \in files : \A e \in store : e.file # f}

AfterMessage(m) ==
  CASE m.kind = "store" ->
         store \cup {[file |-> f, name |-> NameOf(m.name), poll |-> m.poll] : f \in New(m.files)}
    [] m.kind = "remove" -> {e \in store : e.name # m.name}
    [] m.kind = "barrier" -> store

Handle ==
  /\ queue # <<>>
  /\ queue' = Tail(queue)
  /\ store' = AfterMessage(Head(queue))
  /\ UNCHANGED <<service, world, open, log, acked>>

\* It may not find out any more which unit a dead process belonged to.
LoseMessage ==
  /\ service = "down" /\ queue # <<>>
  /\ queue' = Tail(queue)
  /\ UNCHANGED <<service, world, open, store, log, acked>>

\* The other end of a stored pipe or connection is closed.
HangUp(f) ==
  /\ f \notin hungup
  /\ hungup' = hungup \cup {f}
  /\ UNCHANGED <<service, passed, fdnames, found, lives, open, queue, store, log, acked>>

\* POLLHUP on what it keeps and was not told to leave alone
DropHungUp ==
  /\ \E e \in store : e.file \in hungup /\ e.poll # FALSE /\ store' = store \ {e}
  /\ UNCHANGED <<service, world, open, queue, log, acked>>

\* It reads its socket before it learns of the death.  Sockets come first, the
\* store in any order.
Restart ==
  /\ service = "down" /\ queue = <<>> /\ lives < MaxLives
  /\ \E s \in SetToSeqs(store) :
       LET all == Sockets \o s
       IN  /\ passed' = [i \in DOMAIN all |-> all[i].file]
           /\ fdnames' = IF all = <<>> THEN Absent
                         ELSE FlattenSeq([i \in DOMAIN all |-> all[i].name])
  /\ found' = <<>>
  /\ service' = "starting" /\ lives' = lives + 1
  /\ UNCHANGED <<open, hungup, queue, store, log, acked>>

-----------------------------------------------------------------------------
(* The way back *)

FdNamesFound == NamesFound(fdnames, Len(passed))

Mutant_NumbersOf(word) ==
  LET numbers[i \in 0..Len(passed)] ==
        IF i = 0 THEN <<>>
        ELSE IF FdNamesFound[i] = word THEN <<Start + i - 1>> ELSE numbers[i - 1]
  IN  numbers[Len(passed)]

\* mapping.setdefault(name, []).append(number)
NumbersOf(word) ==
  LET numbers[i \in 0..Len(passed)] ==
        IF i = 0 THEN <<>>
        ELSE IF FdNamesFound[i] = word THEN Append(numbers[i - 1], Start + i - 1)
        ELSE numbers[i - 1]
  IN  numbers[Len(passed)]

\* listen_fds_with_names, or SystemdError when there are not as many names as
\* descriptors.
ListenFdsWithNames ==
  IF AsMany(fdnames, Len(passed))
  THEN [word \in Range(FdNamesFound) |-> NumbersOf(word)]
  ELSE <<>>

Find ==
  /\ service = "starting"
  /\ found' = ListenFdsWithNames
  /\ open' = Range(passed) \cap Files
  /\ service' = "up"
  /\ UNCHANGED <<passed, fdnames, hungup, lives, queue, store, log, acked>>

-----------------------------------------------------------------------------
StoreNext ==
  \/ \E files \in SUBSET Files, name \in FdNames \cup {Absent}, poll \in Polls :
       FdStore(files, name, poll)
  \/ \E name \in FdNames : FdStoreRemove(name)
  \/ BarrierBegin \/ BarrierFinish \/ BarrierTimesOut
  \/ Crash \/ Restart \/ Find
  \/ Handle \/ LoseMessage \/ DropHungUp
  \/ \E f \in Files : HangUp(f)

StoreSpec == StoreInit /\ [][StoreNext]_storeVars

-----------------------------------------------------------------------------
(* Properties *)

\* The variables keep their types, and nothing that would not pass through
\* LISTEN_FDNAMES unharmed is sent as a name or kept as one.
StoreTypeOK ==
  /\ service \in {"starting", "up", "barrier", "down"}
  /\ Range(passed) \subseteq Files \cup {Sockets[i].file : i \in DOMAIN Sockets}
  /\ fdnames \in Seq(Words) \cup {Absent}
  /\ \A word \in DOMAIN found : word \in Words /\ found[word] \in Seq(Nat)
  /\ open \subseteq Files /\ hungup \subseteq Files
  /\ \A e \in store : e.file \in Files /\ e.name \in ManagerNames /\ e.poll \in Polls
  /\ \A d, e \in store : d.file = e.file => d = e
  /\ queue = SubSeq(log, Handled + 1, Len(log))
  /\ \A i \in DOMAIN log : /\ log[i].kind \in {"store", "remove", "barrier"}
                           /\ log[i].name # Absent => Len(log[i].name) = 1
  /\ acked \subseteq 1..Handled
  /\ lives \in 1..MaxLives

StoresOf(f) == {i \in DOMAIN log : log[i].kind = "store" /\ f \in log[i].files}

RemovalsOf(name) == {i \in DOMAIN log : log[i].kind = "remove" /\ log[i].name = name}

\* A barrier vouches for a message that stored f under this name, which no
\* later one removes.  No other message gave f another name, and the manager
\* was not left to watch it hang up.
MustBeKept(f, name) ==
  /\ \E i \in StoresOf(f) \cap acked : \A j \in RemovalsOf(name) : j < i
  /\ \A i \in StoresOf(f) : NameOf(log[i].name) = name
  /\ f \in hungup => \A i \in StoresOf(f) : log[i].poll = FALSE

\* A barrier vouches for a message that removed the name, and none has stored f
\* again.
MustBeGone(f, name) == \E j \in RemovalsOf(name) \cap acked : \A i \in StoresOf(f) : i < j

FoundUnder(f, name) ==
  /\ name[1] \in DOMAIN found
  /\ \E k \in Range(found[name[1]]) : passed[k - Start + 1] = f

\* README.md:37 and the docstrings of fdstore and fdstore_remove: descriptors are
\* held across a restart under their name until they are removed.  Whenever the
\* service dies, what a barrier vouched for is found again under its name, what
\* was removed is not, and the sockets are found beside them, also when a stored
\* descriptor has a socket's name.
KeptUntilRemoved ==
  [][ service = "starting" /\ service' = "up" =>
        /\ \A f \in Files, name \in ManagerNames :
             /\ MustBeKept(f, name) => FoundUnder(f, name)'
             /\ MustBeGone(f, name) => ~FoundUnder(f, name)'
        /\ \A i \in DOMAIN Sockets : FoundUnder(Sockets[i].file, Sockets[i].name)' ]_storeVars
=============================================================================
