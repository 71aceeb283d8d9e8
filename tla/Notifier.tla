------------------------------ MODULE Notifier ------------------------------
(***************************************************************************)
(* The notification channel of mpsystemd: the Notifier of daemon.py, whose *)
(* datagrams and barrier pipes go through the descriptor table of the      *)
(* service, and the listener of testing.py at the other end of the socket, *)
(* which stands in for systemd.                                            *)
(*                                                                         *)
(* A caller is a thread of the service.  It keeps a Notifier of its own,   *)
(* or it calls the module level functions of daemon.py, each of which      *)
(* makes one for the length of the call.                                   *)
(* All callers share the descriptor table and the listener's queue.  A     *)
(* step is one system call; everything a call does between two system      *)
(* calls touches only the caller's own state and belongs to one of them.   *)
(***************************************************************************)
EXTENDS Naturals, Sequences

CONSTANTS Callers,        \* threads of the service
          ModuleCallers,  \* those that call the module level functions
          Fds,            \* the descriptor numbers this process may use
          QueueMax,       \* datagrams the kernel queues on the listener's socket
          MaxOps          \* bound: notifications and barriers started

ASSUME NotifierAssumption ==
  /\ ModuleCallers \subseteq Callers
  /\ Fds \subseteq Nat \ {0}
  /\ QueueMax \in Nat \ {0}
  /\ MaxOps \in Nat

VARIABLES
  env,        \* NOTIFY_SOCKET: "set", "bad" (no usable address) or "unset"
  obj,        \* each caller's Notifier: "none", "off" (no address) or "on"
  pc,         \* the system call the caller is at
  op,         \* the call it is in: "notify", "barrier" or "none"
  sock,       \* Notifier._sock: a descriptor, or NoFd
  rfd, wfd,   \* barrier_begin's read_fd and write_fd
  pipe,       \* history: the pipe of the barrier it is in, or 0
  mark,       \* history: notifications sent before that barrier was
  answer,     \* what barrier_finish returned, "none" before it did
  fdtab,      \* the descriptor table of the service
  queue,      \* datagrams on the listener's socket, oldest first
  listener,   \* "up" or "closed"
  held,       \* pipes whose write end a Datagram of the listener holds
  nops,       \* calls started, which also numbers the pipes
  nsent,      \* datagrams sent, which numbers them
  done        \* the numbers of the datagrams the listener received

channel == <<queue, listener, held, nsent, done>>
caller == <<pc, op, rfd, wfd, pipe, mark, answer>>
vars == <<env, obj, sock, fdtab, nops, channel, caller>>

NoFd == 0

File(kind, p) == [kind |-> kind, pipe |-> p]
Free == File("free", 0)
Socket == File("socket", 0)
ReadEnd(p) == File("read", p)
WriteEnd(p) == File("write", p)

PCs == {"idle", "socket", "send", "drop_write", "begun", "answered",
        "undo_read", "undo_write", "exit"}

-----------------------------------------------------------------------------
(* The kernel's descriptor table *)

FreeFds == {f \in Fds : fdtab[f] = Free}

Lowest(f, S) == f \in S /\ \A g \in S : f <= g

\* pipe(): the two lowest free descriptors
PipeGives(r, w) == Lowest(r, FreeFds) /\ Lowest(w, FreeFds \ {r})

CloseFd(f) == fdtab' = [fdtab EXCEPT ![f] = Free]

\* A pipe is at end of file when no copy of its write end is left: not in the
\* service, not in a datagram in flight, not with the listener.
WriteEndOpen(p) ==
  \/ \E f \in Fds : fdtab[f] = WriteEnd(p)
  \/ \E i \in DOMAIN queue : queue[i].pipe = p
  \/ p \in held

-----------------------------------------------------------------------------
Init ==
  /\ env \in {"set", "bad", "unset"}
  /\ obj = [c \in Callers |-> "none"]
  /\ pc = [c \in Callers |-> "idle"]
  /\ op = [c \in Callers |-> "none"]
  /\ sock = [c \in Callers |-> NoFd]
  /\ rfd = [c \in Callers |-> NoFd]
  /\ wfd = [c \in Callers |-> NoFd]
  /\ pipe = [c \in Callers |-> 0]
  /\ mark = [c \in Callers |-> 0]
  /\ answer = [c \in Callers |-> "none"]
  /\ fdtab = [f \in Fds |-> Free]
  /\ queue = <<>>
  /\ listener = "up"
  /\ held = {}
  /\ nops = 0
  /\ nsent = 0
  /\ done = {}

Goto(c, label) == pc' = [pc EXCEPT ![c] = label]

\* A module level function has still to leave the with block of its Notifier.
AfterCall(c) == IF c \in ModuleCallers THEN "exit" ELSE "idle"

\* A call returns or raises, and its barrier is history no longer.
Return(c) ==
  /\ Goto(c, AfterCall(c))
  /\ op' = [op EXCEPT ![c] = "none"]
  /\ pipe' = [pipe EXCEPT ![c] = 0]
  /\ mark' = [mark EXCEPT ![c] = 0]
  /\ answer' = [answer EXCEPT ![c] = "none"]

-----------------------------------------------------------------------------
(* Notifier.__init__ and the environment *)

\* The address is read once, here, for a Notifier to keep or for one call of a
\* module level function.  An unusable one raises AddressError and leaves the
\* caller without a Notifier; it may try again.
Construct(c) ==
  /\ pc[c] = "idle"
  /\ obj[c] = "none"
  /\ obj' = CASE env = "set" -> [obj EXCEPT ![c] = "on"]
              [] env = "unset" -> [obj EXCEPT ![c] = "off"]
              [] env = "bad" -> obj
  /\ UNCHANGED <<env, sock, fdtab, nops, channel, pc, op, rfd, wfd, pipe, mark, answer>>

UnsetNotifyEnvironment ==
  /\ env' = "unset"
  /\ UNCHANGED <<obj, sock, fdtab, nops, channel, caller>>

\* Without an address every call returns a falsey value and sends nothing.
CallUnavailable(c) ==
  /\ pc[c] = "idle"
  /\ obj[c] = "off"
  /\ Return(c)
  /\ UNCHANGED <<env, obj, sock, fdtab, nops, channel, rfd, wfd>>

-----------------------------------------------------------------------------
(* send_raw, from notify and from barrier_begin *)

\* The socket is opened by the first message and kept.
AtSendRaw(c) == Goto(c, IF sock[c] = NoFd THEN "socket" ELSE "send")

StartNotify(c) ==
  /\ pc[c] = "idle" /\ obj[c] = "on" /\ nops < MaxOps
  /\ nops' = nops + 1
  /\ op' = [op EXCEPT ![c] = "notify"]
  /\ AtSendRaw(c)
  /\ UNCHANGED <<env, obj, sock, fdtab, channel, rfd, wfd, pipe, mark, answer>>

\* barrier_begin: pipe() comes first, so that its failure leaves nothing behind.
StartBarrier(c) ==
  /\ pc[c] = "idle" /\ obj[c] = "on" /\ nops < MaxOps
  /\ nops' = nops + 1
  /\ op' = [op EXCEPT ![c] = "barrier"]
  /\ \E r, w \in Fds :
       /\ PipeGives(r, w)
       /\ fdtab' = [fdtab EXCEPT ![r] = ReadEnd(nops + 1), ![w] = WriteEnd(nops + 1)]
       /\ rfd' = [rfd EXCEPT ![c] = r]
       /\ wfd' = [wfd EXCEPT ![c] = w]
  /\ pipe' = [pipe EXCEPT ![c] = nops + 1]
  /\ AtSendRaw(c)
  /\ UNCHANGED <<env, obj, sock, channel, mark, answer>>

\* EMFILE, when there are no two, ENFILE or ENOMEM
BarrierWithoutPipe(c) ==
  /\ pc[c] = "idle" /\ obj[c] = "on" /\ nops < MaxOps
  /\ nops' = nops + 1
  /\ Return(c)
  /\ UNCHANGED <<env, obj, sock, fdtab, channel, rfd, wfd>>

Mutant_SendRawRetries(c) ==
  \/ op[c] = "notify" /\ Return(c)
  \/ op[c] = "barrier" /\ UNCHANGED <<pc, op, pipe, mark, answer>>

\* An exception out of send_raw: barrier_begin closes both ends on the way out.
SendRawRaises(c) ==
  \/ op[c] = "notify" /\ Return(c)
  \/ /\ op[c] = "barrier"
     /\ Goto(c, "undo_read")
     /\ UNCHANGED <<op, pipe, mark, answer>>

OpenSocket(c) ==
  /\ pc[c] = "socket"
  /\ \E f \in Fds :
       /\ Lowest(f, FreeFds)
       /\ fdtab' = [fdtab EXCEPT ![f] = Socket]
       /\ sock' = [sock EXCEPT ![c] = f]
  /\ Goto(c, "send")
  /\ UNCHANGED <<env, obj, nops, channel, op, rfd, wfd, pipe, mark, answer>>

\* Likewise, when there is none.
SocketFails(c) ==
  /\ pc[c] = "socket"
  /\ SendRawRaises(c)
  /\ UNCHANGED <<env, obj, sock, fdtab, nops, channel, rfd, wfd>>

Room == Len(queue) < QueueMax

\* A datagram is its number and the pipe whose write end it carries, or 0.
NotifyDatagram == [id |-> nsent + 1, pipe |-> 0]
Mutant_BarrierWithoutFd(c) == NotifyDatagram

BarrierDatagram(c) == [id |-> nsent + 1, pipe |-> pipe[c]]

\* The kernel copies the datagram, and with a barrier the write end, to the
\* listener's queue.  The sockets block: a full queue holds the caller here.
SendNotify(c) ==
  /\ pc[c] = "send" /\ op[c] = "notify"
  /\ listener = "up" /\ Room
  /\ queue' = Append(queue, NotifyDatagram)
  /\ nsent' = nsent + 1
  /\ Return(c)
  /\ UNCHANGED <<env, obj, sock, fdtab, nops, listener, held, done, rfd, wfd>>

SendBarrier(c) ==
  /\ pc[c] = "send" /\ op[c] = "barrier"
  /\ listener = "up" /\ Room
  /\ queue' = Append(queue, BarrierDatagram(c))
  /\ nsent' = nsent + 1
  /\ mark' = [mark EXCEPT ![c] = nsent]
  /\ Goto(c, "drop_write")
  /\ UNCHANGED <<env, obj, sock, fdtab, nops, listener, held, done, op, rfd, wfd, pipe, answer>>

SendFails(c) ==
  /\ pc[c] = "send"
  /\ SendRawRaises(c)
  /\ UNCHANGED <<env, obj, sock, fdtab, nops, channel, rfd, wfd>>

\* ECONNREFUSED: nobody is bound to the address any more.
SendRefused(c) == listener = "closed" /\ SendFails(c)

\* EINTR, when a signal handler ran while the call was blocked on a full queue;
\* ENOBUFS or ENOMEM, whether there is room or not.
SendErrs(c) == listener = "up" /\ SendFails(c)

-----------------------------------------------------------------------------
(* The rest of barrier_begin, barrier_finish and barrier *)

Mutant_UndoReadLeaks(c) ==
  /\ pc[c] = "undo_read"
  /\ rfd' = [rfd EXCEPT ![c] = NoFd]
  /\ Goto(c, "undo_write")
  /\ UNCHANGED <<env, obj, sock, fdtab, nops, channel, op, wfd, pipe, mark, answer>>

\* The except clause closes the read end before the finally clause runs.
UndoRead(c) ==
  /\ pc[c] = "undo_read"
  /\ CloseFd(rfd[c])
  /\ rfd' = [rfd EXCEPT ![c] = NoFd]
  /\ Goto(c, "undo_write")
  /\ UNCHANGED <<env, obj, sock, nops, channel, op, wfd, pipe, mark, answer>>

Mutant_DropWriteLeaks(c) ==
  /\ pc[c] = "drop_write"
  /\ wfd' = [wfd EXCEPT ![c] = NoFd]
  /\ Goto(c, "begun")
  /\ UNCHANGED <<env, obj, sock, fdtab, nops, channel, op, rfd, pipe, mark, answer>>

\* The finally clause, on the way to returning read_fd ...
DropWrite(c) ==
  /\ pc[c] = "drop_write"
  /\ CloseFd(wfd[c])
  /\ wfd' = [wfd EXCEPT ![c] = NoFd]
  /\ Goto(c, "begun")
  /\ UNCHANGED <<env, obj, sock, nops, channel, op, rfd, pipe, mark, answer>>

\* ... or to raising again.
UndoWrite(c) ==
  /\ pc[c] = "undo_write"
  /\ CloseFd(wfd[c])
  /\ wfd' = [wfd EXCEPT ![c] = NoFd]
  /\ Return(c)
  /\ UNCHANGED <<env, obj, sock, nops, channel, rfd>>

Mutant_PollAlwaysReports(c) == TRUE

\* poll() on the read end reports an event only at end of file.
PollReports(c) == ~WriteEndOpen(fdtab[rfd[c]].pipe)

Answer(c, value) ==
  /\ Goto(c, "answered")
  /\ answer' = [answer EXCEPT ![c] = value]
  /\ UNCHANGED <<env, obj, sock, fdtab, nops, channel, op, rfd, wfd, pipe, mark>>

Finish(c) == pc[c] = "begun" /\ PollReports(c) /\ Answer(c, "true")

\* The timeout may pass at any moment, even zero milliseconds after the call.
TimeOut(c) == pc[c] = "begun" /\ ~PollReports(c) /\ Answer(c, "false")

\* The owner of read_fd may call barrier_finish again.
FinishAgain(c) ==
  /\ pc[c] = "answered" /\ answer[c] = "false" /\ c \notin ModuleCallers
  /\ Goto(c, "begun")
  /\ answer' = [answer EXCEPT ![c] = "none"]
  /\ UNCHANGED <<env, obj, sock, fdtab, nops, channel, op, rfd, wfd, pipe, mark>>

\* barrier's finally clause, or the owner of read_fd closing it at any time.
CloseRead(c) ==
  /\ pc[c] \in {"begun", "answered"}
  /\ CloseFd(rfd[c])
  /\ rfd' = [rfd EXCEPT ![c] = NoFd]
  /\ Return(c)
  /\ UNCHANGED <<env, obj, sock, nops, channel, wfd>>

\* Notifier.close: the next message opens the socket again.
CloseSocket(c) ==
  /\ sock[c] # NoFd
  /\ CloseFd(sock[c])
  /\ sock' = [sock EXCEPT ![c] = NoFd]

\* By the caller, or at the end of a with block of its own.
Close(c) ==
  /\ pc[c] = "idle" /\ c \notin ModuleCallers
  /\ CloseSocket(c)
  /\ UNCHANGED <<env, obj, nops, channel, caller>>

Mutant_ExitKeepsSocket(c) ==
  /\ pc[c] = "exit"
  /\ obj' = [obj EXCEPT ![c] = "none"]
  /\ Goto(c, "idle")
  /\ UNCHANGED <<env, sock, fdtab, nops, channel, op, rfd, wfd, pipe, mark, answer>>

\* A module level function returns, or raises, through __exit__ and drops its
\* Notifier.
Exit(c) ==
  /\ pc[c] = "exit"
  /\ CloseSocket(c) \/ (sock[c] = NoFd /\ UNCHANGED <<sock, fdtab>>)
  /\ obj' = [obj EXCEPT ![c] = "none"]
  /\ Goto(c, "idle")
  /\ UNCHANGED <<env, nops, channel, op, rfd, wfd, pipe, mark, answer>>

-----------------------------------------------------------------------------
(* The listener *)

\* receive: the oldest datagram, and with it the descriptor it carries.
Receive ==
  /\ listener = "up" /\ queue # <<>>
  /\ queue' = Tail(queue)
  /\ done' = done \cup {Head(queue).id}
  /\ held' = held \cup ({Head(queue).pipe} \ {0})
  /\ UNCHANGED <<env, obj, sock, fdtab, nops, caller, listener, nsent>>

\* Datagram.close_fds: the listener has finished with the datagram.
CloseFds(p) ==
  /\ p \in held
  /\ held' = held \ {p}
  /\ UNCHANGED <<env, obj, sock, fdtab, nops, caller, queue, listener, nsent, done>>

\* Closing the socket discards its queue and every descriptor in it.
ListenerClose ==
  /\ listener = "up"
  /\ listener' = "closed"
  /\ queue' = <<>>
  /\ UNCHANGED <<env, obj, sock, fdtab, nops, caller, held, nsent, done>>

-----------------------------------------------------------------------------
CallerStep(c) ==
  \/ OpenSocket(c) \/ SocketFails(c) \/ SendRefused(c)
  \/ DropWrite(c) \/ UndoRead(c) \/ UndoWrite(c)
  \/ Finish(c) \/ TimeOut(c) \/ Exit(c)

Send(c) == SendNotify(c) \/ SendBarrier(c)

Next ==
  \/ \E c \in Callers :
       \/ Construct(c) \/ CallUnavailable(c)
       \/ StartNotify(c) \/ StartBarrier(c) \/ BarrierWithoutPipe(c)
       \/ CallerStep(c) \/ Send(c) \/ SendErrs(c)
       \/ FinishAgain(c) \/ CloseRead(c) \/ Close(c)
  \/ UnsetNotifyEnvironment
  \/ Receive \/ (\E p \in held : CloseFds(p)) \/ ListenerClose

Spec == Init /\ [][Next]_vars

\* A thread that is inside a call goes on; one that owns a read end closes it.
\* Blocked senders queue on the listener's socket and are woken in turn, so a
\* sender is not passed over for ever.
CallerFairness ==
  \A c \in Callers :
    WF_vars(CallerStep(c)) /\ WF_vars(CloseRead(c)) /\ SF_vars(Send(c))

\* The listener keeps reading its socket and finishing with what it read.
ListenerFairness == WF_vars(Receive) /\ \A p \in 1..MaxOps : WF_vars(CloseFds(p))

SpecCallers == Spec /\ CallerFairness

FairSpec == SpecCallers /\ ListenerFairness

-----------------------------------------------------------------------------
(* Safety *)

Datagram == [id : Nat, pipe : Nat]

FileType == [kind : {"free", "socket", "read", "write"}, pipe : Nat]

\* Every variable keeps its shape, and the kernel never queues more than
\* QueueMax datagrams for the listener.
TypeOK ==
  /\ env \in {"set", "bad", "unset"}
  /\ obj \in [Callers -> {"none", "off", "on"}]
  /\ pc \in [Callers -> PCs]
  /\ op \in [Callers -> {"none", "notify", "barrier"}]
  /\ sock \in [Callers -> Fds \cup {NoFd}]
  /\ rfd \in [Callers -> Fds \cup {NoFd}]
  /\ wfd \in [Callers -> Fds \cup {NoFd}]
  /\ pipe \in [Callers -> Nat]
  /\ mark \in [Callers -> Nat]
  /\ answer \in [Callers -> {"none", "true", "false"}]
  /\ fdtab \in [Fds -> FileType]
  /\ queue \in Seq(Datagram)
  /\ Len(queue) <= QueueMax
  /\ listener \in {"up", "closed"}
  /\ held \subseteq Nat
  /\ nops \in Nat
  /\ nsent \in Nat
  /\ done \subseteq Nat

Owned(c) == {sock[c], rfd[c], wfd[c]} \ {NoFd}

\* What a caller holds is what it opened: its socket and the two ends of the
\* pipe of its latest barrier.
HoldsItsOwn(c) ==
  /\ sock[c] # NoFd => fdtab[sock[c]] = Socket
  /\ rfd[c] # NoFd => fdtab[rfd[c]] = ReadEnd(pipe[c])
  /\ wfd[c] # NoFd => fdtab[wfd[c]] = WriteEnd(pipe[c])

AtBarrierSend(c) == op[c] = "barrier" /\ pc[c] \in {"socket", "send"}

\* It holds them exactly while the code has still to use or to close them.
HoldsWhatItNeeds(c) ==
  /\ pc[c] = "socket" => sock[c] = NoFd
  /\ pc[c] = "send" => sock[c] # NoFd
  /\ rfd[c] # NoFd <=> \/ AtBarrierSend(c)
                       \/ pc[c] \in {"drop_write", "begun", "answered", "undo_read"}
  /\ wfd[c] # NoFd <=> \/ AtBarrierSend(c)
                       \/ pc[c] \in {"drop_write", "undo_read", "undo_write"}

\* Whatever fails in the middle of a barrier (the pipe, the socket, the send)
\* and whichever caller takes a freed number next, every open descriptor of
\* the service belongs to exactly one call or Notifier: nothing is leaked,
\* closed twice or confused with another file under the same number.
DescriptorsOwned ==
  /\ \A f \in Fds : fdtab[f] # Free => \E c \in Callers : f \in Owned(c)
  /\ \A c, d \in Callers : c # d => Owned(c) \cap Owned(d) = {}
  /\ \A c \in Callers : HoldsItsOwn(c) /\ HoldsWhatItNeeds(c)

\* Between calls nothing is open but the sockets of Notifiers that are kept:
\* wherever a module level function or a barrier fails, both ends of the pipe and
\* the socket that was opened for the call are closed when it comes back.
NothingOutlivesItsCall ==
  \A f \in Fds : fdtab[f] # Free =>
    \E c \in Callers : /\ f \in Owned(c)
                       /\ pc[c] # "idle" \/ (f = sock[c] /\ c \notin ModuleCallers)

Processed(c) == 1..mark[c] \subseteq done

Acknowledged(c) == pc[c] = "answered" /\ answer[c] = "true"

\* While the listener lives, a barrier returns True only when everything any
\* caller sent before it has been received, and received before the barrier's
\* own write end was closed.
BarrierMeansProcessed ==
  listener = "up" => \A c \in Callers : Acknowledged(c) => Processed(c)

\* The caller's latest barrier left, and it still has the read end.
Sent(c) == pc[c] \in {"drop_write", "begun", "answered"}

\* The number and the pipe of a barrier that was sent are on the queue until
\* everything before it has been received.
BarrierInFlight(c) ==
  \E i \in DOMAIN queue : queue[i].id = mark[c] + 1 /\ queue[i].pipe = pipe[c]

\* Why BarrierMeansProcessed holds.  The queue is what was sent and not yet
\* received, in order, and a barrier that has been sent is behind everything
\* it vouches for.
QueueInOrder ==
  listener = "up" =>
    /\ Len(queue) <= nsent
    /\ done = 1..(nsent - Len(queue))
    /\ \A i \in DOMAIN queue : queue[i].id = nsent - Len(queue) + i
    /\ \A c \in Callers : Sent(c) => Processed(c) \/ BarrierInFlight(c)

\* Each caller's barrier goes through the states of BarrierPromise.
BarrierState(c) ==
  IF pc[c] \in {"drop_write", "begun"} THEN "waiting"
  ELSE IF Acknowledged(c) THEN "acked"
  ELSE IF pc[c] = "answered" THEN "timedout"
  ELSE "idle"

Promise == INSTANCE BarrierPromise
             WITH sent <- nsent, done <- done, lost <- (listener = "closed"),
                  state <- [c \in Callers |-> BarrierState(c)], mark <- mark

\* The pipes and datagrams implement the promise: a step of any caller or of
\* the listener is a step of BarrierPromise or leaves it alone.
KeepsPromise == Promise!Spec

-----------------------------------------------------------------------------
(* Liveness *)

\* Every write end is closed everywhere in the end, in the service, on the
\* queue and at the listener, whatever failed on the way: a poll on the read
\* end without a timeout would return.
PipesDrain == \A p \in 1..MaxOps : WriteEndOpen(p) ~> ~WriteEndOpen(p)

\* The docstring of barrier: a barrier comes back, with False on timeout.
BarrierReturns ==
  \A c \in Callers : op[c] = "barrier" ~> pc[c] = "idle"
=============================================================================
