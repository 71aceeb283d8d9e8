------------------------------- MODULE Journal -------------------------------
(***************************************************************************)
(* Submitting entries to the journal: JournalWriter of journal.py, which   *)
(* sends an entry as a datagram or, when that is too large, as a sealed    *)
(* memfd; the writer the module level functions share; those a program     *)
(* makes for itself; and the logging handlers, which keep the writer they  *)
(* were given or found.                                                    *)
(*                                                                         *)
(* The service makes one call at a time, a system call per step, and every *)
(* system call may fail.  journald reads its socket at its own pace.       *)
(***************************************************************************)
EXTENDS Naturals, Sequences

CONSTANTS Handlers,     \* logging handlers
          Writers,      \* bound: JournalWriter objects that something refers to
          Own,          \* those among them a program makes and closes for itself
          None,         \* no writer
          Fds,          \* the descriptor numbers the process may use
          Sizes,        \* lengths of entry bodies
          DatagramMax,  \* the longest body the socket buffer takes
          QueueMax      \* datagrams the kernel queues on journald's socket

ASSUME JournalAssumption ==
  /\ None \notin Writers /\ Own \subseteq Writers
  /\ Fds \subseteq Nat \ {0}
  /\ Sizes \subseteq Nat \ {0}
  /\ DatagramMax \in Nat
  /\ QueueMax \in Nat \ {0}

VARIABLES
  default,   \* _default_writer, or None
  hwriter,   \* the writer of each handler, None before there is a handler
  wsock,     \* JournalWriter._sock of each writer: a descriptor, or NoFd
  fdtab,     \* the descriptor table of the service
  pc,        \* the system call the service is at, or "idle"
  writer,    \* the writer of the current call
  size,      \* the length of its entry
  memfd,     \* memfd_sealed's fd, or NoFd
  written,   \* memfd_sealed's written
  queue      \* what lies on journald's socket, oldest first

call == <<pc, writer, size, memfd, written>>
vars == <<default, hwriter, wsock, fdtab, call, queue>>

NoFd == 0

Socket == [kind |-> "socket"]
Free == [kind |-> "free"]

\* The bytes of an entry are known by their places in it.
Bytes(from, n) == [i \in 1..n |-> from + i]

Memfd(body, sealed, offset) ==
  [kind |-> "memfd", body |-> body, sealed |-> sealed, offset |-> offset]

LowestFree(f) ==
  fdtab[f] = Free /\ \A g \in Fds : fdtab[g] = Free => f <= g

Room == Len(queue) < QueueMax

Init ==
  /\ default = None
  /\ hwriter = [h \in Handlers |-> None]
  /\ wsock = [w \in Writers |-> NoFd]
  /\ fdtab = [f \in Fds |-> Free]
  /\ pc = "idle"
  /\ writer = None /\ size = 0 /\ memfd = NoFd /\ written = 0
  /\ queue = <<>>

-----------------------------------------------------------------------------
(* The writers *)

\* _writer(): the shared writer, a new object when there is none.
SharedWriter(w) ==
  IF default = None THEN w \notin Own /\ \A h \in Handlers : hwriter[h] # w
  ELSE w = default

\* journal_handler(), with a writer of its own or without
MakeHandler(h) ==
  /\ pc = "idle" /\ hwriter[h] = None
  /\ \E w \in Writers :
       /\ hwriter' = [hwriter EXCEPT ![h] = w]
       /\ \/ w \in Own /\ UNCHANGED default
          \/ SharedWriter(w) /\ default' = w
  /\ UNCHANGED <<wsock, fdtab, call, queue>>

Begin(w) ==
  /\ writer' = w
  /\ size' \in Sizes
  /\ pc' = IF wsock[w] = NoFd THEN "socket" ELSE "send"
  /\ UNCHANGED <<memfd, written>>

\* send() or send_fields() of the module
Send ==
  /\ pc = "idle"
  /\ \E w \in Writers : SharedWriter(w) /\ default' = w /\ Begin(w)
  /\ UNCHANGED <<hwriter, wsock, fdtab, queue>>

\* emit() of a handler
Emit(h) ==
  /\ pc = "idle" /\ hwriter[h] # None
  /\ Begin(hwriter[h])
  /\ UNCHANGED <<default, hwriter, wsock, fdtab, queue>>

\* JournalWriter.send, send_fields or send_raw of a writer of the program's own
SendOwn(w) ==
  /\ pc = "idle"
  /\ Begin(w)
  /\ UNCHANGED <<default, hwriter, wsock, fdtab, queue>>

\* JournalWriter.close
CloseSocket(w) ==
  IF wsock[w] = NoFd THEN UNCHANGED <<wsock, fdtab>>
  ELSE /\ fdtab' = [fdtab EXCEPT ![wsock[w]] = Free]
       /\ wsock' = [wsock EXCEPT ![w] = NoFd]

\* By the program, or at the end of a with block; a handler may still have it.
CloseOwn(w) ==
  /\ pc = "idle"
  /\ CloseSocket(w)
  /\ UNCHANGED <<default, hwriter, call, queue>>

\* close() of the module
Close ==
  /\ pc = "idle" /\ default # None
  /\ default' = None
  /\ CloseSocket(default)
  /\ UNCHANGED <<hwriter, call, queue>>

-----------------------------------------------------------------------------
(* JournalWriter.send_raw *)

\* The call is over: it returned, or raised, which emit() swallows.
Return ==
  /\ pc' = "idle"
  /\ writer' = None /\ size' = 0 /\ memfd' = NoFd /\ written' = 0

OpenSocket ==
  /\ pc = "socket"
  /\ \E f \in Fds :
       /\ LowestFree(f)
       /\ fdtab' = [fdtab EXCEPT ![f] = Socket]
       /\ wsock' = [wsock EXCEPT ![writer] = f]
  /\ pc' = "send"
  /\ UNCHANGED <<default, hwriter, writer, size, memfd, written, queue>>

\* A call outside memfd_sealed fails with nothing to clean up.
Fail ==
  /\ Return
  /\ UNCHANGED <<default, hwriter, wsock, fdtab, queue>>

CallFails == pc \in {"socket", "send", "memfd_create"} /\ Fail

\* EMFILE
OutOfFds ==
  /\ pc \in {"socket", "memfd_create"}
  /\ \A f \in Fds : fdtab[f] # Free
  /\ Fail

Datagram == [size |-> size, carries |-> [kind |-> "body", body |-> Bytes(0, size)]]

SendDatagram ==
  /\ pc = "send"
  /\ size <= DatagramMax /\ Room
  /\ queue' = Append(queue, Datagram)
  /\ Return
  /\ UNCHANGED <<default, hwriter, wsock, fdtab>>

ByMemfd ==
  /\ pc = "send"
  /\ pc' = "memfd_create"
  /\ UNCHANGED <<default, hwriter, wsock, fdtab, writer, size, memfd, written, queue>>

\* EMSGSIZE
SendTooLarge == size > DatagramMax /\ ByMemfd

\* ENOBUFS, which a body of any size may meet
SendNoBuffers == size <= DatagramMax /\ ByMemfd

-----------------------------------------------------------------------------
(* memfd_sealed *)

Goto(label) ==
  /\ pc' = label
  /\ UNCHANGED <<default, hwriter, wsock, writer, size, memfd, queue>>

MemfdCreate ==
  /\ pc = "memfd_create"
  /\ \E f \in Fds :
       /\ LowestFree(f)
       /\ fdtab' = [fdtab EXCEPT ![f] = Memfd(<<>>, FALSE, 0)]
       /\ memfd' = f
  /\ pc' = "write"
  /\ UNCHANGED <<default, hwriter, wsock, writer, size, written, queue>>

Mutant_AfterWriteForEver(got) == IF written + got <= size THEN "write" ELSE "seal"

\* The loop goes on until nothing is left to write.
AfterWrite(got) == IF written + got < size THEN "write" ELSE "seal"

Mutant_Progress(got) == got + 1

Progress(got) == got

Mutant_ViewFrom == 0

\* After a short write the rest of the body is cut off for the next one.
ViewFrom == written

\* write() takes some of what is left.
Write ==
  /\ pc = "write"
  /\ \E got \in 1..(size - written) :
       /\ written' = written + Progress(got)
       /\ fdtab' = [fdtab EXCEPT ![memfd] =
                       Memfd(@.body \o Bytes(ViewFrom, got), FALSE, @.offset + got)]
       /\ Goto(AfterWrite(Progress(got)))

Seal ==
  /\ pc = "seal"
  /\ fdtab' = [fdtab EXCEPT ![memfd] = Memfd(@.body, TRUE, @.offset)]
  /\ Goto("lseek")
  /\ UNCHANGED written

Rewind ==
  /\ pc = "lseek"
  /\ fdtab' = [fdtab EXCEPT ![memfd] = Memfd(@.body, @.sealed, 0)]
  /\ Goto("sendmsg")
  /\ UNCHANGED written

\* write(), fcntl() or lseek() raises; the except clause closes the memfd.
MemfdFails ==
  /\ pc \in {"write", "seal", "lseek"}
  /\ Goto("undo")
  /\ UNCHANGED <<fdtab, written>>

Mutant_CloseMemfd == UNCHANGED fdtab

CloseMemfd == fdtab' = [fdtab EXCEPT ![memfd] = Free]

UndoMemfd ==
  /\ pc = "undo"
  /\ CloseMemfd
  /\ Return
  /\ UNCHANGED <<default, hwriter, wsock, queue>>

-----------------------------------------------------------------------------
(* The rest of send_raw *)

\* The datagram is empty but for the descriptor.
SendMemfd ==
  /\ pc = "sendmsg" /\ Room
  /\ queue' = Append(queue, [size |-> size, carries |-> fdtab[memfd]])
  /\ pc' = "close"
  /\ UNCHANGED <<default, hwriter, wsock, fdtab, writer, size, memfd, written>>

SendMemfdFails ==
  /\ pc = "sendmsg"
  /\ Goto("close")
  /\ UNCHANGED <<fdtab, written>>

\* The finally clause.  Also when close() reports an error, which the caller
\* sees, the descriptor is gone.
CloseSent ==
  /\ pc = "close"
  /\ CloseMemfd
  /\ Return
  /\ UNCHANGED <<default, hwriter, wsock, queue>>

-----------------------------------------------------------------------------
\* journald takes the oldest entry off its socket.
Receive ==
  /\ queue # <<>>
  /\ queue' = Tail(queue)
  /\ UNCHANGED <<default, hwriter, wsock, fdtab, call>>

\* The system calls that return, and the failures that are certain.
SystemCall ==
  \/ OpenSocket \/ OutOfFds \/ SendDatagram \/ SendTooLarge
  \/ MemfdCreate \/ Write \/ Seal \/ Rewind \/ UndoMemfd
  \/ SendMemfd \/ CloseSent

\* The failures that may come and may not.
Mishap == CallFails \/ SendNoBuffers \/ MemfdFails \/ SendMemfdFails

Next ==
  \/ \E h \in Handlers : MakeHandler(h) \/ Emit(h)
  \/ \E w \in Own : SendOwn(w) \/ CloseOwn(w)
  \/ Send \/ Close \/ SystemCall \/ Mishap \/ Receive

Spec == Init /\ [][Next]_vars

\* The kernel serves every call that does not have to wait, and journald reads
\* its socket.  No failure is assumed to come.
FairSpec == Spec /\ WF_vars(SystemCall) /\ WF_vars(Receive)

-----------------------------------------------------------------------------
(* Safety *)

FileType ==
  [kind : {"free", "socket"}]
    \cup [kind : {"memfd"}, body : Seq(Nat), sealed : BOOLEAN, offset : Nat]

Carried == [kind : {"body"}, body : Seq(Nat)] \cup FileType

\* The variables keep their types, and no call writes beyond its entry.
TypeOK ==
  /\ default \in Writers \cup {None}
  /\ hwriter \in [Handlers -> Writers \cup {None}]
  /\ wsock \in [Writers -> Fds \cup {NoFd}]
  /\ fdtab \in [Fds -> FileType]
  /\ pc \in {"idle", "socket", "send", "memfd_create", "write", "seal", "lseek",
             "undo", "sendmsg", "close"}
  /\ writer \in Writers \cup {None}
  /\ size \in Sizes \cup {0}
  /\ memfd \in Fds \cup {NoFd}
  /\ written \in 0..size
  /\ queue \in Seq([size : Sizes, carries : Carried])

\* Every open descriptor is the socket of one writer or the memfd of the call
\* that is running: whichever system call fails, no memfd outlives its call.
DescriptorsOwned ==
  /\ \A f \in Fds :
       /\ fdtab[f] = Socket <=> \E w \in Writers : wsock[w] = f
       /\ fdtab[f].kind = "memfd" <=> memfd = f
  /\ \A w, v \in Writers : wsock[w] = wsock[v] /\ wsock[w] # NoFd => w = v
  /\ memfd # NoFd <=> pc \in {"write", "seal", "lseek", "undo", "sendmsg", "close"}

Whole(e) ==
  LET body == Bytes(0, e.size)
  IN  e.carries \in {[kind |-> "body", body |-> body], Memfd(body, TRUE, 0)}

\* Whatever was written in pieces or failed on the way, what journald gets is
\* the whole entry, byte for byte: as a body, or as a memfd nobody can change
\* any more, to be read from its beginning.
EntriesWhole == \A i \in DOMAIN queue : Whole(queue[i])

-----------------------------------------------------------------------------
(* Liveness *)

\* A call comes back, however small the pieces that write() takes: a log call
\* does not hang the service while journald reads its socket.
CallReturns == pc # "idle" ~> pc = "idle"
=============================================================================
