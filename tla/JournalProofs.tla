---------------------------- MODULE JournalProofs ----------------------------
(***************************************************************************)
(* Proofs about Journal: its types, the ownership of descriptors and the   *)
(* wholeness of the entries, for any number of handlers and writers, any   *)
(* descriptors, sizes and limits.                                          *)
(***************************************************************************)
EXTENDS Journal, SequenceTheorems, TLAPS

LEMMA NoFdIsNoDescriptor == NoFd \notin Fds
  BY JournalAssumption DEF NoFd

LEMMA BytesType ==
  ASSUME NEW n \in Nat PROVE Bytes(0, n) \in Seq(Nat)
  BY DEF Bytes

\* Writing on where the last write ended makes the bytes follow each other.
LEMMA BytesGoOn ==
  ASSUME NEW n \in Nat, NEW got \in Nat
  PROVE  Bytes(0, n) \o Bytes(n, got) = Bytes(0, n + got)
<1> DEFINE a == Bytes(0, n)
           b == Bytes(n, got)
           c == Bytes(0, n + got)
<1>1. /\ a \in Seq(Nat) /\ Len(a) = n /\ \A i \in 1..n : a[i] = i
      /\ b \in Seq(Nat) /\ Len(b) = got /\ \A i \in 1..got : b[i] = n + i
      /\ c \in Seq(Nat) /\ Len(c) = n + got /\ \A i \in 1..(n + got) : c[i] = i
  BY DEF Bytes
<1> HIDE DEF a, b, c
<1>2. /\ a \o b \in Seq(Nat) /\ Len(a \o b) = n + got
      /\ \A i \in 1..(n + got) : (a \o b)[i] = IF i <= n THEN a[i] ELSE b[i - n]
  BY <1>1
<1>3. \A i \in 1..(n + got) : (a \o b)[i] = c[i]
  BY <1>1, <1>2
<1>4. a \o b = c
  BY <1>1, <1>2, <1>3, SeqEqual
<1> QED
  BY <1>4 DEF a, b, c

LEMMA BytesBegin == Bytes(0, 0) = <<>>
<1>1. Bytes(0, 0) \in Seq(Nat) /\ Len(Bytes(0, 0)) = 0
  BY DEF Bytes
<1> QED
  BY <1>1, EmptySeq

LEMMA KindsDiffer ==
  ASSUME NEW n, NEW b, NEW o
  PROVE  /\ Socket # Free /\ Socket.kind = "socket" /\ Free.kind = "free"
         /\ Memfd(n, b, o).kind = "memfd"
         /\ Socket # Memfd(n, b, o) /\ Free # Memfd(n, b, o)
  BY DEF Socket, Free, Memfd

-----------------------------------------------------------------------------
(* What a call has in hand *)

\* A call works with a writer, on an entry that is not empty, and opens the
\* writer's socket only when it has none.
CallInHand ==
  /\ pc # "idle" => writer \in Writers /\ size \in Sizes
  /\ pc = "socket" => wsock[writer] = NoFd
  /\ pc \in {"idle", "socket", "send", "memfd_create"} => written = 0

\* How far the memfd of a call has got.
EntryInMemfd ==
  /\ pc = "write" => written < size /\ fdtab[memfd] = Memfd(Bytes(0, written), FALSE, written)
  /\ pc = "seal" => written = size /\ fdtab[memfd] = Memfd(Bytes(0, size), FALSE, size)
  /\ pc = "lseek" => fdtab[memfd] = Memfd(Bytes(0, size), TRUE, size)
  /\ pc = "sendmsg" => fdtab[memfd] = Memfd(Bytes(0, size), TRUE, 0)

Inv == TypeOK /\ DescriptorsOwned /\ CallInHand /\ EntryInMemfd /\ EntriesWhole

-----------------------------------------------------------------------------
(* Types *)

LEMMA FileTypes ==
  /\ Free \in FileType /\ Socket \in FileType
  /\ \A n \in Seq(Nat) : \A o \in Nat : \A b \in BOOLEAN : Memfd(n, b, o) \in FileType
  BY DEF Free, Socket, Memfd, FileType

\* A memfd with the first bytes of an entry, and one more write to it.
LEMMA PartType ==
  ASSUME NEW n \in Nat, NEW b \in BOOLEAN, NEW o \in Nat
  PROVE  Memfd(Bytes(0, n), b, o) \in FileType
  BY BytesType, FileTypes

LEMMA PartGrows ==
  ASSUME NEW n \in Nat, NEW got \in Nat, NEW file, file = Memfd(Bytes(0, n), FALSE, n)
  PROVE  Memfd(file.body \o Bytes(n, got), FALSE, file.offset + got)
           = Memfd(Bytes(0, n + got), FALSE, n + got)
<1>1. file.body = Bytes(0, n) /\ file.offset = n
  BY DEF Memfd
<1> QED
  BY <1>1, BytesGoOn

LEMMA SizeType == \A n \in Sizes \cup {0} : n \in Nat
  BY JournalAssumption

LEMMA TypeInit == Init => TypeOK
  BY FileTypes, SMT DEF Init, TypeOK

LEMMA TypeStep == TypeOK /\ DescriptorsOwned /\ CallInHand /\ EntryInMemfd /\ [Next]_vars => TypeOK'
<1> SUFFICES ASSUME TypeOK, DescriptorsOwned, CallInHand, EntryInMemfd, [Next]_vars PROVE TypeOK'
  OBVIOUS
<1> USE SizeType DEF TypeOK, call
<1> DEFINE T == TypeOK'
<1>1. ASSUME NEW h \in Handlers, MakeHandler(h) PROVE T
  BY <1>1 DEF MakeHandler
<1>2. ASSUME NEW h \in Handlers, Emit(h) PROVE T
  BY <1>2 DEF Emit, Begin, CallInHand
<1>3. CASE Send
  <2>1. PICK w \in Writers : default' = w /\ Begin(w)
    BY <1>3 DEF Send
  <2> QED
    BY <1>3, <2>1 DEF Send, Begin, CallInHand
<1>4. CASE Close
  BY <1>4, FileTypes DEF Close, CloseSocket
<1>18. ASSUME NEW w \in Own, SendOwn(w) PROVE T
  BY <1>18, JournalAssumption DEF SendOwn, Begin, CallInHand
<1>19. ASSUME NEW w \in Own, CloseOwn(w) PROVE T
  BY <1>19, FileTypes, JournalAssumption DEF CloseOwn, CloseSocket
<1>5. CASE OpenSocket
  BY <1>5, FileTypes DEF OpenSocket
<1>6. CASE OutOfFds \/ CallFails
  BY <1>6 DEF OutOfFds, CallFails, Fail, Return
<1>7. CASE SendDatagram
  <2>1. Datagram \in [size : Sizes, carries : Carried]
    <3>1. size \in Sizes /\ Bytes(0, size) \in Seq(Nat)
      BY <1>7, BytesType DEF SendDatagram, CallInHand
    <3> QED
      BY <3>1 DEF Datagram, Carried
  <2> QED
    BY <1>7, <2>1 DEF SendDatagram, Return
<1>8. CASE SendTooLarge \/ SendNoBuffers
  BY <1>8 DEF SendTooLarge, SendNoBuffers, ByMemfd
<1>9. CASE MemfdCreate
  <2>1. PICK f \in Fds : fdtab' = [fdtab EXCEPT ![f] = Memfd(<<>>, FALSE, 0)] /\ memfd' = f
    BY <1>9 DEF MemfdCreate
  <2>2. Memfd(<<>>, FALSE, 0) \in FileType
    BY PartType, BytesBegin
  <2> QED
    BY <1>9, <2>1, <2>2 DEF MemfdCreate
<1>10. CASE Write
  <2>1. PICK got \in 1..(size - written) :
          /\ written' = written + got
          /\ fdtab' = [fdtab EXCEPT ![memfd] = Memfd(@.body \o Bytes(written, got), FALSE, @.offset + got)]
          /\ Goto(AfterWrite(got))
    BY <1>10 DEF Write, Progress, ViewFrom
  <2>2. fdtab[memfd] = Memfd(Bytes(0, written), FALSE, written)
    BY <1>10 DEF Write, EntryInMemfd
  <2>3. fdtab' = [fdtab EXCEPT ![memfd] = Memfd(Bytes(0, written + got), FALSE, written + got)]
    <3>1. got \in Nat /\ written \in Nat
      BY <2>1
    <3> QED
      BY <2>1, <2>2, <3>1, PartGrows
  <2>4. written' \in 0..size /\ written + got \in Nat
    BY <2>1
  <2>5. fdtab' \in [Fds -> FileType]
    BY <2>3, <2>4, PartType
  <2> QED
    BY <2>1, <2>4, <2>5 DEF Goto, AfterWrite
<1>11. CASE Seal
  <2>1. fdtab[memfd] = Memfd(Bytes(0, size), FALSE, size)
    BY <1>11 DEF Seal, EntryInMemfd
  <2>2. fdtab' = [fdtab EXCEPT ![memfd] = Memfd(Bytes(0, size), TRUE, size)]
    BY <1>11, <2>1 DEF Seal, Memfd
  <2>3. Memfd(Bytes(0, size), TRUE, size) \in FileType
    BY PartType
  <2> QED
    BY <1>11, <2>2, <2>3 DEF Seal, Goto
<1>12. CASE Rewind
  <2>1. fdtab[memfd] = Memfd(Bytes(0, size), TRUE, size)
    BY <1>12 DEF Rewind, EntryInMemfd
  <2>2. fdtab' = [fdtab EXCEPT ![memfd] = Memfd(Bytes(0, size), TRUE, 0)]
    BY <1>12, <2>1 DEF Rewind, Memfd
  <2>3. Memfd(Bytes(0, size), TRUE, 0) \in FileType
    BY PartType
  <2> QED
    BY <1>12, <2>2, <2>3 DEF Rewind, Goto
<1>13. CASE MemfdFails \/ SendMemfdFails
  BY <1>13 DEF MemfdFails, SendMemfdFails, Goto
<1>14. CASE UndoMemfd \/ CloseSent
  <2>1. Free \in FileType
    BY FileTypes
  <2>2. fdtab' = [fdtab EXCEPT ![memfd] = Free]
    BY <1>14 DEF UndoMemfd, CloseSent, CloseMemfd
  <2>3. fdtab' \in [Fds -> FileType]
    BY <2>1, <2>2
  <2> QED
    BY <1>14, <2>3 DEF UndoMemfd, CloseSent, Return
<1>15. CASE SendMemfd
  <2>1. memfd \in Fds /\ size \in Sizes
    BY <1>15 DEF SendMemfd, DescriptorsOwned, CallInHand
  <2>2. [size |-> size, carries |-> fdtab[memfd]] \in [size : Sizes, carries : Carried]
    BY <2>1 DEF Carried
  <2> QED
    BY <1>15, <2>2 DEF SendMemfd
<1>16. CASE Receive
  BY <1>16 DEF Receive
<1>17. CASE UNCHANGED vars
  BY <1>17 DEF vars
<1> QED
  BY <1>1, <1>2, <1>3, <1>4, <1>5, <1>6, <1>7, <1>8, <1>9, <1>10, <1>11, <1>12, <1>13,
     <1>14, <1>15, <1>16, <1>17, <1>18, <1>19 DEF Next, SystemCall, Mishap

-----------------------------------------------------------------------------
(* The call *)

LEMMA InvInit == Init => Inv
<1> SUFFICES ASSUME Init PROVE Inv
  OBVIOUS
<1>1. TypeOK
  BY TypeInit
<1>2. DescriptorsOwned
  BY NoFdIsNoDescriptor DEF Init, DescriptorsOwned, Free, Socket
<1>3. CallInHand /\ EntryInMemfd
  BY DEF Init, CallInHand, EntryInMemfd
<1>4. EntriesWhole
  BY DEF Init, EntriesWhole
<1> QED
  BY <1>1, <1>2, <1>3, <1>4 DEF Inv

LEMMA HandStep == TypeOK /\ CallInHand /\ [Next]_vars => CallInHand'
<1> SUFFICES ASSUME TypeOK, CallInHand, [Next]_vars PROVE CallInHand'
  OBVIOUS
<1> USE DEF CallInHand, call
<1> DEFINE H == CallInHand'
<1>1. ASSUME NEW w \in Writers, Begin(w), UNCHANGED wsock, pc = "idle" PROVE H
  BY <1>1 DEF Begin
<1>2. ASSUME NEW h \in Handlers, MakeHandler(h) PROVE H
  BY <1>2 DEF MakeHandler
<1>3. ASSUME NEW h \in Handlers, Emit(h) PROVE H
  <2>1. hwriter[h] \in Writers
    BY <1>3 DEF Emit, TypeOK
  <2> QED
    BY <1>1, <1>3, <2>1 DEF Emit
<1>4. CASE Send
  BY <1>1, <1>4 DEF Send
<1>5. CASE Close
  BY <1>5 DEF Close, CloseSocket
<1>11. ASSUME NEW w \in Own, SendOwn(w) PROVE H
  BY <1>1, <1>11, JournalAssumption DEF SendOwn
<1>12. ASSUME NEW w \in Own, CloseOwn(w) PROVE H
  BY <1>12, JournalAssumption DEF CloseOwn, CloseSocket
<1>6. CASE OpenSocket \/ SendTooLarge \/ SendNoBuffers \/ MemfdCreate
  BY <1>6 DEF OpenSocket, SendTooLarge, SendNoBuffers, ByMemfd, MemfdCreate
<1>7. CASE OutOfFds \/ CallFails \/ SendDatagram \/ UndoMemfd \/ CloseSent
  BY <1>7 DEF OutOfFds, CallFails, Fail, SendDatagram, UndoMemfd, CloseSent, Return
<1>8. CASE Write
  BY <1>8 DEF Write, Goto, AfterWrite
<1>9. CASE Seal \/ Rewind \/ MemfdFails \/ SendMemfdFails
  BY <1>9 DEF Seal, Rewind, MemfdFails, SendMemfdFails, Goto
<1>10. CASE SendMemfd \/ Receive \/ UNCHANGED vars
  BY <1>10 DEF SendMemfd, Receive, vars
<1> QED
  BY <1>2, <1>3, <1>4, <1>5, <1>6, <1>7, <1>8, <1>9, <1>10, <1>11, <1>12
     DEF Next, SystemCall, Mishap

\* Write and Seal and Rewind advance the memfd together with the call.
LEMMA EntryStep ==
  ASSUME TypeOK, DescriptorsOwned, CallInHand, EntryInMemfd, [Next]_vars
  PROVE  EntryInMemfd'
<1> USE DEF EntryInMemfd, call
<1> DEFINE E == EntryInMemfd'
<1>1. ASSUME pc' \notin {"write", "seal", "lseek", "sendmsg"} PROVE E
  BY <1>1
<1>2. ASSUME NEW h \in Handlers, MakeHandler(h) \/ Emit(h) PROVE E
  BY <1>1, <1>2 DEF MakeHandler, Emit, Begin
<1>3. CASE Send \/ Close
  BY <1>1, <1>3 DEF Send, Begin, Close
<1>12. ASSUME NEW w \in Own, SendOwn(w) \/ CloseOwn(w) PROVE E
  BY <1>1, <1>12 DEF SendOwn, Begin, CloseOwn
<1>4. CASE OpenSocket \/ SendTooLarge \/ SendNoBuffers
  BY <1>1, <1>4 DEF OpenSocket, SendTooLarge, SendNoBuffers, ByMemfd
<1>5. CASE OutOfFds \/ CallFails \/ SendDatagram \/ UndoMemfd \/ CloseSent
  BY <1>1, <1>5 DEF OutOfFds, CallFails, Fail, SendDatagram, UndoMemfd, CloseSent, Return
<1>6. CASE MemfdFails \/ SendMemfd \/ SendMemfdFails
  BY <1>1, <1>6 DEF MemfdFails, SendMemfd, SendMemfdFails, Goto
<1>7. CASE MemfdCreate
  <2>1. PICK f \in Fds : fdtab' = [fdtab EXCEPT ![f] = Memfd(<<>>, FALSE, 0)] /\ memfd' = f
    BY <1>7 DEF MemfdCreate
  <2>2. size \in Sizes /\ written = 0
    BY <1>7 DEF MemfdCreate, CallInHand
  <2>3. written < size
    BY <2>2, JournalAssumption
  <2>4. fdtab'[memfd'] = Memfd(<<>>, FALSE, 0)
    BY <2>1 DEF TypeOK
  <2> QED
    BY <1>7, <2>2, <2>3, <2>4, BytesBegin DEF MemfdCreate
<1>8. CASE Write
  <2>1. PICK got \in 1..(size - written) :
          /\ written' = written + got
          /\ fdtab' = [fdtab EXCEPT ![memfd] = Memfd(@.body \o Bytes(written, got), FALSE, @.offset + got)]
          /\ Goto(AfterWrite(got))
    BY <1>8 DEF Write, Progress, ViewFrom
  <2>2. fdtab[memfd] = Memfd(Bytes(0, written), FALSE, written) /\ memfd \in Fds
    BY <1>8 DEF Write, DescriptorsOwned, TypeOK
  <2>3. fdtab'[memfd] = Memfd(Bytes(0, written + got), FALSE, written + got)
    <3>1. got \in Nat /\ written \in Nat
      BY <2>1, SizeType DEF TypeOK
    <3> QED
      BY <2>1, <2>2, <3>1, PartGrows DEF TypeOK
  <2>4. UNCHANGED <<memfd, size>> /\ pc' = AfterWrite(got)
    BY <2>1 DEF Goto
  <2>5. CASE written + got < size
    BY <2>1, <2>3, <2>4, <2>5 DEF AfterWrite
  <2>6. CASE ~(written + got < size)
    <3>1. size \in Nat /\ written \in 0..size
      BY SizeType DEF TypeOK
    <3>2. written + got = size
      BY <2>6, <3>1
    <3> QED
      BY <2>1, <2>3, <2>4, <2>6, <3>2 DEF AfterWrite
  <2> QED
    BY <2>5, <2>6
<1>9. CASE Seal
  <2>1. fdtab[memfd] = Memfd(Bytes(0, size), FALSE, size) /\ memfd \in Fds
    BY <1>9 DEF Seal, DescriptorsOwned, TypeOK
  <2>2. fdtab'[memfd] = Memfd(Bytes(0, size), TRUE, size)
    BY <1>9, <2>1 DEF Seal, Memfd, TypeOK
  <2> QED
    BY <1>9, <2>2 DEF Seal, Goto
<1>10. CASE Rewind
  <2>1. fdtab[memfd] = Memfd(Bytes(0, size), TRUE, size) /\ memfd \in Fds
    BY <1>10 DEF Rewind, DescriptorsOwned, TypeOK
  <2>2. fdtab'[memfd] = Memfd(Bytes(0, size), TRUE, 0)
    BY <1>10, <2>1 DEF Rewind, Memfd, TypeOK
  <2> QED
    BY <1>10, <2>2 DEF Rewind, Goto
<1>11. CASE Receive \/ UNCHANGED vars
  BY <1>11 DEF Receive, vars
<1> QED
  BY <1>2, <1>3, <1>4, <1>5, <1>6, <1>7, <1>8, <1>9, <1>10, <1>11, <1>12
     DEF Next, SystemCall, Mishap

-----------------------------------------------------------------------------
(* What journald gets *)

LEMMA WholeStep ==
  ASSUME TypeOK, EntryInMemfd, EntriesWhole, [Next]_vars
  PROVE  EntriesWhole'
<1> DEFINE W == EntriesWhole'
<1>1. ASSUME NEW e, Whole(e), queue' = Append(queue, e)
      PROVE  W
  <2>1. /\ Len(queue) \in Nat
        /\ DOMAIN queue' = 1..(Len(queue) + 1)
        /\ \A i \in 1..Len(queue) : queue'[i] = queue[i]
        /\ queue'[Len(queue) + 1] = e
    BY <1>1 DEF TypeOK
  <2>2. \A i \in 1..Len(queue) : Whole(queue[i])
    BY DEF EntriesWhole, TypeOK
  <2> QED
    BY <1>1, <2>1, <2>2 DEF EntriesWhole
<1>2. ASSUME UNCHANGED queue PROVE W
  BY <1>2 DEF EntriesWhole
<1>3. CASE SendDatagram
  <2>1. Whole(Datagram)
    BY DEF Datagram, Whole
  <2> QED
    BY <1>1, <1>3, <2>1 DEF SendDatagram
<1>4. CASE SendMemfd
  <2> DEFINE e == [size |-> size, carries |-> fdtab[memfd]]
  <2>1. Whole(e)
    BY <1>4 DEF SendMemfd, EntryInMemfd, Whole
  <2> HIDE DEF e
  <2>2. queue' = Append(queue, e)
    BY <1>4 DEF SendMemfd, e
  <2> QED
    BY <1>1, <2>1, <2>2
<1>5. CASE Receive
  <2>1. /\ Len(queue) \in Nat
        /\ DOMAIN queue' = 1..(Len(queue) - 1)
        /\ \A i \in DOMAIN queue' : queue'[i] = queue[i + 1] /\ i + 1 \in DOMAIN queue
    BY <1>5 DEF Receive, TypeOK
  <2> QED
    BY <2>1 DEF EntriesWhole
<1> QED
  BY <1>2, <1>3, <1>4, <1>5
     DEF Next, vars, MakeHandler, Emit, Send, Close, SendOwn, CloseOwn, SystemCall, Mishap, OpenSocket, OutOfFds, CallFails,
         Fail, SendTooLarge, SendNoBuffers, ByMemfd, MemfdCreate, Write, Seal, Rewind,
         MemfdFails, SendMemfdFails, UndoMemfd, CloseSent, Goto

-----------------------------------------------------------------------------
(* Descriptors *)

InMemfd == pc \in {"write", "seal", "lseek", "undo", "sendmsg", "close"}

\* No step but those of the kernel's table changes what belongs to whom.
LEMMA OwnedKept ==
  ASSUME DescriptorsOwned, UNCHANGED <<wsock, memfd>>, InMemfd' <=> InMemfd,
         \A f \in Fds : fdtab'[f] = Socket <=> fdtab[f] = Socket,
         \A f \in Fds : fdtab'[f].kind = "memfd" <=> fdtab[f].kind = "memfd"
  PROVE  DescriptorsOwned'
  BY DEF DescriptorsOwned, InMemfd

\* The call's memfd is replaced by the same one in another state.
LEMMA MemfdChanged ==
  ASSUME TypeOK, DescriptorsOwned, UNCHANGED <<wsock, memfd>>, InMemfd, InMemfd',
         NEW n, NEW b, NEW o, fdtab' = [fdtab EXCEPT ![memfd] = Memfd(n, b, o)]
  PROVE  DescriptorsOwned'
<1>1. memfd \in Fds /\ fdtab[memfd].kind = "memfd"
  BY DEF DescriptorsOwned, InMemfd, TypeOK
<1>2. fdtab[memfd] # Socket
  BY <1>1, KindsDiffer
<1>3. fdtab'[memfd].kind = "memfd" /\ fdtab'[memfd] # Socket
  BY <1>1, KindsDiffer DEF TypeOK
<1>4. \A f \in Fds \ {memfd} : fdtab'[f] = fdtab[f]
  BY DEF TypeOK
<1> QED
  BY <1>1, <1>2, <1>3, <1>4, OwnedKept

\* A memfd is closed and its call is over.
LEMMA MemfdClosed ==
  ASSUME TypeOK, DescriptorsOwned, UNCHANGED wsock, InMemfd, CloseMemfd, Return
  PROVE  DescriptorsOwned'
<1>1. memfd \in Fds /\ fdtab[memfd].kind = "memfd"
  BY DEF DescriptorsOwned, InMemfd, TypeOK
<1>2. fdtab[memfd] # Socket
  BY <1>1, KindsDiffer
<1>3. fdtab'[memfd] = Free
  BY <1>1 DEF CloseMemfd, TypeOK
<1>4. \A f \in Fds \ {memfd} : fdtab'[f] = fdtab[f]
  BY DEF CloseMemfd, TypeOK
<1>5. memfd' = NoFd /\ pc' = "idle"
  BY DEF Return
<1>6. \A f \in Fds : fdtab'[f] = Socket <=> fdtab[f] = Socket
  BY <1>2, <1>3, <1>4, KindsDiffer
<1>7. \A f \in Fds : fdtab'[f].kind # "memfd"
  BY <1>3, <1>4, KindsDiffer DEF DescriptorsOwned
<1> QED
  BY <1>5, <1>6, <1>7, NoFdIsNoDescriptor DEF DescriptorsOwned

\* A writer is closed, whoever closes it.
LEMMA SocketClosed ==
  ASSUME TypeOK, DescriptorsOwned, NEW d \in Writers, CloseSocket(d),
         UNCHANGED <<memfd, pc>>
  PROVE  DescriptorsOwned'
<1>1. CASE wsock[d] = NoFd
  BY <1>1, OwnedKept DEF CloseSocket, InMemfd
<1>2. CASE wsock[d] # NoFd
  <2> DEFINE g == wsock[d]
  <2>1. g \in Fds /\ fdtab[g] = Socket /\ fdtab[g].kind # "memfd"
    BY <1>2, KindsDiffer DEF DescriptorsOwned, TypeOK
  <2>2. fdtab' = [fdtab EXCEPT ![g] = Free] /\ wsock' = [wsock EXCEPT ![d] = NoFd]
    BY <1>2 DEF CloseSocket
  <2>3. fdtab'[g] = Free /\ \A f \in Fds \ {g} : fdtab'[f] = fdtab[f]
    BY <2>1, <2>2 DEF TypeOK
  <2>4. wsock'[d] = NoFd /\ \A w \in Writers \ {d} : wsock'[w] = wsock[w]
    BY <2>2 DEF TypeOK
  <2>5. \A w \in Writers \ {d} : wsock[w] # g
    BY <1>2 DEF DescriptorsOwned
  <2> HIDE DEF g
  <2>6. \A f \in Fds : fdtab'[f] = Socket <=> \E w \in Writers : wsock'[w] = f
    BY <2>1, <2>3, <2>4, <2>5, KindsDiffer, NoFdIsNoDescriptor DEF DescriptorsOwned, g
  <2>7. \A f \in Fds : fdtab'[f].kind = "memfd" <=> memfd' = f
    BY <2>1, <2>3, KindsDiffer DEF DescriptorsOwned
  <2>8. \A w, v \in Writers : wsock'[w] = wsock'[v] /\ wsock'[w] # NoFd => w = v
    BY <2>4 DEF DescriptorsOwned
  <2> QED
    BY <2>6, <2>7, <2>8 DEF DescriptorsOwned
<1> QED
  BY <1>1, <1>2

LEMMA OwnedStep ==
  ASSUME TypeOK, DescriptorsOwned, CallInHand, [Next]_vars
  PROVE  DescriptorsOwned'
<1> USE DEF call
<1> DEFINE D == DescriptorsOwned'
<1>1. ASSUME UNCHANGED <<wsock, memfd, fdtab>>, InMemfd' <=> InMemfd PROVE D
  BY <1>1, OwnedKept
<1>2. ASSUME NEW h \in Handlers, MakeHandler(h) \/ Emit(h) PROVE D
  BY <1>1, <1>2 DEF MakeHandler, Emit, Begin, InMemfd
<1>3. CASE Send
  BY <1>1, <1>3 DEF Send, Begin, InMemfd
<1>4. CASE Close
  BY <1>4, SocketClosed DEF Close, TypeOK, InMemfd
<1>15. ASSUME NEW w \in Own, SendOwn(w) PROVE D
  BY <1>1, <1>15 DEF SendOwn, Begin, InMemfd
<1>16. ASSUME NEW w \in Own, CloseOwn(w) PROVE D
  BY <1>16, SocketClosed, JournalAssumption DEF CloseOwn, InMemfd
<1>5. CASE OpenSocket
  <2>1. PICK g \in Fds : /\ fdtab[g] = Free
                         /\ fdtab' = [fdtab EXCEPT ![g] = Socket]
                         /\ wsock' = [wsock EXCEPT ![writer] = g]
    BY <1>5 DEF OpenSocket, LowestFree
  <2>2. writer \in Writers /\ wsock[writer] = NoFd /\ UNCHANGED memfd /\ pc = "socket" /\ pc' = "send"
    BY <1>5 DEF OpenSocket, CallInHand
  <2>3. fdtab'[g] = Socket /\ \A f \in Fds \ {g} : fdtab'[f] = fdtab[f]
    BY <2>1 DEF TypeOK
  <2>4. wsock'[writer] = g /\ \A w \in Writers \ {writer} : wsock'[w] = wsock[w] /\ wsock[w] # g
    BY <2>1, <2>2, KindsDiffer DEF TypeOK, DescriptorsOwned
  <2>5. \A f \in Fds : fdtab'[f] = Socket <=> \E w \in Writers : wsock'[w] = f
    BY <2>2, <2>3, <2>4, NoFdIsNoDescriptor DEF DescriptorsOwned
  <2>6. \A f \in Fds : fdtab'[f].kind = "memfd" <=> memfd' = f
    BY <2>1, <2>2, <2>3, KindsDiffer DEF DescriptorsOwned
  <2>7. \A w, v \in Writers : wsock'[w] = wsock'[v] /\ wsock'[w] # NoFd => w = v
    BY <2>4 DEF DescriptorsOwned
  <2> QED
    BY <2>2, <2>5, <2>6, <2>7 DEF DescriptorsOwned
<1>6. CASE MemfdCreate
  <2>1. PICK g \in Fds : /\ fdtab[g] = Free
                         /\ fdtab' = [fdtab EXCEPT ![g] = Memfd(<<>>, FALSE, 0)]
                         /\ memfd' = g
    BY <1>6 DEF MemfdCreate, LowestFree
  <2>2. memfd = NoFd /\ UNCHANGED wsock /\ pc' = "write"
    BY <1>6 DEF MemfdCreate, DescriptorsOwned
  <2>3. fdtab'[g] = Memfd(<<>>, FALSE, 0) /\ \A f \in Fds \ {g} : fdtab'[f] = fdtab[f]
    BY <2>1 DEF TypeOK
  <2>4. \A f \in Fds : fdtab'[f] = Socket <=> fdtab[f] = Socket
    <3>1. fdtab[g] # Socket
      BY <2>1, KindsDiffer
    <3>2. Socket # Memfd(<<>>, FALSE, 0)
      BY KindsDiffer
    <3>3. fdtab'[g] # Socket
      BY <2>3, <3>2
    <3> QED
      BY <2>3, <3>1, <3>3
  <2>5. \A f \in Fds : fdtab'[f].kind = "memfd" <=> memfd' = f
    <3>1. Memfd(<<>>, FALSE, 0).kind = "memfd"
      BY KindsDiffer
    <3>2. fdtab'[g].kind = "memfd"
      BY <2>3, <3>1
    <3>3. \A f \in Fds : fdtab[f].kind # "memfd"
      BY <2>2, NoFdIsNoDescriptor DEF DescriptorsOwned
    <3> QED
      BY <2>1, <2>3, <3>2, <3>3
  <2> QED
    BY <2>1, <2>2, <2>4, <2>5, NoFdIsNoDescriptor DEF DescriptorsOwned
<1>7. CASE OutOfFds \/ CallFails \/ SendDatagram
  <2>1. UNCHANGED <<wsock, fdtab>> /\ memfd = NoFd /\ memfd' = NoFd /\ ~InMemfd /\ ~InMemfd'
    BY <1>7 DEF OutOfFds, CallFails, Fail, SendDatagram, Return, InMemfd, DescriptorsOwned
  <2> QED
    BY <1>1, <2>1
<1>8. CASE SendTooLarge \/ SendNoBuffers
  BY <1>1, <1>8 DEF SendTooLarge, SendNoBuffers, ByMemfd, InMemfd
<1>9. CASE Write
  <2>1. PICK got \in 1..(size - written) :
          /\ fdtab' = [fdtab EXCEPT ![memfd] = Memfd(@.body \o Bytes(written, got), FALSE, @.offset + got)]
          /\ Goto(AfterWrite(got)) /\ pc = "write"
    BY <1>9 DEF Write, Progress, ViewFrom
  <2>2. UNCHANGED <<wsock, memfd>> /\ pc' = AfterWrite(got)
    BY <2>1 DEF Goto
  <2>3. InMemfd /\ InMemfd'
    BY <2>1, <2>2 DEF AfterWrite, InMemfd
  <2> QED
    BY <2>1, <2>2, <2>3, MemfdChanged
<1>10. CASE Seal
  <2>1. UNCHANGED <<wsock, memfd>> /\ InMemfd /\ InMemfd'
    BY <1>10 DEF Seal, Goto, InMemfd
  <2> QED
    BY <1>10, <2>1, MemfdChanged DEF Seal
<1>11. CASE Rewind
  <2>1. UNCHANGED <<wsock, memfd>> /\ InMemfd /\ InMemfd'
    BY <1>11 DEF Rewind, Goto, InMemfd
  <2> QED
    BY <1>11, <2>1, MemfdChanged DEF Rewind
<1>12. CASE MemfdFails \/ SendMemfd \/ SendMemfdFails
  BY <1>1, <1>12 DEF MemfdFails, SendMemfd, SendMemfdFails, Goto, InMemfd
<1>13. CASE UndoMemfd \/ CloseSent
  BY <1>13, MemfdClosed DEF UndoMemfd, CloseSent, InMemfd
<1>14. CASE Receive \/ UNCHANGED vars
  BY <1>1, <1>14 DEF Receive, vars, InMemfd
<1> QED
  BY <1>2, <1>3, <1>4, <1>5, <1>6, <1>7, <1>8, <1>9, <1>10, <1>11, <1>12, <1>13, <1>14,
     <1>15, <1>16 DEF Next, SystemCall, Mishap

-----------------------------------------------------------------------------
(* The theorems *)

LEMMA InvAlways == Spec => []Inv
<1>1. Inv /\ [Next]_vars => Inv'
  BY TypeStep, HandStep, EntryStep, OwnedStep, WholeStep DEF Inv
<1> QED
  BY <1>1, InvInit, PTL DEF Spec

\* The variables of the journal's writers keep their types: in particular
\* memfd_sealed never counts more bytes written than the entry has.
THEOREM JournalTypeCorrect == Spec => []TypeOK
<1>1. Inv => TypeOK
  BY DEF Inv
<1> QED
  BY <1>1, InvAlways, PTL

\* Whatever system call fails in send_raw or memfd_sealed, and whichever writer
\* is opened, closed or kept by a handler, every open descriptor is the socket
\* of one writer or the memfd of the call that runs.
THEOREM JournalDescriptorsOwned == Spec => []DescriptorsOwned
<1>1. Inv => DescriptorsOwned
  BY DEF Inv
<1> QED
  BY <1>1, InvAlways, PTL

\* However write() splits an entry and whatever fails, journald finds nothing
\* but whole entries on its socket, sealed and rewound when they are memfds.
THEOREM JournalEntriesWhole == Spec => []EntriesWhole
<1>1. Inv => EntriesWhole
  BY DEF Inv
<1> QED
  BY <1>1, InvAlways, PTL
=============================================================================
