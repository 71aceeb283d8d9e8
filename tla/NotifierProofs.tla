--------------------------- MODULE NotifierProofs ---------------------------
(***************************************************************************)
(* Proofs, for every set of callers, of descriptors and every bound, that  *)
(* the notification channel of Notifier loses no descriptor, that a        *)
(* barrier answers True only when what preceded it was received, that it   *)
(* waits for the listener alone, and that the whole implements             *)
(* BarrierPromise.                                                         *)
(***************************************************************************)
EXTENDS Notifier, TLAPS

LEMMA NoFdIsNoDescriptor == NoFd \notin Fds
  BY NotifierAssumption DEF NoFd

-----------------------------------------------------------------------------
(* Type correctness *)

LEMMA TypeInit == Init => TypeOK
  BY NotifierAssumption, SMT DEF Init, TypeOK, PCs, FileType, Free, File, Datagram

LEMMA TypeStep == TypeOK /\ [Next]_vars => TypeOK'
<1> SUFFICES ASSUME TypeOK, [Next]_vars PROVE TypeOK'
  OBVIOUS
<1> USE DEF TypeOK, PCs, channel, caller
<1> DEFINE T == TypeOK'
<1>1. ASSUME NEW c \in Callers, Construct(c) PROVE T
  BY <1>1 DEF Construct
<1>2. ASSUME NEW c \in Callers, CallUnavailable(c) PROVE T
  BY <1>2 DEF CallUnavailable, Return, AfterCall, Goto
<1>3. ASSUME NEW c \in Callers, StartNotify(c) PROVE T
  BY <1>3 DEF StartNotify, AtSendRaw, Goto
<1>4. ASSUME NEW c \in Callers, StartBarrier(c) PROVE T
  <2>1. ReadEnd(nops + 1) \in FileType /\ WriteEnd(nops + 1) \in FileType
    BY DEF FileType, ReadEnd, WriteEnd, File
  <2>2. fdtab' \in [Fds -> FileType]
    BY <1>4, <2>1 DEF StartBarrier
  <2>3. pc' \in [Callers -> PCs]
    BY <1>4 DEF StartBarrier, AtSendRaw, Goto
  <2>4. rfd' \in [Callers -> Fds \cup {NoFd}] /\ wfd' \in [Callers -> Fds \cup {NoFd}]
    BY <1>4 DEF StartBarrier
  <2>5. /\ op' \in [Callers -> {"none", "notify", "barrier"}] /\ pipe' \in [Callers -> Nat] /\ nops' \in Nat
        /\ UNCHANGED <<env, obj, sock, channel, mark, answer>>
    BY <1>4 DEF StartBarrier
  <2> QED
    BY <2>2, <2>3, <2>4, <2>5
<1>5. ASSUME NEW c \in Callers, BarrierWithoutPipe(c) PROVE T
  BY <1>5 DEF BarrierWithoutPipe, Return, AfterCall, Goto
<1>6. ASSUME NEW c \in Callers, OpenSocket(c) PROVE T
  <2>1. Socket \in FileType
    BY DEF FileType, Socket, File
  <2> QED
    BY <1>6, <2>1 DEF OpenSocket, Goto
<1>7. ASSUME NEW c \in Callers, SocketFails(c) \/ SendFails(c) PROVE T
  <2>1. UNCHANGED <<env, obj, sock, fdtab, nops, channel, rfd, wfd>> /\ SendRawRaises(c)
    BY <1>7 DEF SocketFails, SendFails
  <2>2. CASE op[c] = "notify" /\ Return(c)
    BY <2>1, <2>2 DEF Return, AfterCall, Goto
  <2>3. CASE op[c] = "barrier" /\ Goto(c, "undo_read") /\ UNCHANGED <<op, pipe, mark, answer>>
    BY <2>1, <2>3 DEF Goto
  <2> QED
    BY <2>1, <2>2, <2>3 DEF SendRawRaises
<1>9. ASSUME NEW c \in Callers, Send(c) PROVE T
  <2>1. NotifyDatagram \in Datagram /\ BarrierDatagram(c) \in Datagram
    BY DEF Datagram, NotifyDatagram, BarrierDatagram
  <2>2. PICK d \in Datagram : queue' = Append(queue, d)
    BY <1>9, <2>1 DEF Send, SendNotify, SendBarrier
  <2>3. queue' \in Seq(Datagram) /\ Len(queue') = Len(queue) + 1
    BY <2>2
  <2>4. Len(queue') <= QueueMax
    BY <1>9, <2>3, NotifierAssumption DEF Send, SendNotify, SendBarrier, Room
  <2>5. CASE SendNotify(c)
    BY <2>3, <2>4, <2>5 DEF SendNotify, Return, AfterCall, Goto
  <2>6. CASE SendBarrier(c)
    BY <2>3, <2>4, <2>6 DEF SendBarrier, Goto
  <2> QED
    BY <1>9, <2>5, <2>6 DEF Send
<1>10. ASSUME NEW c \in Callers, UndoRead(c) PROVE T
  BY <1>10 DEF UndoRead, CloseFd, Goto, FileType, Free, File
<1>11. ASSUME NEW c \in Callers, DropWrite(c) PROVE T
  BY <1>11 DEF DropWrite, CloseFd, Goto, FileType, Free, File
<1>12. ASSUME NEW c \in Callers, UndoWrite(c) PROVE T
  BY <1>12 DEF UndoWrite, CloseFd, Return, AfterCall, Goto, FileType, Free, File
<1>13. ASSUME NEW c \in Callers, Finish(c) \/ TimeOut(c) PROVE T
  BY <1>13 DEF Finish, TimeOut, Answer, Goto
<1>14. ASSUME NEW c \in Callers, FinishAgain(c) PROVE T
  BY <1>14 DEF FinishAgain, Goto
<1>15. ASSUME NEW c \in Callers, CloseRead(c) PROVE T
  BY <1>15 DEF CloseRead, CloseFd, Return, AfterCall, Goto, FileType, Free, File
<1>16. ASSUME NEW c \in Callers, Close(c) PROVE T
  BY <1>16 DEF Close, CloseSocket, CloseFd, FileType, Free, File
<1>17. CASE UnsetNotifyEnvironment
  BY <1>17 DEF UnsetNotifyEnvironment
<1>18. CASE Receive
  <2>1. /\ Head(queue) \in Datagram
        /\ Tail(queue) \in Seq(Datagram)
        /\ Len(Tail(queue)) = Len(queue) - 1
    BY <1>18 DEF Receive
  <2>2. held' \subseteq Nat /\ done' \subseteq Nat
    BY <1>18, <2>1 DEF Receive, Datagram
  <2>3. Len(queue') <= QueueMax
    BY <1>18, <2>1, NotifierAssumption DEF Receive
  <2> QED
    BY <1>18, <2>1, <2>2, <2>3 DEF Receive
<1>19. ASSUME NEW p \in held, CloseFds(p) PROVE T
  BY <1>19 DEF CloseFds
<1>20. CASE ListenerClose
  BY <1>20, NotifierAssumption DEF ListenerClose
<1>21. ASSUME NEW c \in Callers, Exit(c) PROVE T
  <2>1. UNCHANGED <<env, nops, channel, op, rfd, wfd, pipe, mark, answer>>
    BY <1>21 DEF Exit
  <2>2. pc' \in [Callers -> PCs] /\ obj' \in [Callers -> {"none", "off", "on"}]
    BY <1>21 DEF Exit, Goto
  <2>3. fdtab' \in [Fds -> FileType] /\ sock' \in [Callers -> Fds \cup {NoFd}]
    <3>1. Free \in FileType
      BY DEF FileType, Free, File
    <3>2. \/ UNCHANGED <<sock, fdtab>>
          \/ /\ fdtab' = [fdtab EXCEPT ![sock[c]] = Free]
             /\ sock' = [sock EXCEPT ![c] = NoFd]
      BY <1>21 DEF Exit, CloseSocket, CloseFd
    <3> QED
      BY <3>1, <3>2
  <2> QED
    BY <2>1, <2>2, <2>3
<1>22. CASE UNCHANGED vars
  BY <1>22 DEF vars
<1> HIDE DEF T
<1> QED
  BY <1>1, <1>2, <1>3, <1>4, <1>5, <1>6, <1>7, <1>9, <1>10, <1>11, <1>12, <1>13,
     <1>14, <1>15, <1>16, <1>17, <1>18, <1>19, <1>20, <1>21, <1>22
     DEF Next, CallerStep, SendRefused, SendErrs, T

\* The variables keep their types, and the listener's queue its bound, in every
\* behaviour: in particular a pipe's number and a mark are always numbers.
THEOREM TypeCorrect == Spec => []TypeOK
  BY TypeInit, TypeStep, PTL DEF Spec

-----------------------------------------------------------------------------
(* Descriptors *)

LEMMA DescriptorsInit == Init => DescriptorsOwned
  BY NoFdIsNoDescriptor
     DEF Init, DescriptorsOwned, Owned, HoldsItsOwn, HoldsWhatItNeeds, AtBarrierSend

LEMMA KindsDiffer ==
  ASSUME NEW p, NEW q
  PROVE  /\ Socket # ReadEnd(p) /\ Socket # WriteEnd(p) /\ Socket # Free
         /\ ReadEnd(p) # WriteEnd(q) /\ ReadEnd(p) # Free /\ WriteEnd(p) # Free
  BY DEF Socket, ReadEnd, WriteEnd, Free, File

\* A step that opens and closes nothing and moves no call past a close.
LEMMA DescriptorsKept ==
  ASSUME DescriptorsOwned,
         UNCHANGED <<fdtab, sock, rfd, wfd>>,
         \A c \in Callers : pipe'[c] = pipe[c] \/ (rfd[c] = NoFd /\ wfd[c] = NoFd),
         \A c \in Callers : HoldsWhatItNeeds(c)'
  PROVE  DescriptorsOwned'
  BY DEF DescriptorsOwned, Owned, HoldsItsOwn

LEMMA OwnedIsOpen ==
  ASSUME TypeOK, DescriptorsOwned, NEW c \in Callers
  PROVE  /\ Owned(c) \subseteq Fds
         /\ \A f \in Owned(c) : fdtab[f] # Free
<1>1. Owned(c) \subseteq Fds
  BY DEF TypeOK, Owned
<1>2. HoldsItsOwn(c)
  BY DEF DescriptorsOwned
<1> QED
  BY <1>1, <1>2, KindsDiffer DEF Owned, HoldsItsOwn

\* A caller takes free descriptors and keeps each of them.
LEMMA DescriptorsOpened ==
  ASSUME TypeOK, DescriptorsOwned,
         NEW c \in Callers, NEW S \in SUBSET FreeFds,
         \A f \in Fds \ S : fdtab'[f] = fdtab[f],
         Owned(c)' = Owned(c) \cup S,
         \A d \in Callers \ {c} : /\ sock'[d] = sock[d] /\ rfd'[d] = rfd[d]
                                  /\ wfd'[d] = wfd[d] /\ pipe'[d] = pipe[d],
         HoldsItsOwn(c)',
         \A d \in Callers : HoldsWhatItNeeds(d)'
  PROVE  DescriptorsOwned'
<1>1. \A d \in Callers \ {c} : Owned(d)' = Owned(d)
  BY DEF Owned
<1>2. \A d \in Callers : Owned(d) \cap S = {} /\ Owned(d) \subseteq Fds
  BY OwnedIsOpen DEF FreeFds
<1>3. ASSUME NEW f \in Fds, fdtab'[f] # Free PROVE \E d \in Callers : f \in Owned(d)'
  <2>1. CASE f \in S
    BY <2>1
  <2>2. CASE f \notin S
    <3>1. PICK d \in Callers : f \in Owned(d)
      BY <1>3, <2>2 DEF DescriptorsOwned
    <3> QED
      BY <1>1, <3>1
  <2> QED
    BY <2>1, <2>2
<1>4. \A d, e \in Callers : d # e => Owned(d)' \cap Owned(e)' = {}
  BY <1>1, <1>2 DEF DescriptorsOwned
<1>5. ASSUME NEW d \in Callers PROVE HoldsItsOwn(d)'
  <2>1. CASE d = c
    BY <2>1
  <2>2. CASE d # c
    <3>1. HoldsItsOwn(d)
      BY DEF DescriptorsOwned
    <3>2. \A f \in Owned(d) : fdtab'[f] = fdtab[f]
      BY <1>2
    <3> QED
      BY <2>2, <3>1, <3>2 DEF HoldsItsOwn, Owned
  <2> QED
    BY <2>1, <2>2
<1> QED
  BY <1>3, <1>4, <1>5 DEF DescriptorsOwned

\* A caller closes one descriptor and forgets its number.
LEMMA DescriptorsClosed ==
  ASSUME TypeOK, DescriptorsOwned,
         NEW c \in Callers, NEW f \in Owned(c),
         CloseFd(f),
         Owned(c)' = Owned(c) \ {f},
         \A d \in Callers : /\ sock'[d] \in {sock[d], NoFd}
                            /\ rfd'[d] \in {rfd[d], NoFd}
                            /\ wfd'[d] \in {wfd[d], NoFd},
         \A d \in Callers \ {c} : Owned(d)' = Owned(d),
         \A d \in Callers : pipe'[d] = pipe[d] \/ (rfd'[d] = NoFd /\ wfd'[d] = NoFd),
         \A d \in Callers : HoldsWhatItNeeds(d)'
  PROVE  DescriptorsOwned'
<1>1. f \in Fds /\ \A g \in Fds \ {f} : fdtab'[g] = fdtab[g]
  BY OwnedIsOpen DEF CloseFd, TypeOK
<1>2. fdtab'[f] = Free
  BY <1>1 DEF CloseFd, TypeOK
<1>3. \A d \in Callers : f \notin Owned(d)' /\ Owned(d) \subseteq Fds
  BY OwnedIsOpen DEF DescriptorsOwned
<1>4. ASSUME NEW g \in Fds, fdtab'[g] # Free PROVE \E d \in Callers : g \in Owned(d)'
  <2>1. g # f
    BY <1>2, <1>4
  <2>2. PICK d \in Callers : g \in Owned(d)
    BY <1>1, <1>4, <2>1 DEF DescriptorsOwned
  <2> QED
    BY <2>1, <2>2
<1>5. \A d, e \in Callers : d # e => Owned(d)' \cap Owned(e)' = {}
  BY DEF DescriptorsOwned
<1>6. ASSUME NEW d \in Callers PROVE HoldsItsOwn(d)'
  <2>1. HoldsItsOwn(d)
    BY DEF DescriptorsOwned
  <2>2. \A g \in Owned(d)' : g \in Owned(d) /\ fdtab'[g] = fdtab[g]
    BY <1>1, <1>3
  <2> QED
    BY <2>1, <2>2 DEF HoldsItsOwn, Owned
<1> QED
  BY <1>4, <1>5, <1>6 DEF DescriptorsOwned

LEMMA DescriptorsStep ==
  ASSUME TypeOK, DescriptorsOwned, [Next]_vars PROVE DescriptorsOwned'
<1> USE NoFdIsNoDescriptor DEF channel, caller
<1> DEFINE D == DescriptorsOwned'
<1> DEFINE Needs == \A c \in Callers : HoldsWhatItNeeds(c)
<1> DEFINE Fixed ==
      /\ UNCHANGED <<fdtab, sock, rfd, wfd>>
      /\ \A c \in Callers : pipe'[c] = pipe[c] \/ (rfd[c] = NoFd /\ wfd[c] = NoFd)
<1>0. Needs
  BY DEF DescriptorsOwned
<1>1. ASSUME NEW c \in Callers, Construct(c) PROVE D
  <2>1. Fixed /\ Needs'
    BY <1>0, <1>1 DEF Construct, HoldsWhatItNeeds, AtBarrierSend
  <2> QED
    BY <2>1, DescriptorsKept
<1>2. ASSUME NEW c \in Callers, CallUnavailable(c) PROVE D
  <2>1. Fixed /\ Needs'
    BY <1>0, <1>2 DEF CallUnavailable, Return, AfterCall, Goto, TypeOK, HoldsWhatItNeeds, AtBarrierSend
  <2> QED
    BY <2>1, DescriptorsKept
<1>3. ASSUME NEW c \in Callers, StartNotify(c) PROVE D
  <2>1. Fixed /\ Needs'
    BY <1>0, <1>3 DEF StartNotify, AtSendRaw, Goto, TypeOK, HoldsWhatItNeeds, AtBarrierSend
  <2> QED
    BY <2>1, DescriptorsKept
<1>5. ASSUME NEW c \in Callers, BarrierWithoutPipe(c) PROVE D
  <2>1. Fixed /\ Needs'
    BY <1>0, <1>5 DEF BarrierWithoutPipe, Return, AfterCall, Goto, TypeOK, HoldsWhatItNeeds, AtBarrierSend
  <2> QED
    BY <2>1, DescriptorsKept
<1>7. ASSUME NEW c \in Callers, SocketFails(c) \/ SendFails(c) PROVE D
  <2>0. UNCHANGED <<fdtab, sock, rfd, wfd>> /\ pc[c] \in {"socket", "send"}
    BY <1>7 DEF SocketFails, SendFails
  <2>2. \/ /\ op[c] = "notify" /\ op' = [op EXCEPT ![c] = "none"]
           /\ pc' = [pc EXCEPT ![c] = AfterCall(c)] /\ pipe' = [pipe EXCEPT ![c] = 0]
        \/ /\ op[c] = "barrier" /\ op' = op
           /\ pc' = [pc EXCEPT ![c] = "undo_read"] /\ pipe' = pipe
    BY <1>7 DEF SocketFails, SendFails, SendRawRaises, Return, Goto
  <2>1. Fixed
    BY <1>0, <2>0, <2>2 DEF TypeOK, HoldsWhatItNeeds, AtBarrierSend
  <2>3. ASSUME NEW d \in Callers PROVE HoldsWhatItNeeds(d)'
    <3>1. CASE d = c
      BY <1>0, <2>0, <2>2, <3>1 DEF AfterCall, TypeOK, HoldsWhatItNeeds, AtBarrierSend
    <3>2. CASE d # c
      BY <1>0, <2>0, <2>2, <3>2 DEF TypeOK, HoldsWhatItNeeds, AtBarrierSend
    <3> QED
      BY <3>1, <3>2
  <2> QED
    BY <2>1, <2>3, DescriptorsKept
<1>8. ASSUME NEW c \in Callers, SendNotify(c) PROVE D
  <2>1. Fixed /\ Needs'
    BY <1>0, <1>8 DEF SendNotify, Return, AfterCall, Goto, TypeOK, HoldsWhatItNeeds, AtBarrierSend
  <2> QED
    BY <2>1, DescriptorsKept
<1>9. ASSUME NEW c \in Callers, SendBarrier(c) PROVE D
  <2>1. Fixed /\ Needs'
    BY <1>0, <1>9 DEF SendBarrier, Goto, TypeOK, HoldsWhatItNeeds, AtBarrierSend
  <2> QED
    BY <2>1, DescriptorsKept
<1>10. ASSUME NEW c \in Callers, Finish(c) \/ TimeOut(c) \/ FinishAgain(c) PROVE D
  <2>1. Fixed /\ op' = op
    BY <1>10 DEF Finish, TimeOut, FinishAgain, Answer
  <2>2. \/ pc[c] = "begun" /\ pc' = [pc EXCEPT ![c] = "answered"]
        \/ pc[c] = "answered" /\ pc' = [pc EXCEPT ![c] = "begun"]
    BY <1>10 DEF Finish, TimeOut, FinishAgain, Answer, Goto
  <2>3. ASSUME NEW d \in Callers PROVE HoldsWhatItNeeds(d)'
    <3>1. CASE d = c
      BY <1>0, <2>1, <2>2, <3>1 DEF TypeOK, HoldsWhatItNeeds, AtBarrierSend
    <3>2. CASE d # c
      BY <1>0, <2>1, <2>2, <3>2 DEF TypeOK, HoldsWhatItNeeds, AtBarrierSend
    <3> QED
      BY <3>1, <3>2
  <2> QED
    BY <2>1, <2>3, DescriptorsKept
<1>11. CASE \/ UnsetNotifyEnvironment \/ Receive \/ ListenerClose
            \/ UNCHANGED vars \/ \E p \in held : CloseFds(p)
  <2>1. Fixed /\ Needs'
    BY <1>0, <1>11 DEF UnsetNotifyEnvironment, Receive, ListenerClose, CloseFds, vars, HoldsWhatItNeeds, AtBarrierSend
  <2> QED
    BY <2>1, DescriptorsKept
<1>20. ASSUME NEW c \in Callers, OpenSocket(c) PROVE D
  <2>1. PICK f \in FreeFds : /\ fdtab' = [fdtab EXCEPT ![f] = Socket]
                             /\ sock' = [sock EXCEPT ![c] = f]
    BY <1>20 DEF OpenSocket, Lowest
  <2>2. f \in Fds /\ f # NoFd
    BY DEF FreeFds
  <2>3. /\ sock[c] = NoFd
        /\ sock'[c] = f
        /\ rfd' = rfd /\ wfd' = wfd /\ pipe' = pipe
        /\ \A d \in Callers \ {c} : sock'[d] = sock[d]
    BY <1>0, <1>20, <2>1 DEF OpenSocket, HoldsWhatItNeeds, TypeOK
  <2>4. Owned(c)' = Owned(c) \cup {f}
    BY <2>2, <2>3 DEF Owned
  <2>5. /\ fdtab'[f] = Socket
        /\ \A g \in Fds \ {f} : fdtab'[g] = fdtab[g]
    BY <2>1, <2>2 DEF TypeOK
  <2>6. HoldsItsOwn(c)'
    <3>1. \A g \in Owned(c) : fdtab'[g] = fdtab[g]
      BY <2>5, OwnedIsOpen DEF FreeFds
    <3> QED
      BY <2>3, <2>5, <3>1 DEF HoldsItsOwn, DescriptorsOwned, Owned
  <2>7. Needs'
    BY <1>0, <1>20, <2>2, <2>3 DEF OpenSocket, Goto, HoldsWhatItNeeds, AtBarrierSend, TypeOK
  <2>8. {f} \in SUBSET FreeFds
    OBVIOUS
  <2>9. \A d \in Callers \ {c} : /\ sock'[d] = sock[d] /\ rfd'[d] = rfd[d]
                                 /\ wfd'[d] = wfd[d] /\ pipe'[d] = pipe[d]
    BY <2>3
  <2> QED
    BY <2>4, <2>5, <2>6, <2>7, <2>8, <2>9, DescriptorsOpened
<1>21. ASSUME NEW c \in Callers, StartBarrier(c) PROVE D
  <2>1. PICK r, w \in FreeFds :
          /\ r # w
          /\ fdtab' = [fdtab EXCEPT ![r] = ReadEnd(nops + 1), ![w] = WriteEnd(nops + 1)]
          /\ rfd' = [rfd EXCEPT ![c] = r]
          /\ wfd' = [wfd EXCEPT ![c] = w]
    BY <1>21 DEF StartBarrier, PipeGives, Lowest
  <2>2. r \in Fds /\ r # NoFd /\ w \in Fds /\ w # NoFd
    BY DEF FreeFds
  <2>3. rfd[c] = NoFd /\ wfd[c] = NoFd
    BY <1>0, <1>21 DEF StartBarrier, HoldsWhatItNeeds, AtBarrierSend
  <2>4. /\ sock' = sock
        /\ rfd'[c] = r /\ wfd'[c] = w /\ pipe'[c] = nops + 1
        /\ \A d \in Callers \ {c} : rfd'[d] = rfd[d] /\ wfd'[d] = wfd[d] /\ pipe'[d] = pipe[d]
    BY <1>21, <2>1 DEF StartBarrier, TypeOK
  <2>5. Owned(c)' = Owned(c) \cup {r, w}
    BY <2>2, <2>3, <2>4 DEF Owned
  <2>6. /\ fdtab'[r] = ReadEnd(nops + 1) /\ fdtab'[w] = WriteEnd(nops + 1)
        /\ \A g \in Fds \ {r, w} : fdtab'[g] = fdtab[g]
    BY <2>1, <2>2 DEF TypeOK
  <2>7. HoldsItsOwn(c)'
    <3>1. \A g \in Owned(c) : fdtab'[g] = fdtab[g]
      BY <2>6, OwnedIsOpen DEF FreeFds
    <3> QED
      BY <2>4, <2>6, <3>1 DEF HoldsItsOwn, DescriptorsOwned, Owned
  <2>8. Needs'
    BY <1>0, <1>21, <2>2, <2>4
       DEF StartBarrier, AtSendRaw, Goto, HoldsWhatItNeeds, AtBarrierSend, TypeOK
  <2>9. {r, w} \in SUBSET FreeFds
    OBVIOUS
  <2>10. \A d \in Callers \ {c} : /\ sock'[d] = sock[d] /\ rfd'[d] = rfd[d]
                                  /\ wfd'[d] = wfd[d] /\ pipe'[d] = pipe[d]
    BY <2>4
  <2> QED
    BY <2>5, <2>6, <2>7, <2>8, <2>9, <2>10, DescriptorsOpened
<1>22. ASSUME NEW c \in Callers, UndoRead(c) \/ CloseRead(c) PROVE D
  <2>1. /\ rfd[c] # NoFd
        /\ CloseFd(rfd[c])
        /\ rfd' = [rfd EXCEPT ![c] = NoFd]
        /\ sock' = sock /\ wfd' = wfd
        /\ pipe' = pipe \/ (pipe' = [pipe EXCEPT ![c] = 0] /\ wfd[c] = NoFd)
    BY <1>0, <1>22 DEF UndoRead, CloseRead, Return, HoldsWhatItNeeds, AtBarrierSend
  <2>2. rfd[c] # sock[c] /\ rfd[c] # wfd[c]
    BY <2>1, KindsDiffer DEF DescriptorsOwned, HoldsItsOwn
  <2>3. rfd'[c] = NoFd /\ \A d \in Callers \ {c} : rfd'[d] = rfd[d]
    BY <2>1 DEF TypeOK
  <2>4. rfd[c] \in Owned(c) /\ Owned(c)' = Owned(c) \ {rfd[c]}
    BY <2>1, <2>2, <2>3 DEF Owned
  <2>5. \A d \in Callers \ {c} : Owned(d)' = Owned(d)
    BY <2>1, <2>3 DEF Owned
  <2>6. Needs'
    BY <1>0, <1>22, <2>1, <2>3
       DEF UndoRead, CloseRead, Return, AfterCall, Goto, HoldsWhatItNeeds, AtBarrierSend, TypeOK
  <2>7. \A d \in Callers : pipe'[d] = pipe[d] \/ (rfd'[d] = NoFd /\ wfd'[d] = NoFd)
    BY <2>1, <2>3 DEF TypeOK
  <2> QED
    BY <2>1, <2>3, <2>7, <2>4, <2>5, <2>6, DescriptorsClosed
<1>23. ASSUME NEW c \in Callers, DropWrite(c) \/ UndoWrite(c) PROVE D
  <2>1. /\ wfd[c] # NoFd
        /\ CloseFd(wfd[c])
        /\ wfd' = [wfd EXCEPT ![c] = NoFd]
        /\ sock' = sock /\ rfd' = rfd
        /\ pipe' = pipe \/ (pipe' = [pipe EXCEPT ![c] = 0] /\ rfd[c] = NoFd)
    BY <1>0, <1>23 DEF DropWrite, UndoWrite, Return, HoldsWhatItNeeds, AtBarrierSend
  <2>2. wfd[c] # sock[c] /\ wfd[c] # rfd[c]
    BY <2>1, KindsDiffer DEF DescriptorsOwned, HoldsItsOwn
  <2>3. wfd'[c] = NoFd /\ \A d \in Callers \ {c} : wfd'[d] = wfd[d]
    BY <2>1 DEF TypeOK
  <2>4. wfd[c] \in Owned(c) /\ Owned(c)' = Owned(c) \ {wfd[c]}
    BY <2>1, <2>2, <2>3 DEF Owned
  <2>5. \A d \in Callers \ {c} : Owned(d)' = Owned(d)
    BY <2>1, <2>3 DEF Owned
  <2>6. Needs'
    BY <1>0, <1>23, <2>1, <2>3
       DEF DropWrite, UndoWrite, Return, AfterCall, Goto, HoldsWhatItNeeds, AtBarrierSend, TypeOK
  <2>7. \A d \in Callers : pipe'[d] = pipe[d] \/ (rfd'[d] = NoFd /\ wfd'[d] = NoFd)
    BY <2>1, <2>3 DEF TypeOK
  <2> QED
    BY <2>1, <2>3, <2>7, <2>4, <2>5, <2>6, DescriptorsClosed
<1>24. ASSUME NEW c \in Callers, Close(c) \/ (Exit(c) /\ sock[c] # NoFd) PROVE D
  <2>1. /\ sock[c] # NoFd
        /\ CloseFd(sock[c])
        /\ sock' = [sock EXCEPT ![c] = NoFd]
        /\ rfd' = rfd /\ wfd' = wfd /\ pipe' = pipe
    BY <1>24 DEF Close, Exit, CloseSocket
  <2>2. sock[c] # rfd[c] /\ sock[c] # wfd[c]
    BY <2>1, KindsDiffer DEF DescriptorsOwned, HoldsItsOwn
  <2>3. sock'[c] = NoFd /\ \A d \in Callers \ {c} : sock'[d] = sock[d]
    BY <2>1 DEF TypeOK
  <2>4. sock[c] \in Owned(c) /\ Owned(c)' = Owned(c) \ {sock[c]}
    BY <2>1, <2>2, <2>3 DEF Owned
  <2>5. \A d \in Callers \ {c} : Owned(d)' = Owned(d)
    BY <2>1, <2>3 DEF Owned
  <2>6. Needs'
    BY <1>0, <1>24, <2>1, <2>3 DEF Close, Exit, Goto, HoldsWhatItNeeds, AtBarrierSend, TypeOK
  <2> QED
    BY <2>1, <2>3, <2>4, <2>5, <2>6, DescriptorsClosed
<1>25. ASSUME NEW c \in Callers, Exit(c) /\ sock[c] = NoFd PROVE D
  <2>1. Fixed /\ Needs'
    BY <1>0, <1>25 DEF Exit, CloseSocket, Goto, TypeOK, HoldsWhatItNeeds, AtBarrierSend
  <2> QED
    BY <2>1, DescriptorsKept
<1> HIDE DEF D
<1> QED
  BY <1>1, <1>2, <1>3, <1>5, <1>7, <1>8, <1>9, <1>10, <1>11, <1>20, <1>21, <1>22, <1>23, <1>24, <1>25
     DEF Next, CallerStep, Send, SendRefused, SendErrs, D

\* In every behaviour, whatever fails and whoever interleaves, each open
\* descriptor of the service has exactly one owner, of the right kind, and a
\* call that has returned holds none: no leak and no double close.
THEOREM DescriptorsAlwaysOwned == Spec => []DescriptorsOwned
<1>1. Init => TypeOK /\ DescriptorsOwned
  BY TypeInit, DescriptorsInit
<1>2. TypeOK /\ DescriptorsOwned /\ [Next]_vars => (TypeOK /\ DescriptorsOwned)'
  BY TypeStep, DescriptorsStep
<1> QED
  BY <1>1, <1>2, PTL DEF Spec

\* Between the calls of a module level function its socket is closed.
SocketForTheCall ==
  \A c \in ModuleCallers : sock[c] # NoFd => pc[c] # "idle"

LEMMA SocketInit == Init => SocketForTheCall
  BY NotifierAssumption DEF Init, SocketForTheCall

LEMMA SocketStep ==
  ASSUME TypeOK, DescriptorsOwned, SocketForTheCall, [Next]_vars PROVE SocketForTheCall'
<1> SUFFICES ASSUME NEW c \in ModuleCallers, sock'[c] # NoFd, pc'[c] = "idle" PROVE FALSE
  BY DEF SocketForTheCall
<1> USE DEF channel, caller
<1>0. c \in Callers /\ AfterCall(c) = "exit" /\ (pc[c] = "idle" => sock[c] = NoFd)
  BY NotifierAssumption DEF AfterCall, SocketForTheCall
<1>1. ASSUME NEW d \in Callers, Return(d), sock' = sock PROVE FALSE
  BY <1>0, <1>1 DEF Return, Goto, TypeOK
<1>2. ASSUME NEW d \in Callers, NEW label, Goto(d, label), label # "idle", d # c => sock'[c] = sock[c]
      PROVE  FALSE
  BY <1>0, <1>2 DEF Goto, TypeOK
<1>3. ASSUME pc' = pc, sock' = sock PROVE FALSE
  BY <1>0, <1>3
<1> HIDE DEF channel, caller
<1>4. ASSUME NEW d \in Callers,
             \/ CallUnavailable(d) \/ BarrierWithoutPipe(d) \/ SendNotify(d)
             \/ UndoWrite(d) \/ CloseRead(d)
      PROVE  FALSE
  BY <1>1, <1>4 DEF CallUnavailable, BarrierWithoutPipe, SendNotify, UndoWrite, CloseRead
<1>5. ASSUME NEW d \in Callers, SocketFails(d) \/ SendRefused(d) \/ SendErrs(d) PROVE FALSE
  BY <1>1, <1>2, <1>5 DEF SocketFails, SendRefused, SendErrs, SendFails, SendRawRaises
<1>6. ASSUME NEW d \in Callers, OpenSocket(d) PROVE FALSE
  <2>1. Goto(d, "send") /\ \E f \in Fds : sock' = [sock EXCEPT ![d] = f]
    BY <1>6 DEF OpenSocket
  <2>2. d # c => sock'[c] = sock[c]
    BY <2>1 DEF TypeOK
  <2> QED
    BY <1>2, <2>1, <2>2
<1>7. ASSUME NEW d \in Callers,
             StartNotify(d) \/ StartBarrier(d) \/ SendBarrier(d) \/ UndoRead(d) \/ DropWrite(d)
      PROVE  FALSE
  BY <1>2, <1>7 DEF StartNotify, StartBarrier, AtSendRaw, SendBarrier, UndoRead, DropWrite
<1>8. ASSUME NEW d \in Callers, Finish(d) \/ TimeOut(d) \/ FinishAgain(d) PROVE FALSE
  BY <1>2, <1>8 DEF Finish, TimeOut, Answer, FinishAgain
<1>9. ASSUME NEW d \in Callers, Construct(d) PROVE FALSE
  BY <1>3, <1>9 DEF Construct
<1>10. ASSUME NEW d \in Callers, Close(d) PROVE FALSE
  BY <1>0, <1>10 DEF Close, CloseSocket, TypeOK, caller
<1>11. ASSUME NEW d \in Callers, Exit(d) PROVE FALSE
  BY <1>0, <1>11 DEF Exit, CloseSocket, Goto, TypeOK
<1>12. CASE \/ UnsetNotifyEnvironment \/ Receive \/ (\E p \in held : CloseFds(p))
            \/ ListenerClose \/ UNCHANGED vars
  BY <1>3, <1>12 DEF UnsetNotifyEnvironment, Receive, CloseFds, ListenerClose, vars, caller
<1> QED
  BY <1>4, <1>5, <1>6, <1>7, <1>8, <1>9, <1>10, <1>11, <1>12 DEF Next, CallerStep, Send

\* Whatever fails in it, a module level function takes its socket and both ends of
\* its pipe with it: what is open while no call runs is the socket of a Notifier
\* that its owner keeps.
THEOREM CallsLeaveNothing == Spec => []NothingOutlivesItsCall
<1> DEFINE I == TypeOK /\ DescriptorsOwned /\ SocketForTheCall
<1>1. Init => I
  BY TypeInit, DescriptorsInit, SocketInit
<1>2. I /\ [Next]_vars => I'
  BY TypeStep, DescriptorsStep, SocketStep
<1>3. I => NothingOutlivesItsCall
  <2> SUFFICES ASSUME I, NEW f \in Fds, fdtab[f] # Free
               PROVE  \E c \in Callers : /\ f \in Owned(c)
                                         /\ pc[c] # "idle" \/ (f = sock[c] /\ c \notin ModuleCallers)
    BY DEF NothingOutlivesItsCall
  <2>1. PICK c \in Callers : f \in Owned(c)
    BY DEF DescriptorsOwned
  <2>2. CASE pc[c] = "idle"
    <3>1. rfd[c] = NoFd /\ wfd[c] = NoFd
      BY <2>2 DEF DescriptorsOwned, HoldsWhatItNeeds, AtBarrierSend
    <3>2. f = sock[c] /\ f # NoFd
      BY <2>1, <3>1 DEF Owned
    <3> QED
      BY <2>1, <2>2, <3>2 DEF SocketForTheCall
  <2> QED
    BY <2>1, <2>2
<1> QED
  BY <1>1, <1>2, <1>3, PTL DEF Spec

-----------------------------------------------------------------------------
(* Barriers *)

Ordered == QueueInOrder /\ BarrierMeansProcessed

LEMMA OrderedInit == Init => Ordered
  BY DEF Init, Ordered, QueueInOrder, BarrierMeansProcessed, Acknowledged, Sent

\* What a step must leave alone in a barrier that was sent
SameBarrier(c) ==
  Sent(c)' => /\ Sent(c)
              /\ pipe'[c] = pipe[c]
              /\ mark'[c] = mark[c]
              /\ (Acknowledged(c)' => Acknowledged(c))

LEMMA OrderKept ==
  ASSUME Ordered, UNCHANGED <<queue, listener, nsent, done>>,
         \A c \in Callers : SameBarrier(c)
  PROVE  Ordered'
<1>1. ASSUME NEW c \in Callers, Sent(c)'
      PROVE  /\ Sent(c)
             /\ Processed(c) => Processed(c)'
             /\ BarrierInFlight(c) => BarrierInFlight(c)'
  BY <1>1 DEF SameBarrier, Processed, BarrierInFlight
<1>2. QueueInOrder'
  BY <1>1 DEF Ordered, QueueInOrder
<1>3. ASSUME NEW c \in Callers, Acknowledged(c)'
      PROVE  Acknowledged(c) /\ (Processed(c) => Processed(c)')
  <2>1. Sent(c)'
    BY <1>3 DEF Acknowledged, Sent
  <2> QED
    BY <1>1, <1>3, <2>1 DEF SameBarrier
<1>4. BarrierMeansProcessed'
  BY <1>3 DEF Ordered, BarrierMeansProcessed
<1> QED
  BY <1>2, <1>4 DEF Ordered

LEMMA OrderedStep ==
  ASSUME TypeOK, DescriptorsOwned, Ordered, [Next]_vars PROVE Ordered'
<1> DEFINE O == Ordered'
<1> DEFINE Fixed == UNCHANGED <<queue, listener, nsent, done>> /\ \A c \in Callers : SameBarrier(c)
<1>1. ASSUME NEW c \in Callers,
             \/ Construct(c) \/ CallUnavailable(c) \/ StartNotify(c)
             \/ BarrierWithoutPipe(c) \/ OpenSocket(c) \/ SocketFails(c) \/ SendFails(c)
             \/ Close(c) \/ Exit(c)
      PROVE  O
  <2>1. Fixed
    BY <1>1 DEF Construct, CallUnavailable, StartNotify, AtSendRaw, BarrierWithoutPipe,
         OpenSocket, SocketFails, SendFails, SendRawRaises, Close, Exit, Return, AfterCall, Goto,
         TypeOK, channel, caller, SameBarrier, Sent, Acknowledged
  <2> QED
    BY <2>1, OrderKept
<1>2. ASSUME NEW c \in Callers,
             \/ StartBarrier(c) \/ UndoRead(c) \/ DropWrite(c) \/ UndoWrite(c)
             \/ TimeOut(c) \/ FinishAgain(c) \/ CloseRead(c)
      PROVE  O
  <2>1. Fixed
    BY <1>2 DEF StartBarrier, AtSendRaw, UndoRead, DropWrite, UndoWrite, TimeOut, Answer,
         FinishAgain, CloseRead, Return, AfterCall, Goto, TypeOK, channel, caller, SameBarrier, Sent, Acknowledged
  <2> QED
    BY <2>1, OrderKept
<1>3. CASE \/ UnsetNotifyEnvironment \/ UNCHANGED vars \/ \E p \in held : CloseFds(p)
  <2>1. Fixed
    BY <1>3 DEF UnsetNotifyEnvironment, CloseFds, vars, channel, caller, SameBarrier, Sent, Acknowledged
  <2> QED
    BY <2>1, OrderKept
<1>4. CASE ListenerClose
  BY <1>4 DEF ListenerClose, Ordered, QueueInOrder, BarrierMeansProcessed
<1>5. ASSUME NEW c \in Callers, Finish(c) PROVE O
  <2>1. /\ UNCHANGED <<queue, listener, nsent, done, pipe, mark>>
        /\ \A d \in Callers : Sent(d)' => Sent(d)
        /\ \A d \in Callers \ {c} : Acknowledged(d)' => Acknowledged(d)
    BY <1>5 DEF Finish, Answer, Goto, channel, TypeOK, Sent, Acknowledged
  <2>2. QueueInOrder'
    <3>1. \A d \in Callers : /\ Processed(d) => Processed(d)'
                             /\ BarrierInFlight(d) => BarrierInFlight(d)'
      BY <2>1 DEF Processed, BarrierInFlight
    <3> QED
      BY <2>1, <3>1 DEF Ordered, QueueInOrder
  <2>3. fdtab[rfd[c]].pipe = pipe[c]
    <3>1. HoldsItsOwn(c) /\ HoldsWhatItNeeds(c)
      BY DEF DescriptorsOwned
    <3>2. rfd[c] # NoFd
      BY <1>5, <3>1 DEF Finish, HoldsWhatItNeeds
    <3> QED
      BY <3>1, <3>2 DEF HoldsItsOwn, ReadEnd, File
  <2>4. ~BarrierInFlight(c)
    BY <1>5, <2>3 DEF Finish, PollReports, WriteEndOpen, BarrierInFlight
  <2>5. listener = "up" => Processed(c)
    BY <1>5, <2>4 DEF Finish, Ordered, QueueInOrder, Sent
  <2>6. BarrierMeansProcessed'
    BY <2>1, <2>5 DEF Ordered, BarrierMeansProcessed, Processed
  <2> QED
    BY <2>2, <2>6 DEF Ordered
<1>6. ASSUME NEW c \in Callers, Send(c) PROVE O
  <2>1. PICK d : /\ queue' = Append(queue, d)
                 /\ d.id = nsent + 1
                 /\ SendBarrier(c) => d.pipe = pipe[c]
    BY <1>6 DEF Send, SendNotify, SendBarrier, NotifyDatagram, BarrierDatagram
  <2>2. /\ nsent' = nsent + 1 /\ done' = done /\ listener' = listener /\ listener = "up"
        /\ \A e \in Callers : Sent(e) => pipe'[e] = pipe[e]
        /\ SendBarrier(c) => pipe' = pipe
    BY <1>6 DEF Send, SendNotify, SendBarrier, Return, Sent, TypeOK
  <2>3. /\ Len(queue') = Len(queue) + 1
        /\ DOMAIN queue' = 1..Len(queue')
        /\ DOMAIN queue = 1..Len(queue)
        /\ queue'[Len(queue')] = d
        /\ \A i \in DOMAIN queue : i \in DOMAIN queue' /\ queue'[i] = queue[i]
        /\ \A i \in DOMAIN queue' : i \in DOMAIN queue \/ i = Len(queue')
    BY <2>1 DEF TypeOK
  <2>4. /\ nsent \in Nat /\ Len(queue) \in Nat
        /\ Len(queue) <= nsent
        /\ \A i \in DOMAIN queue : queue[i].id = nsent - Len(queue) + i
    BY <2>2 DEF Ordered, QueueInOrder, TypeOK
  <2>5. \A i \in DOMAIN queue' : queue'[i].id = nsent' - Len(queue') + i
    BY <2>1, <2>2, <2>3, <2>4
  <2>6. \A e \in Callers : Sent(e)' /\ Sent(e) => mark'[e] = mark[e]
    BY <1>6 DEF Send, SendNotify, SendBarrier, Return, Sent, TypeOK
  <2>7. ASSUME NEW e \in Callers, Sent(e)' PROVE Processed(e)' \/ BarrierInFlight(e)'
    <3>1. CASE Sent(e)
      <4>1. Processed(e) \/ BarrierInFlight(e)
        BY <2>2, <3>1 DEF Ordered, QueueInOrder
      <4> QED
        BY <2>2, <2>3, <2>6, <2>7, <3>1, <4>1 DEF Processed, BarrierInFlight
    <3>2. CASE ~Sent(e)
      <4>1. SendBarrier(c) /\ e = c
        BY <1>6, <2>7, <3>2 DEF Send, SendNotify, SendBarrier, Return, AfterCall, Goto, Sent, TypeOK
      <4>2. mark'[e] = nsent
        BY <4>1 DEF SendBarrier, TypeOK
      <4>3. Len(queue') \in DOMAIN queue'
        BY <2>3, <2>4
      <4> QED
        BY <2>1, <2>2, <2>3, <4>1, <4>2, <4>3 DEF BarrierInFlight
    <3> QED
      BY <3>1, <3>2
  <2>8. QueueInOrder'
    BY <2>2, <2>3, <2>4, <2>5, <2>7 DEF QueueInOrder, Ordered
  <2>9. \A e \in Callers : Acknowledged(e)' => Acknowledged(e) /\ Sent(e) /\ Sent(e)'
    BY <1>6 DEF Send, SendNotify, SendBarrier, Return, AfterCall, Goto, Acknowledged, Sent, TypeOK
  <2>10. BarrierMeansProcessed'
    BY <2>2, <2>6, <2>9 DEF BarrierMeansProcessed, Ordered, Processed
  <2> QED
    BY <2>8, <2>10 DEF Ordered
<1>7. CASE Receive
  <2>1. /\ UNCHANGED <<listener, nsent, pc, pipe, mark, answer>>
        /\ listener = "up" /\ queue # <<>>
        /\ queue' = Tail(queue) /\ done' = done \cup {Head(queue).id}
    BY <1>7 DEF Receive, caller
  <2>2. /\ nsent \in Nat /\ Len(queue) \in Nat \ {0}
        /\ DOMAIN queue = 1..Len(queue)
        /\ Len(queue) <= nsent
        /\ done = 1..(nsent - Len(queue))
        /\ \A i \in DOMAIN queue : queue[i].id = nsent - Len(queue) + i
    BY <2>1 DEF Ordered, QueueInOrder, TypeOK
  <2>3. /\ Len(queue') = Len(queue) - 1
        /\ DOMAIN queue' = 1..(Len(queue) - 1)
        /\ \A i \in DOMAIN queue' : queue'[i] = queue[i + 1]
        /\ Head(queue) = queue[1]
    BY <2>1 DEF TypeOK
  <2>4. Head(queue).id = nsent - Len(queue) + 1
    BY <2>2, <2>3
  <2>5. done' = 1..(nsent' - Len(queue'))
    <3> DEFINE n == nsent - Len(queue)
    <3>1. n \in Nat /\ nsent' - Len(queue') = n + 1
      BY <2>1, <2>2, <2>3
    <3>2. (1..n) \cup {n + 1} = 1..(n + 1)
      BY <3>1
    <3> QED
      BY <2>1, <2>2, <2>4, <3>1, <3>2
  <2>6. ASSUME NEW i \in DOMAIN queue' PROVE queue'[i].id = nsent' - Len(queue') + i
    <3>1. i + 1 \in DOMAIN queue /\ i \in Nat
      BY <2>2, <2>3
    <3>2. queue'[i].id = nsent - Len(queue) + (i + 1)
      BY <2>2, <2>3, <3>1
    <3> QED
      BY <2>1, <2>2, <2>3, <3>1, <3>2
  <2>7. ASSUME NEW c \in Callers, Sent(c)' PROVE Processed(c)' \/ BarrierInFlight(c)'
    <3>1. Processed(c) \/ BarrierInFlight(c)
      BY <2>1, <2>7 DEF Ordered, QueueInOrder, Sent
    <3>2. CASE Processed(c)
      BY <2>1, <3>2 DEF Processed
    <3>3. CASE BarrierInFlight(c)
      <4>1. PICK i \in DOMAIN queue : queue[i].id = mark[c] + 1 /\ queue[i].pipe = pipe[c]
        BY <3>3 DEF BarrierInFlight
      <4>2. CASE i = 1
        <5>1. mark[c] \in Nat /\ mark[c] + 1 = nsent - Len(queue) + 1
          BY <2>2, <4>1, <4>2 DEF TypeOK
        <5> QED
          BY <2>1, <2>2, <5>1 DEF Processed
      <4>3. CASE i # 1
        <5>1. i - 1 \in DOMAIN queue' /\ queue'[i - 1] = queue[i]
          BY <2>2, <2>3, <4>1, <4>3
        <5> QED
          BY <2>1, <4>1, <5>1 DEF BarrierInFlight
      <4> QED
        BY <4>2, <4>3
    <3> QED
      BY <3>1, <3>2, <3>3
  <2>8. QueueInOrder'
    BY <2>1, <2>2, <2>3, <2>5, <2>6, <2>7 DEF QueueInOrder
  <2>9. BarrierMeansProcessed'
    BY <2>1 DEF BarrierMeansProcessed, Ordered, Acknowledged, Processed
  <2> QED
    BY <2>8, <2>9 DEF Ordered
<1> HIDE DEF O
<1> QED
  BY <1>1, <1>2, <1>3, <1>4, <1>5, <1>6, <1>7
     DEF Next, CallerStep, SendRefused, SendErrs, O

\* While the listener lives, a barrier that returned True vouches for every
\* notification of every caller that was sent before it: the end of file can
\* only come from closing the barrier's own datagram, which is behind them on
\* an ordered queue.
THEOREM BarrierIsTruthful == Spec => [](QueueInOrder /\ BarrierMeansProcessed)
<1> DEFINE I == TypeOK /\ DescriptorsOwned /\ Ordered
<1>1. Init => I
  BY TypeInit, DescriptorsInit, OrderedInit
<1>2. I /\ [Next]_vars => I'
  BY TypeStep, DescriptorsStep, OrderedStep
<1>3. I => QueueInOrder /\ BarrierMeansProcessed
  BY DEF Ordered
<1> QED
  BY <1>1, <1>2, <1>3, PTL DEF Spec

\* What lies on the queue is what was sent last, in the order it was sent.
THEOREM QueueStaysInOrder == Spec => []QueueInOrder
  BY BarrierIsTruthful, PTL

-----------------------------------------------------------------------------
(* What a barrier waits for *)

\* A pipe is that of one barrier, for as long as anyone knows its number.
PipesApart ==
  \A c \in Callers :
    /\ pipe[c] <= nops
    /\ rfd[c] # NoFd => pipe[c] # 0
    /\ \A d \in Callers : c # d /\ pipe[c] = pipe[d] => pipe[c] = 0

\* barrier_finish waits for nobody but the listener: as long as it is not told
\* of the end of file, the write end is in a datagram on the listener's socket or
\* with the listener, never left open in the service by a barrier that failed or
\* by another thread.
WaitsForListener ==
  \A c \in Callers :
    pc[c] = "begun" /\ ~PollReports(c) =>
      pipe[c] \in held \/ \E i \in DOMAIN queue : queue[i].pipe = pipe[c]

LEMMA PipesInit == Init => PipesApart
<1> SUFFICES ASSUME Init PROVE PipesApart
  OBVIOUS
<1>1. nops = 0 /\ \A c \in Callers : pipe[c] = 0 /\ rfd[c] = NoFd
  BY DEF Init
<1>2. 0 <= 0
  OBVIOUS
<1> QED
  BY <1>1, <1>2, Zenon DEF PipesApart

LEMMA PipesStep ==
  ASSUME TypeOK, DescriptorsOwned, PipesApart, [Next]_vars PROVE PipesApart'
<1> DEFINE Kept ==
      /\ nops' \in Nat /\ nops <= nops'
      /\ \A c \in Callers : /\ pipe'[c] \in {pipe[c], 0}
                            /\ rfd'[c] # NoFd => rfd[c] # NoFd /\ pipe'[c] = pipe[c]
<1>1. Kept => PipesApart'
  <2> SUFFICES ASSUME Kept PROVE PipesApart'
    OBVIOUS
  <2>1. nops \in Nat /\ \A c \in Callers : pipe[c] \in Nat
    BY DEF TypeOK
  <2> QED
    BY <2>1 DEF PipesApart
<1>2. ASSUME NEW c \in Callers, StartBarrier(c) PROVE PipesApart'
  <2>1. /\ pipe' = [pipe EXCEPT ![c] = nops + 1] /\ nops' = nops + 1
        /\ \E r \in Fds : rfd' = [rfd EXCEPT ![c] = r]
    BY <1>2 DEF StartBarrier
  <2>2. nops \in Nat /\ pipe \in [Callers -> Nat] /\ DOMAIN rfd = Callers
    BY DEF TypeOK
  <2>3. /\ pipe'[c] = nops + 1
        /\ \A d \in Callers : d # c => pipe'[d] = pipe[d] /\ rfd'[d] = rfd[d]
    BY <2>1, <2>2
  <2>4. \A d \in Callers : pipe[d] \in Nat /\ pipe[d] <= nops
    BY <2>2 DEF PipesApart
  <2> QED
    BY <2>1, <2>2, <2>3, <2>4 DEF PipesApart
<1>3. ASSUME NEW c \in Callers,
             \/ Construct(c) \/ CallUnavailable(c) \/ StartNotify(c) \/ BarrierWithoutPipe(c)
             \/ CallerStep(c) \/ Send(c) \/ SendErrs(c)
             \/ FinishAgain(c) \/ CloseRead(c) \/ Close(c)
      PROVE  Kept
  <2>1. nops \in Nat /\ DOMAIN rfd = Callers /\ DOMAIN pipe = Callers
    BY DEF TypeOK
  <2>2. HoldsWhatItNeeds(c)
    BY DEF DescriptorsOwned
  <2>3. CASE CallUnavailable(c) \/ BarrierWithoutPipe(c) \/ SendNotify(c)
    BY <2>1, <2>2, <2>3
       DEF CallUnavailable, BarrierWithoutPipe, SendNotify, Return, HoldsWhatItNeeds, AtBarrierSend
  <2>4. CASE SocketFails(c) \/ SendRefused(c) \/ SendErrs(c)
    BY <2>1, <2>2, <2>4 DEF SocketFails, SendRefused, SendErrs, SendFails, SendRawRaises,
       Return, HoldsWhatItNeeds, AtBarrierSend
  <2>5. CASE CloseRead(c) \/ UndoWrite(c)
    BY <2>1, <2>2, <2>5 DEF CloseRead, UndoWrite, Return, HoldsWhatItNeeds, AtBarrierSend
  <2>6. CASE \/ Construct(c) \/ StartNotify(c) \/ OpenSocket(c) \/ SendBarrier(c)
             \/ Finish(c) \/ TimeOut(c) \/ FinishAgain(c)
    BY <2>1, <2>6 DEF Construct, StartNotify, OpenSocket, SendBarrier, Finish, TimeOut,
       FinishAgain, Answer
  <2>7. CASE DropWrite(c) \/ UndoRead(c) \/ Close(c) \/ Exit(c)
    BY <2>1, <2>7 DEF DropWrite, UndoRead, Close, Exit, caller
  <2> QED
    BY <1>3, <2>3, <2>4, <2>5, <2>6, <2>7 DEF CallerStep, Send
<1>4. ASSUME \/ UnsetNotifyEnvironment \/ Receive \/ (\E p \in held : CloseFds(p))
             \/ ListenerClose \/ UNCHANGED vars
      PROVE  Kept
  <2>1. nops \in Nat
    BY DEF TypeOK
  <2> QED
    BY <1>4, <2>1 DEF UnsetNotifyEnvironment, Receive, CloseFds, ListenerClose, vars, caller
<1> HIDE DEF Kept
<1> QED
  BY <1>1, <1>2, <1>3, <1>4 DEF Next

\* Of a pipe whose call waits, no write end is open in the service.
LEMMA WriteEndGone ==
  ASSUME TypeOK, DescriptorsOwned, PipesApart,
         NEW c \in Callers, pc[c] = "begun", NEW f \in Fds
  PROVE  fdtab[f] # WriteEnd(pipe[c])
<1> SUFFICES ASSUME fdtab[f] = WriteEnd(pipe[c]) PROVE FALSE
  OBVIOUS
<1>1. PICK d \in Callers : f \in Owned(d)
  BY KindsDiffer DEF DescriptorsOwned
<1>2. HoldsItsOwn(d) /\ HoldsWhatItNeeds(c)
  BY DEF DescriptorsOwned
<1>3. f = wfd[d] /\ f # NoFd
  BY <1>1, <1>2, KindsDiffer DEF Owned, HoldsItsOwn
<1>4. pipe[d] = pipe[c]
  BY <1>2, <1>3 DEF HoldsItsOwn, WriteEnd, File
<1>5. wfd[c] = NoFd /\ rfd[c] # NoFd
  BY <1>2 DEF HoldsWhatItNeeds, AtBarrierSend
<1> QED
  BY <1>3, <1>4, <1>5 DEF PipesApart

\* The reason why a barrier returns if the listener reads its socket and
\* finishes with what it read: whatever failed before and whoever shares the
\* descriptor table, nothing else keeps barrier_finish waiting.
THEOREM BarrierWaitsForListener == Spec => []WaitsForListener
<1> DEFINE I == TypeOK /\ DescriptorsOwned /\ PipesApart
<1>1. Init => I
  BY TypeInit, DescriptorsInit, PipesInit
<1>2. I /\ [Next]_vars => I'
  BY TypeStep, DescriptorsStep, PipesStep
<1>3. I => WaitsForListener
  <2> SUFFICES ASSUME I, NEW c \in Callers, pc[c] = "begun", ~PollReports(c)
               PROVE  pipe[c] \in held \/ \E i \in DOMAIN queue : queue[i].pipe = pipe[c]
    BY DEF WaitsForListener
  <2>1. fdtab[rfd[c]] = ReadEnd(pipe[c])
    BY DEF DescriptorsOwned, HoldsItsOwn, HoldsWhatItNeeds
  <2>2. WriteEndOpen(pipe[c])
    BY <2>1 DEF PollReports, ReadEnd, File
  <2> QED
    BY <2>2, WriteEndGone DEF WriteEndOpen
<1> QED
  BY <1>1, <1>2, <1>3, PTL DEF Spec

-----------------------------------------------------------------------------
(* Refinement *)

StateMap == [c \in Callers |-> BarrierState(c)]

LEMMA PromiseInit == Init => Promise!Init
  BY DEF Init, Promise!Init, BarrierState, Acknowledged

LEMMA PromiseStutter ==
  ASSUME UNCHANGED <<nsent, done, listener, mark>>,
         \A c \in Callers : BarrierState(c)' = BarrierState(c)
  PROVE  UNCHANGED Promise!vars
  BY DEF Promise!vars

\* The mark is that of a barrier which was sent and has not come back.
MarkedWhenSent == \A c \in Callers : ~Sent(c) => mark[c] = 0

LEMMA MarkInit == Init => MarkedWhenSent
  BY DEF Init, MarkedWhenSent

LEMMA MarkStep ==
  ASSUME TypeOK, MarkedWhenSent, [Next]_vars PROVE MarkedWhenSent'
<1> DEFINE M == MarkedWhenSent'
<1> DEFINE Kept == \A c \in Callers : mark'[c] = 0 \/ (mark'[c] = mark[c] /\ (Sent(c) => Sent(c)'))
<1> USE DEF channel, caller
<1>0. Kept => M
  BY DEF MarkedWhenSent
<1>1. ASSUME NEW c \in Callers, Return(c) PROVE Kept
  BY <1>1 DEF Return, Goto, TypeOK, Sent
<1>2. ASSUME NEW c \in Callers,
             \/ SocketFails(c) \/ SendRefused(c) \/ SendErrs(c)
      PROVE  Kept
  <2>1. CASE Return(c)
    BY <1>1, <2>1
  <2>2. CASE Goto(c, "undo_read") /\ mark' = mark /\ pc[c] \in {"socket", "send"}
    BY <2>2 DEF Goto, TypeOK, Sent
  <2> QED
    BY <1>2, <2>1, <2>2 DEF SocketFails, SendRefused, SendErrs, SendFails, SendRawRaises
<1>3. ASSUME NEW c \in Callers, SendBarrier(c) PROVE M
  BY <1>3 DEF SendBarrier, Goto, TypeOK, Sent, MarkedWhenSent
<1>4. ASSUME NEW c \in Callers,
             \/ Construct(c) \/ StartNotify(c) \/ StartBarrier(c) \/ OpenSocket(c)
             \/ UndoRead(c) \/ DropWrite(c) \/ Finish(c) \/ TimeOut(c) \/ FinishAgain(c)
             \/ Close(c) \/ Exit(c)
      PROVE  Kept
  BY <1>4 DEF Construct, StartNotify, StartBarrier, AtSendRaw, OpenSocket, UndoRead, DropWrite,
     Finish, TimeOut, Answer, FinishAgain, Close, Exit, Goto, TypeOK, Sent
<1>5. ASSUME \/ UnsetNotifyEnvironment \/ Receive \/ (\E p \in held : CloseFds(p))
             \/ ListenerClose \/ UNCHANGED vars
      PROVE  Kept
  BY <1>5 DEF UnsetNotifyEnvironment, Receive, CloseFds, ListenerClose, vars, Sent
<1> HIDE DEF Kept, M
<1>6. ASSUME NEW c \in Callers,
             \/ CallUnavailable(c) \/ BarrierWithoutPipe(c) \/ SendNotify(c)
             \/ UndoWrite(c) \/ CloseRead(c)
      PROVE  Kept
  BY <1>1, <1>6 DEF CallUnavailable, BarrierWithoutPipe, SendNotify, UndoWrite, CloseRead
<1> QED
  BY <1>0, <1>2, <1>3, <1>4, <1>5, <1>6 DEF Next, CallerStep, Send, M

\* A call that comes back without a barrier in flight changes no promise.
LEMMA ReturnStutters ==
  ASSUME TypeOK, MarkedWhenSent, NEW c \in Callers, ~Sent(c),
         Return(c) \/ (Goto(c, "undo_read") /\ mark' = mark /\ answer' = answer)
  PROVE  mark' = mark /\ \A d \in Callers : BarrierState(d)' = BarrierState(d)
<1>1. mark[c] = 0
  BY DEF MarkedWhenSent
<1>2. mark' = mark
  BY <1>1 DEF Return, TypeOK
<1>3. pc'[c] \in {"idle", "exit", "undo_read"} /\ \A d \in Callers \ {c} : pc'[d] = pc[d]
  BY DEF Return, Goto, AfterCall, TypeOK
<1>4. \A d \in Callers \ {c} : answer'[d] = answer[d]
  BY DEF Return, TypeOK
<1>5. ASSUME NEW d \in Callers PROVE BarrierState(d)' = BarrierState(d)
  <2>1. CASE d = c
    BY <1>3, <2>1 DEF BarrierState, Acknowledged, Sent
  <2>2. CASE d # c
    BY <1>3, <1>4, <2>2 DEF BarrierState, Acknowledged
  <2> QED
    BY <2>1, <2>2
<1> QED
  BY <1>2, <1>5

\* A step that moves one caller's barrier from one state to another.
LEMMA PromiseMove ==
  ASSUME NEW c \in Callers, NEW to,
         UNCHANGED <<nsent, done, listener, mark>>,
         BarrierState(c)' = to,
         \A d \in Callers \ {c} : BarrierState(d)' = BarrierState(d)
  PROVE  Promise!Move(c, BarrierState(c), to)
<1>1. StateMap' = [StateMap EXCEPT ![c] = to]
  BY DEF StateMap
<1>2. StateMap[c] = BarrierState(c)
  BY DEF StateMap
<1> QED
  BY <1>1, <1>2 DEF Promise!Move, StateMap

LEMMA PromiseStep ==
  ASSUME TypeOK, DescriptorsOwned, Ordered, MarkedWhenSent, BarrierMeansProcessed', [Next]_vars
  PROVE  [Promise!Next]_(Promise!vars)
<1> DEFINE P == [Promise!Next]_(Promise!vars)
<1> DEFINE Same == UNCHANGED <<nsent, done, listener, mark>>
<1> USE DEF channel, caller
<1>1. ASSUME NEW c \in Callers,
             \/ Construct(c) \/ StartNotify(c) \/ OpenSocket(c) \/ Close(c) \/ Exit(c)
             \/ StartBarrier(c) \/ UndoRead(c) \/ DropWrite(c)
      PROVE  P
  <2>1. Same /\ \A d \in Callers : BarrierState(d)' = BarrierState(d)
    BY <1>1 DEF Construct, StartNotify, OpenSocket, Close, Exit, StartBarrier, AtSendRaw,
         UndoRead, DropWrite, Goto, TypeOK, BarrierState, Acknowledged
  <2> QED
    BY <2>1, PromiseStutter
<1>2. ASSUME NEW c \in Callers,
             \/ CallUnavailable(c) \/ BarrierWithoutPipe(c) \/ UndoWrite(c)
             \/ SocketFails(c) \/ SendFails(c)
      PROVE  P
  <2>1. UNCHANGED <<nsent, done, listener>> /\ ~Sent(c)
    BY <1>2 DEF CallUnavailable, BarrierWithoutPipe, UndoWrite, SocketFails, SendFails, Sent
  <2>2. Return(c) \/ (Goto(c, "undo_read") /\ mark' = mark /\ answer' = answer)
    BY <1>2 DEF CallUnavailable, BarrierWithoutPipe, UndoWrite, SocketFails, SendFails, SendRawRaises
  <2> QED
    BY <2>1, <2>2, ReturnStutters, PromiseStutter
<1>3. CASE \/ UnsetNotifyEnvironment \/ UNCHANGED vars \/ \E p \in held : CloseFds(p)
  <2>1. Same /\ \A d \in Callers : BarrierState(d)' = BarrierState(d)
    BY <1>3 DEF UnsetNotifyEnvironment, CloseFds, vars, BarrierState, Acknowledged
  <2> QED
    BY <2>1, PromiseStutter
<1>4. CASE ListenerClose
  <2>1. /\ UNCHANGED <<nsent, done, mark>> /\ (listener = "closed")' = TRUE
        /\ StateMap' = StateMap
    BY <1>4 DEF ListenerClose, StateMap, BarrierState, Acknowledged
  <2>2. Promise!Lose
    BY <2>1 DEF Promise!Lose, StateMap
  <2> QED
    BY <2>2 DEF Promise!Next
<1>5. ASSUME NEW c \in Callers, TimeOut(c) \/ FinishAgain(c) PROVE P
  <2>1. Same /\ \A d \in Callers \ {c} : BarrierState(d)' = BarrierState(d)
    BY <1>5 DEF TimeOut, FinishAgain, Answer, Goto, TypeOK, BarrierState, Acknowledged
  <2>2. CASE TimeOut(c)
    <3>1. BarrierState(c) = "waiting" /\ BarrierState(c)' = "timedout"
      BY <2>2 DEF TimeOut, Answer, Goto, TypeOK, BarrierState, Acknowledged
    <3> QED
      BY <2>1, <3>1, PromiseMove DEF Promise!Next, Promise!GiveUp
  <2>3. CASE FinishAgain(c)
    <3>1. BarrierState(c) = "timedout" /\ BarrierState(c)' = "waiting"
      BY <2>3 DEF FinishAgain, Goto, TypeOK, BarrierState, Acknowledged
    <3> QED
      BY <2>1, <3>1, PromiseMove DEF Promise!Next, Promise!Retry
  <2> QED
    BY <1>5, <2>2, <2>3
<1>10. ASSUME NEW c \in Callers, CloseRead(c) PROVE P
  <2>1. /\ UNCHANGED <<nsent, done, listener>> /\ mark' = [mark EXCEPT ![c] = 0]
        /\ pc[c] \in {"begun", "answered"} /\ pc' = [pc EXCEPT ![c] = AfterCall(c)]
        /\ \A d \in Callers \ {c} : answer'[d] = answer[d]
    BY <1>10 DEF CloseRead, Return, Goto, TypeOK
  <2>2. BarrierState(c) # "idle" /\ BarrierState(c)' = "idle"
    BY <2>1 DEF AfterCall, TypeOK, BarrierState, Acknowledged
  <2>3. \A d \in Callers \ {c} : BarrierState(d)' = BarrierState(d)
    BY <2>1 DEF TypeOK, BarrierState, Acknowledged
  <2>4. StateMap[c] # "idle" /\ StateMap' = [StateMap EXCEPT ![c] = "idle"]
    BY <2>2, <2>3 DEF StateMap
  <2>5. Promise!Leave(c)
    BY <2>1, <2>4 DEF Promise!Leave, StateMap
  <2> QED
    BY <2>5 DEF Promise!Next
<1>6. ASSUME NEW c \in Callers, Finish(c) PROVE P
  <2>1. Same /\ \A d \in Callers \ {c} : BarrierState(d)' = BarrierState(d)
    BY <1>6 DEF Finish, Answer, Goto, TypeOK, BarrierState, Acknowledged
  <2>2. BarrierState(c) = "waiting" /\ BarrierState(c)' = "acked" /\ Acknowledged(c)'
    BY <1>6 DEF Finish, Answer, Goto, TypeOK, BarrierState, Acknowledged
  <2>3. 1..mark[c] \subseteq done \/ listener = "closed"
    BY <2>1, <2>2 DEF BarrierMeansProcessed, Processed, TypeOK
  <2>4. Promise!Move(c, "waiting", "acked")
    BY <2>1, <2>2, PromiseMove
  <2> QED
    BY <2>3, <2>4 DEF Promise!Next, Promise!Acknowledge
<1>7. ASSUME NEW c \in Callers, SendNotify(c) PROVE P
  <2>0. Return(c) /\ ~Sent(c)
    BY <1>7 DEF SendNotify, Sent
  <2>1. nsent' = nsent + 1 /\ UNCHANGED <<done, listener, mark>>
    BY <1>7, <2>0, ReturnStutters DEF SendNotify
  <2>2. StateMap' = StateMap
    BY <2>0, ReturnStutters DEF StateMap
  <2>3. Promise!Post
    BY <2>1, <2>2 DEF Promise!Post, StateMap
  <2> QED
    BY <2>3 DEF Promise!Next
<1>8. ASSUME NEW c \in Callers, SendBarrier(c) PROVE P
  <2>1. /\ nsent' = nsent + 1 /\ UNCHANGED <<done, listener>>
        /\ mark' = [mark EXCEPT ![c] = nsent]
    BY <1>8 DEF SendBarrier
  <2>2. /\ BarrierState(c) = "idle" /\ BarrierState(c)' = "waiting"
        /\ \A d \in Callers \ {c} : BarrierState(d)' = BarrierState(d)
    BY <1>8 DEF SendBarrier, Goto, TypeOK, BarrierState, Acknowledged
  <2>3. StateMap[c] = "idle" /\ StateMap' = [StateMap EXCEPT ![c] = "waiting"]
    BY <2>2 DEF StateMap
  <2>4. Promise!Begin(c)
    BY <2>1, <2>3 DEF Promise!Begin, StateMap
  <2> QED
    BY <2>4 DEF Promise!Next
<1>9. CASE Receive
  <2>1. /\ UNCHANGED <<listener, nsent, pc, mark, answer>>
        /\ listener = "up" /\ queue # <<>>
        /\ done' = done \cup {Head(queue).id}
    BY <1>9 DEF Receive
  <2>2. /\ nsent \in Nat /\ Len(queue) \in Nat \ {0} /\ Len(queue) <= nsent
        /\ done = 1..(nsent - Len(queue))
        /\ Head(queue).id = nsent - Len(queue) + 1
    BY <2>1 DEF Ordered, QueueInOrder, TypeOK
  <2>3. /\ Head(queue).id \in 1..nsent \ done
        /\ \A j \in 1..nsent \ done : Head(queue).id <= j
    BY <2>2
  <2>4. StateMap' = StateMap
    BY <2>1 DEF StateMap, BarrierState, Acknowledged
  <2>5. Promise!Handle
    BY <2>1, <2>3, <2>4 DEF Promise!Handle, StateMap
  <2> QED
    BY <2>5 DEF Promise!Next
<1> HIDE DEF P
<1> QED
  BY <1>1, <1>2, <1>3, <1>4, <1>5, <1>6, <1>7, <1>8, <1>9, <1>10
     DEF Next, CallerStep, Send, SendRefused, SendErrs, P

\* The descriptors, the pipes and the listener's queue implement the promise
\* of BarrierPromise: every step of Notifier is one of its steps or a stutter.
THEOREM PromiseKept == Spec => KeepsPromise
<1> DEFINE I == TypeOK /\ DescriptorsOwned /\ Ordered /\ MarkedWhenSent
<1>1. Init => I /\ Promise!Init
  BY TypeInit, DescriptorsInit, OrderedInit, MarkInit, PromiseInit
<1>2. I /\ [Next]_vars => I'
  BY TypeStep, DescriptorsStep, OrderedStep, MarkStep
<1>3. I /\ I' /\ [Next]_vars => [Promise!Next]_(Promise!vars)
  BY PromiseStep DEF Ordered
<1> QED
  BY <1>1, <1>2, <1>3, PTL DEF Spec, KeepsPromise, Promise!Spec
=============================================================================
