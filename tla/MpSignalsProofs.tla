-------------------------- MODULE MpSignalsProofs --------------------------
(***************************************************************************)
(* Proofs, for every set of signals, of watchers and of signals that they  *)
(* name, that watchers used as nested with blocks keep their signals       *)
(* blocked, lose no pending signal and give back the mask the service      *)
(* started with.                                                           *)
(***************************************************************************)
EXTENDS MpSignals, TLAPS

Inv == TypeOK /\ MaskIsStacked

LEMMA NoMaskIsNone == NoMask \in MaskOrNone /\ \A m : m \subseteq Signals => m \in MaskOrNone
  BY DEF MaskOrNone

LEMMA InvInit == Init => Inv
<1> SUFFICES ASSUME Init PROVE Inv
  OBVIOUS
<1> USE SignalsAssumption DEF Init
<1>1. nest \in Seq(Watchers) /\ Len(nest) = 0 /\ DOMAIN nest = {}
  OBVIOUS
<1>2. OpenOrClosed
  BY <1>1 DEF OpenOrClosed, IsNested
<1>3. TypeOK
  <2>1. saved \in [Watchers -> MaskOrNone]
    BY NoMaskIsNone
  <2>2. mask \subseteq Signals /\ pend \subseteq Signals /\ killed \subseteq Signals
    OBVIOUS
  <2>3. fd \in [Watchers -> BOOLEAN] /\ isopen \in [Watchers -> BOOLEAN] /\ waiting \in [Watchers -> {"no", "ready", "asleep"}]
    OBVIOUS
  <2> QED
    BY <1>1, <1>2, <2>1, <2>2, <2>3 DEF TypeOK
<1>4. MaskUpTo(0) = Base
  BY DEF MaskUpTo
<1>5. MaskIsStacked
  BY <1>1, <1>4 DEF MaskIsStacked
<1> QED
  BY <1>3, <1>5 DEF Inv

\* Closing the innermost watcher leaves the others as they were.
LEMMA NestShrinks ==
  ASSUME nest \in Seq(Watchers), NEW w, NEW i \in DOMAIN nest,
         nest # <<>>, nest[Len(nest)] = w, nest[i] = w,
         \A j, k \in DOMAIN nest : nest[j] = nest[k] => j = k,
         nest' = NestWithout(i)
  PROVE  /\ nest' \in Seq(Watchers)
         /\ Len(nest') = Len(nest) - 1
         /\ DOMAIN nest' = 1..(Len(nest) - 1)
         /\ \A j \in DOMAIN nest' : nest'[j] = nest[j] /\ nest[j] # w
<1>1. Len(nest) \in Nat \ {0} /\ DOMAIN nest = 1..Len(nest)
  OBVIOUS
<1>2. i = Len(nest)
  BY <1>1
<1>3. nest' = [j \in 1..(Len(nest) - 1) |-> nest[j]]
  BY <1>1, <1>2 DEF NestWithout
<1>4. nest' \in Seq(Watchers) /\ Len(nest') = Len(nest) - 1
  BY <1>1, <1>3
<1> QED
  BY <1>1, <1>3, <1>4

\* The mask depends on the watchers that are open and on nothing else.
LEMMA MaskUpToKept ==
  ASSUME NEW n, \A j \in 1..n : nest'[j] = nest[j]
  PROVE  MaskUpTo(n)' = MaskUpTo(n)
  BY DEF MaskUpTo

LEMMA MaskUpToSame ==
  ASSUME UNCHANGED nest
  PROVE  /\ \A n : MaskUpTo(n)' = MaskUpTo(n)
         /\ \A w : IsNested(w)' <=> IsNested(w)
  BY DEF MaskUpTo, IsNested

\* What wait() and pending() do, and the clock of a sleeping task.
WaitStep(w) ==
  \/ StartWait(w) \/ CancelWait(w) \/ Pending(w)
  \/ WaitPolls(w) \/ WaitRaises(w) \/ SleepEnds(w)

LEMMA InvStep ==
  ASSUME Nested, Inv, [Next]_vars PROVE Inv'
<1> USE SignalsAssumption
<1> DEFINE I == Inv'
<1>0. /\ Len(nest) \in Nat /\ DOMAIN nest = 1..Len(nest)
      /\ \A n : MaskUpTo(n) \subseteq Signals
  BY DEF Inv, TypeOK, MaskUpTo
<1>1. ASSUME NEW s \in Signals, Kill(s) PROVE I
  BY <1>1 DEF Kill, Inv, TypeOK, OpenOrClosed, IsNested, MaskIsStacked, MaskUpTo
<1>2. ASSUME NEW w \in Watchers, OpenBlock(w) PROVE I
  <2>1. ~IsNested(w) /\ ~isopen[w] /\ at = "idle"
    BY <1>2 DEF OpenBlock, MayOpen, Inv, TypeOK, OpenOrClosed
  <2>2. mask \in SUBSET Signals /\ mask # NoMask
    BY DEF Inv, TypeOK
  <2>3. TypeOK'
    BY <1>2, <2>1, <2>2, NoMaskIsNone DEF OpenBlock, Blocked, Inv, TypeOK, OpenOrClosed, IsNested
  <2>4. MaskIsStacked'
    <3>1. /\ UNCHANGED nest /\ at' = "signalfd" /\ cur' = w
          /\ mask' = mask \cup Named[w] /\ saved' = [saved EXCEPT ![w] = mask]
      BY <1>2 DEF OpenBlock, Blocked
    <3>2. saved'[w] = mask /\ \A i \in DOMAIN nest : saved'[nest[i]] = saved[nest[i]]
      BY <2>1, <3>1, <1>0 DEF Inv, TypeOK, IsNested
    <3>3. mask = MaskUpTo(Len(nest))
      BY <2>1 DEF Inv, MaskIsStacked
    <3> QED
      BY <2>1, <3>1, <3>2, <3>3, MaskUpToSame DEF Inv, MaskIsStacked
  <2> QED
    BY <2>3, <2>4 DEF Inv
<1>3. ASSUME NEW w \in Watchers, OpenFd(w) PROVE I
  <2>1. ~IsNested(w) /\ at = "signalfd" /\ cur = w
    BY <1>3 DEF OpenFd, Inv, MaskIsStacked
  <2>2. /\ nest' = Append(nest, w)
        /\ nest' \in Seq(Watchers) /\ Len(nest') = Len(nest) + 1
        /\ DOMAIN nest' = 1..(Len(nest) + 1)
        /\ nest'[Len(nest) + 1] = w
        /\ \A j \in 1..Len(nest) : nest'[j] = nest[j] /\ nest[j] # w
    <3>1. nest' = Append(nest, w) /\ nest \in Seq(Watchers)
      BY <1>3, <2>1 DEF OpenFd, Inv, TypeOK
    <3>2. \A j \in 1..Len(nest) : nest[j] # w
      BY <1>0, <2>1 DEF IsNested
    <3> QED
      BY <3>1, <3>2
  <2>3. TypeOK'
    BY <1>3, <2>1, <2>2, <1>0 DEF OpenFd, Inv, TypeOK, OpenOrClosed, IsNested
  <2>4. ASSUME NEW n \in 0..Len(nest) PROVE MaskUpTo(n)' = MaskUpTo(n)
    <3>1. \A j \in 1..n : nest'[j] = nest[j]
      BY <2>2, <1>0
    <3> QED
      BY <3>1, MaskUpToKept
  <2>5. MaskUpTo(Len(nest))' = MaskUpTo(Len(nest)) \cup Named[w]
    <3>1. 1..(Len(nest) + 1) = (1..Len(nest)) \cup {Len(nest) + 1}
      BY <1>0
    <3>2. \A s \in Signals : (\E j \in 1..(Len(nest) + 1) : s \in Named[nest'[j]])
             <=> (\E j \in 1..Len(nest) : s \in Named[nest[j]]) \/ s \in Named[w]
      BY <2>2, <3>1
    <3>3. Named[w] \subseteq Signals
      OBVIOUS
    <3> QED
      BY <2>2, <3>2, <3>3 DEF MaskUpTo
  <2>6. MaskIsStacked'
    <3>1. UNCHANGED <<mask, saved>> /\ at' = "idle"
      BY <1>3 DEF OpenFd
    <3>2. \A i, j \in DOMAIN nest' : nest'[i] = nest'[j] => i = j
      BY <1>0, <2>2 DEF Inv, MaskIsStacked
    <3>3. ASSUME NEW i \in DOMAIN nest' PROVE saved'[nest'[i]] = MaskUpTo(i - 1)'
      <4>1. i - 1 \in 0..Len(nest) /\ (i \in DOMAIN nest \/ i = Len(nest) + 1)
        BY <1>0, <2>2
      <4>2. MaskUpTo(i - 1)' = MaskUpTo(i - 1)
        BY <2>4, <4>1
      <4> QED
        BY <1>0, <2>1, <2>2, <3>1, <4>1, <4>2 DEF Inv, MaskIsStacked
    <3>4. mask' = MaskUpTo(Len(nest))'
      BY <2>1, <2>5, <3>1 DEF Inv, MaskIsStacked
    <3> QED
      BY <3>1, <3>2, <3>3, <3>4 DEF MaskIsStacked
  <2> QED
    BY <2>3, <2>6 DEF Inv
<1>4. ASSUME NEW w \in Watchers, OpenFails(w) PROVE I
  <2>1. /\ at = "signalfd" /\ cur = w /\ ~IsNested(w) /\ ~isopen[w]
        /\ saved[w] = MaskUpTo(Len(nest))
    BY <1>4 DEF OpenFails, Inv, TypeOK, OpenOrClosed, MaskIsStacked
  <2>2. mask' = MaskUpTo(Len(nest)) /\ pend' \subseteq Signals /\ killed' \subseteq Signals
    BY <1>4, <2>1 DEF OpenFails, SetMask, Inv, TypeOK
  <2>3. TypeOK'
    <3>1. OpenOrClosed'
      BY <1>4, <2>1, MaskUpToSame DEF OpenFails, Inv, TypeOK, OpenOrClosed
    <3> QED
      BY <1>0, <1>4, <2>2, <3>1, NoMaskIsNone DEF OpenFails, Inv, TypeOK
  <2>4. MaskIsStacked'
    <3>1. UNCHANGED nest /\ at' = "idle" /\ saved' = [saved EXCEPT ![w] = NoMask]
      BY <1>4 DEF OpenFails
    <3>2. \A i \in DOMAIN nest : saved'[nest[i]] = saved[nest[i]]
      BY <2>1, <3>1, <1>0 DEF Inv, TypeOK, IsNested
    <3> QED
      BY <2>2, <3>1, <3>2, MaskUpToSame DEF Inv, MaskIsStacked
  <2> QED
    BY <2>3, <2>4 DEF Inv
<1>5. ASSUME NEW w \in Watchers, WaitStep(w) PROVE I
  <2>1. UNCHANGED <<mask, killed, fd, saved, isopen, at, cur, nest, lost>>
    BY <1>5 DEF WaitStep, StartWait, CancelWait, Pending, WaitPolls, WaitRaises, SleepEnds
  <2>2. /\ \/ waiting' = waiting
           \/ \E label \in {"no", "ready", "asleep"} : waiting' = [waiting EXCEPT ![w] = label]
        /\ pend' = pend \/ \E s \in Signals : pend' = pend \ {s}
    BY <1>5 DEF WaitStep, StartWait, CancelWait, Pending, WaitPolls, WaitRaises, SleepEnds, Takes, Readable
  <2>3. waiting' \in [Watchers -> {"no", "ready", "asleep"}] /\ pend' \subseteq Signals
    BY <2>2 DEF Inv, TypeOK
  <2> QED
    BY <2>1, <2>3, MaskUpToSame DEF Inv, TypeOK, OpenOrClosed, MaskIsStacked
<1>6. ASSUME NEW w \in Watchers, CloseFd(w) PROVE I
  <2>1. /\ UNCHANGED <<mask, pend, killed, saved, isopen, waiting, nest, lost>>
        /\ at = "idle" /\ at' = "restore" /\ cur' = w /\ fd' = [fd EXCEPT ![w] = FALSE]
        /\ nest # <<>> /\ nest[Len(nest)] = w
    BY <1>6 DEF CloseFd, MayClose
  <2>2. TypeOK'
    BY <2>1, MaskUpToSame DEF Inv, TypeOK, OpenOrClosed
  <2>3. MaskIsStacked'
    BY <2>1, MaskUpToSame DEF Inv, MaskIsStacked
  <2> QED
    BY <2>2, <2>3 DEF Inv
<1>7. ASSUME NEW w \in Watchers, CloseRestore(w) PROVE I
  <2>1. at = "restore" /\ cur = w /\ nest # <<>> /\ nest[Len(nest)] = w
    BY <1>7 DEF CloseRestore, Inv, MaskIsStacked
  <2>2. Len(nest) \in DOMAIN nest
    BY <1>0, <2>1 DEF Inv, TypeOK
  <2>3. saved[w] = MaskUpTo(Len(nest) - 1) /\ MaskAfter(w) = MaskUpTo(Len(nest) - 1)
    BY <1>0, <2>1, <2>2 DEF Inv, MaskIsStacked, MaskAfter
  <2>4. /\ nest' \in Seq(Watchers)
        /\ Len(nest') = Len(nest) - 1
        /\ DOMAIN nest' = 1..(Len(nest) - 1)
        /\ \A j \in DOMAIN nest' : nest'[j] = nest[j] /\ nest[j] # w
    <3>1. PICK i \in DOMAIN nest : nest[i] = w /\ nest' = NestWithout(i)
      BY <1>7 DEF CloseRestore
    <3> QED
      BY <2>1, <3>1, NestShrinks DEF Inv, TypeOK, MaskIsStacked
  <2>5. mask' = MaskUpTo(Len(nest) - 1) /\ pend' \subseteq Signals /\ killed' \subseteq Signals
    BY <1>7, <2>3 DEF CloseRestore, SetMask, Inv, TypeOK
  <2>6. \A v \in Watchers : IsNested(v)' <=> IsNested(v) /\ v # w
    BY <1>0, <2>1, <2>4 DEF IsNested
  <2>7. TypeOK'
    <3>1. OpenOrClosed'
      BY <1>7, <2>1, <2>6 DEF CloseRestore, Inv, TypeOK, OpenOrClosed
    <3> QED
      BY <1>0, <1>7, <2>4, <2>5, <3>1, NoMaskIsNone DEF CloseRestore, Inv, TypeOK
  <2>8. ASSUME NEW n \in 0..(Len(nest) - 1) PROVE MaskUpTo(n)' = MaskUpTo(n)
    <3>1. \A j \in 1..n : nest'[j] = nest[j]
      BY <2>4, <1>0
    <3> QED
      BY <3>1, MaskUpToKept
  <2>9. MaskIsStacked'
    BY <1>7, <1>0, <2>1, <2>2, <2>4, <2>5, <2>8 DEF CloseRestore, Inv, TypeOK, MaskIsStacked
  <2> QED
    BY <2>7, <2>9 DEF Inv
<1>8. CASE UNCHANGED vars
  BY <1>8 DEF vars, Inv, TypeOK, OpenOrClosed, IsNested, MaskIsStacked, MaskUpTo
<1> HIDE DEF I
<1> QED
  BY <1>1, <1>2, <1>3, <1>4, <1>5, <1>6, <1>7, <1>8 DEF Next, WaitStep, I

LEMMA InvAlways == ASSUME Nested PROVE Spec => []Inv
<1>1. Inv /\ [Next]_vars => Inv'
  BY InvStep
<1> QED
  BY <1>1, InvInit, PTL DEF Spec

\* With nested watchers the saved masks form a stack in every behaviour, and
\* the variables keep their types.
THEOREM MasksAreStacked == ASSUME Nested PROVE Spec => [](TypeOK /\ MaskIsStacked)
<1>1. Inv => TypeOK /\ MaskIsStacked
  BY DEF Inv
<1> QED
  BY <1>1, InvAlways, PTL

\* SignalWatcher._open, the signalfd and the saved mask never disagree.
THEOREM NestedTypeCorrect == ASSUME Nested PROVE Spec => []TypeOK
  BY MasksAreStacked, PTL

LEMMA StackedIsBlocked == Inv => WatchedStayBlocked
<1> SUFFICES ASSUME Inv, NEW w \in Watchers, Watching(w), NEW s \in Named[w] PROVE s \in mask
  BY DEF WatchedStayBlocked
<1>1. PICK i \in DOMAIN nest : nest[i] = w
  BY DEF Inv, TypeOK, OpenOrClosed, Watching, IsNested
<1>2. s \in MaskUpTo(Len(nest))
  BY <1>1, SignalsAssumption DEF Inv, TypeOK, MaskUpTo
<1> QED
  BY <1>2 DEF Inv, MaskIsStacked

\* The signals of an open watcher are blocked in every state: opening and
\* closing other watchers inside its block never unblocks them.
THEOREM NestedWatchersStayBlocked == ASSUME Nested PROVE Spec => []WatchedStayBlocked
  BY InvAlways, StackedIsBlocked, PTL

\* Once every watcher is closed the thread has the mask it started with.
THEOREM NestedMaskRestored == ASSUME Nested PROVE Spec => []MaskRestored
<1>1. Inv => MaskRestored
  <2>1. MaskUpTo(0) = Base
    BY DEF MaskUpTo
  <2> QED
    BY <2>1 DEF Inv, MaskIsStacked, MaskRestored
<1> QED
  BY <1>1, InvAlways, PTL

LEMMA DeathStep ==
  ASSUME Nested, Inv, [Next]_vars,
         NEW s \in killed' \ killed, NEW w \in Watchers, Watching(w)
  PROVE  s \notin Named[w]
<1> USE SignalsAssumption
<1>0. Named[w] \subseteq mask
  BY StackedIsBlocked DEF WatchedStayBlocked
<1>1. ASSUME NEW t \in Signals, Kill(t) PROVE s \notin Named[w]
  BY <1>0, <1>1 DEF Kill
<1>2. ASSUME NEW v \in Watchers, OpenFails(v) PROVE s \notin Named[w]
  <2>1. s \notin saved[v] /\ saved[v] = MaskUpTo(Len(nest)) /\ v # w
    BY <1>2 DEF OpenFails, SetMask, Inv, TypeOK, OpenOrClosed, MaskIsStacked, Watching
  <2>2. PICK i \in DOMAIN nest : nest[i] = w
    BY DEF Inv, TypeOK, OpenOrClosed, Watching, IsNested
  <2> QED
    BY <2>1, <2>2 DEF MaskUpTo, Inv, TypeOK
<1>3. ASSUME NEW v \in Watchers, CloseRestore(v) PROVE s \notin Named[w]
  <2>1. at = "restore" /\ cur = v /\ v # w /\ nest # <<>> /\ nest[Len(nest)] = v
    BY <1>3 DEF CloseRestore, Inv, MaskIsStacked, Watching
  <2>2. Len(nest) \in DOMAIN nest /\ DOMAIN nest = 1..Len(nest)
    BY <2>1 DEF Inv, TypeOK
  <2>3. MaskAfter(v) = MaskUpTo(Len(nest) - 1)
    <3>1. saved[v] = MaskUpTo(Len(nest) - 1)
      BY <2>1, <2>2 DEF Inv, MaskIsStacked
    <3> QED
      BY <3>1 DEF MaskAfter, Inv, TypeOK, MaskUpTo
  <2>4. s \notin MaskUpTo(Len(nest) - 1)
    BY <1>3, <2>3 DEF CloseRestore, SetMask
  <2>5. PICK i \in DOMAIN nest : nest[i] = w
    BY DEF Inv, TypeOK, OpenOrClosed, Watching, IsNested
  <2>6. i \in 1..(Len(nest) - 1)
    BY <2>1, <2>2, <2>5
  <2> QED
    BY <2>4, <2>5, <2>6 DEF MaskUpTo
<1>4. CASE UNCHANGED killed
  BY <1>4
<1>5. ASSUME NEW v \in Watchers,
             OpenBlock(v) \/ OpenFd(v) \/ WaitStep(v) \/ CloseFd(v)
      PROVE  UNCHANGED killed
  BY <1>5 DEF OpenBlock, OpenFd, CloseFd, WaitStep, StartWait, CancelWait, Pending, WaitPolls,
              WaitRaises, SleepEnds
<1>6. CASE UNCHANGED vars
  BY <1>6 DEF vars
<1> QED
  BY <1>1, <1>2, <1>3, <1>4, <1>5, <1>6 DEF Next, WaitStep

\* With nested watchers no signal that an open watcher names ever runs its
\* default action: neither when it arrives nor when another watcher closes or
\* fails to open.
THEOREM NestedNeverDies == ASSUME Nested PROVE Spec => NoDeathWhileWatched
<1> DEFINE Safe == \A s \in killed' \ killed : \A w \in Watchers : Watching(w) => s \notin Named[w]
<1>1. Inv /\ [Next]_vars => [Safe]_vars
  BY DeathStep
<1> QED
  BY <1>1, InvAlways, PTL DEF Spec, NoDeathWhileWatched

-----------------------------------------------------------------------------
(* Safety behind SignalsReported *)

\* pending(), by the service or by the task in wait()
Reads(v) == Pending(v) \/ WaitPolls(v)

\* SignalSource blocks the signals of a watcher so that it can read them.  A
\* pending signal that an open watcher names stays pending until an open watcher
\* that names it reads it: no failed open() and no close() of another watcher
\* drops it, though both put a smaller mask on the thread.
WatchedAreRead ==
  [][ \A s \in pend \ pend' : \A w \in Watchers :
        Watching(w) /\ s \in Named[w]
          => \E v \in Watchers : Watching(v) /\ s \in Named[v] /\ Reads(v) ]_vars

LEMMA RestoreKeepsWatched ==
  ASSUME Nested, Inv, Inv', NEW w \in Watchers, Watching(w), NEW v \in Watchers,
         OpenFails(v) \/ CloseRestore(v)
  PROVE  pend \cap Named[w] \subseteq pend'
<1> USE SignalsAssumption
<1>1. Watching(w)'
  <2>1. CASE OpenFails(v)
    BY <2>1 DEF OpenFails, Watching
  <2>2. CASE CloseRestore(v)
    <3>1. v # w /\ isopen'[w] = isopen[w] /\ at' = "idle"
      BY <2>2 DEF CloseRestore, Watching, Inv, TypeOK
    <3> QED
      BY <3>1 DEF Watching
  <2> QED
    BY <2>1, <2>2
<1>2. WatchedStayBlocked'
  BY StackedIsBlocked, PTL
<1>3. Named[w] \subseteq mask'
  BY <1>1, <1>2 DEF WatchedStayBlocked
<1>4. pend' = pend \cap mask'
  BY DEF OpenFails, CloseRestore, SetMask
<1> QED
  BY <1>3, <1>4

LEMMA ReadStep ==
  ASSUME Nested, Inv, Inv', [Next]_vars, NEW s \in pend \ pend',
         NEW w \in Watchers, Watching(w), s \in Named[w]
  PROVE  \E v \in Watchers : Watching(v) /\ s \in Named[v] /\ Reads(v)
<1>1. ASSUME NEW t \in Signals, Kill(t) PROVE FALSE
  BY <1>1 DEF Kill
<1>2. ASSUME NEW v \in Watchers, OpenFails(v) \/ CloseRestore(v) PROVE FALSE
  BY <1>2, RestoreKeepsWatched
<1>3. ASSUME NEW v \in Watchers, Reads(v) PROVE Watching(v) /\ s \in Named[v]
  <2>1. fd[v] /\ at = "idle" /\ s \in Readable(v)
    BY <1>3 DEF Reads, Pending, WaitPolls, Takes
  <2> QED
    BY <2>1 DEF Readable, Watching, Inv, TypeOK, OpenOrClosed
<1>4. ASSUME NEW v \in Watchers,
             \/ OpenBlock(v) \/ OpenFd(v) \/ StartWait(v) \/ CancelWait(v)
             \/ WaitRaises(v) \/ SleepEnds(v) \/ CloseFd(v)
      PROVE  FALSE
  BY <1>4 DEF OpenBlock, OpenFd, StartWait, CancelWait, WaitRaises, SleepEnds, CloseFd
<1>5. CASE UNCHANGED vars
  BY <1>5 DEF vars
<1> QED
  BY <1>1, <1>2, <1>3, <1>4, <1>5 DEF Next, Reads

\* With nested watchers a pending signal that an open watcher names is never
\* dropped: a watcher that is open on it reads it, or it stays pending.
THEOREM NestedSignalsAreRead == ASSUME Nested PROVE Spec => WatchedAreRead
<1> DEFINE Kept == \A s \in pend \ pend' : \A w \in Watchers :
                     Watching(w) /\ s \in Named[w]
                       => \E v \in Watchers : Watching(v) /\ s \in Named[v] /\ Reads(v)
<1>1. Inv /\ Inv' /\ [Next]_vars => [Kept]_vars
  BY ReadStep
<1> QED
  BY <1>1, InvAlways, PTL DEF Spec, WatchedAreRead
=============================================================================
