-------------------------- MODULE CpySignalsProofs --------------------------
(***************************************************************************)
(* Proofs about CpySignals: types, that no task sleeps on a signal, that   *)
(* signals are reported once and in order, and that no signal an open      *)
(* watcher names ends the service, for any number of signals, watchers and *)
(* tasks.                                                                  *)
(***************************************************************************)
EXTENDS CpySignals, TLAPS

-----------------------------------------------------------------------------
(* Sequences *)

LEMMA TailOf ==
  ASSUME NEW S, NEW s \in Seq(S), s # <<>>
  PROVE  /\ Tail(s) \in Seq(S) /\ Head(s) \in S /\ 1 \in DOMAIN s /\ Head(s) = s[1]
         /\ \A i \in DOMAIN Tail(s) : i + 1 \in DOMAIN s /\ Tail(s)[i] = s[i + 1] /\ i \in Nat \ {0}
  OBVIOUS

LEMMA ConcatOf ==
  ASSUME NEW S, NEW a \in Seq(S), NEW b \in Seq(S)
  PROVE  /\ DOMAIN (a \o b) = 1..(Len(a) + Len(b))
         /\ \A i \in 1..Len(a) : (a \o b)[i] = a[i]
         /\ \A i \in 1..Len(b) : (a \o b)[Len(a) + i] = b[i]
  OBVIOUS

\* r is made of items of s, in the order they have there.
Picked(r, s) ==
  /\ \A i \in DOMAIN r : \E k \in DOMAIN s : r[i] = s[k]
  /\ \A i, j \in DOMAIN r : i < j =>
       \E k, l \in DOMAIN s : k < l /\ r[i] = s[k] /\ r[j] = s[l]

LEMMA PickedSame == ASSUME NEW S, NEW s \in Seq(S) PROVE Picked(s, s)
  BY DEF Picked

LEMMA PickedTail ==
  ASSUME NEW S, NEW s \in Seq(S), s # <<>>
  PROVE  Picked(Tail(s), s)
  BY TailOf DEF Picked

LEMMA PickedWithout ==
  ASSUME NEW S, NEW s \in Seq(S), NEW places \in SUBSET DOMAIN s
  PROVE  Without(s, places) \in Seq(S) /\ Picked(Without(s, places), s)
<1>1. CASE places = {}
  BY <1>1, PickedSame DEF Without
<1>2. CASE places # {}
  <2> DEFINE k == CHOOSE i \in places : TRUE
             a == SubSeq(s, 1, k - 1)
             b == SubSeq(s, k + 1, Len(s))
             r == a \o b
  <2>1. k \in places
    BY <1>2, Zenon
  <2>2. Without(s, places) = r
    BY <1>2 DEF Without, RemoveAt
  <2> HIDE DEF k
  <2>3. k \in 1..Len(s) /\ Len(s) \in Nat
    BY <2>1
  <2>4. a \in Seq(S) /\ Len(a) = k - 1 /\ \A i \in 1..(k - 1) : a[i] = s[i]
    BY <2>3
  <2>7. b \in Seq(S) /\ Len(b) = Len(s) - k /\ \A i \in 1..(Len(s) - k) : b[i] = s[k + i]
    BY <2>3
  <2> HIDE DEF a, b
  <2>8. r \in Seq(S) /\ Len(r) = Len(s) - 1
    BY <2>3, <2>4, <2>7
  <2>9. \A i \in 1..(Len(s) - 1) : r[i] = IF i < k THEN a[i] ELSE b[i - (k - 1)]
    BY <2>3, <2>4, <2>7
  <2>10. \A i \in 1..(Len(s) - 1) : r[i] = s[IF i < k THEN i ELSE i + 1]
    <3> TAKE i \in 1..(Len(s) - 1)
    <3>1. CASE i < k
      BY <3>1, <2>3, <2>4, <2>9
    <3>2. CASE ~ i < k
      <4>1. i - (k - 1) \in 1..(Len(s) - k) /\ k + (i - (k - 1)) = i + 1
        BY <3>2, <2>3
      <4> QED
        BY <3>2, <4>1, <2>7, <2>9
    <3> QED
      BY <3>1, <3>2
  <2>5. DOMAIN r = 1..(Len(s) - 1) /\ DOMAIN s = 1..Len(s)
    BY <2>3, <2>8
  <2> HIDE DEF r
  <2> DEFINE at(i) == IF i < k THEN i ELSE i + 1
  <2>11. \A i \in 1..(Len(s) - 1) : at(i) \in 1..Len(s) /\ r[i] = s[at(i)]
    BY <2>3, <2>10
  <2>12. \A i, j \in 1..(Len(s) - 1) : i < j => at(i) < at(j)
    BY <2>3
  <2> HIDE DEF at
  <2>6. Picked(r, s)
    BY <2>5, <2>11, <2>12 DEF Picked
  <2> QED
    BY <2>2, <2>6, <2>8
<1> QED
  BY <1>1, <1>2

-----------------------------------------------------------------------------
(* Types *)

ItemType == [sig : Signals, n : Nat]

LEMMA ReadyItems ==
  /\ \A w \in Watchers \cup {None}, n \in Nat : Delivery(w, n) \in ReadyItem
  /\ \A t \in Tasks : Turn(t) \in ReadyItem
  BY DEF Delivery, Turn, ReadyItem

\* A watcher installs no handlers but for the signals it names.
InstalledAreNamed == \A w \in Watchers : installed[w] \subseteq Named[w]

LEMMA TypeInit == Init => TypeOK
  BY CpySignalsAssumption DEF Init, TypeOK, Consistent

\* pending() with a signal on the queue, whoever calls it.
LEMMA TakeType ==
  ASSUME TypeOK, NEW w \in Watchers, Take(w)
  PROVE  /\ queue' \in [Watchers -> Seq(Nat)]
         /\ flag' \in [Watchers -> BOOLEAN]
         /\ last' \in [Watchers -> Nat]
<1>1. queue[w] \in Seq(Nat) /\ queue[w] # <<>>
  BY DEF Take, TypeOK
<1>2. Tail(queue[w]) \in Seq(Nat) /\ Head(queue[w]) \in Nat
  BY <1>1, TailOf
<1>3. (flag[w] /\ Tail(queue[w]) # <<>>) \in BOOLEAN
  BY DEF TypeOK
<1> QED
  BY <1>2, <1>3 DEF Take, TypeOK

\* A task whose turn comes after it was cancelled belongs to no watcher.
LEMMA BodyOfNone ==
  ASSUME TypeOK, NEW t \in Tasks, WaitBody(t, None)
  PROVE  UNCHANGED <<source, last>> /\ task' = [task EXCEPT ![t] = None]
<1>1. None \notin Watchers
  BY CpySignalsAssumption
<1>2. CASE WaitRaises(t, None)
  BY <1>2 DEF WaitRaises
<1>3. CASE WaitReturns(t, None)
  BY <1>1, <1>3 DEF WaitReturns, Take, TypeOK, source
<1>4. CASE WaitSleeps(t, None)
  BY <1>1, <1>4 DEF WaitSleeps, TypeOK, source
<1> QED
  BY <1>2, <1>3, <1>4 DEF WaitBody

LEMMA BodyType ==
  ASSUME TypeOK, NEW t \in Tasks, NEW w \in Watchers, WaitBody(t, w)
  PROVE  /\ task' \in [Tasks -> Watchers \cup {None}]
         /\ queue' \in [Watchers -> Seq(Nat)]
         /\ flag' \in [Watchers -> BOOLEAN]
         /\ waiters' \in [Watchers -> Seq(Tasks)]
         /\ last' \in [Watchers -> Nat]
         /\ UNCHANGED <<inloop, installed, isopen>>
<1>1. CASE WaitRaises(t, w)
  BY <1>1 DEF WaitRaises, TypeOK, source
<1>2. CASE WaitReturns(t, w)
  BY <1>2, TakeType DEF WaitReturns, TypeOK
<1>3. CASE WaitSleeps(t, w)
  BY <1>3 DEF WaitSleeps, TypeOK
<1> QED
  BY <1>1, <1>2, <1>3 DEF WaitBody

LEMMA WokenType ==
  ASSUME TypeOK, NEW w \in Watchers
  PROVE  /\ SubSeq(waiters[w], Woken(w) + 1, Len(waiters[w])) = IF flag[w] THEN waiters[w] ELSE <<>>
         /\ [i \in 1..Woken(w) |-> Turn(waiters[w][i])] \in Seq(ReadyItem)
<1>1. waiters[w] \in Seq(Tasks) /\ Woken(w) \in 0..Len(waiters[w])
  BY DEF TypeOK, Woken
<1>2. \A i \in 1..Woken(w) : Turn(waiters[w][i]) \in ReadyItem
  BY <1>1, ReadyItems
<1>3. CASE flag[w]
  BY <1>1, <1>2, <1>3 DEF Woken
<1>4. CASE ~flag[w]
  BY <1>1, <1>2, <1>4 DEF Woken
<1> QED
  BY <1>3, <1>4

\* What the loop runs next is a delivery, the turn of a task, or nothing.
LEMMA NextItem ==
  ASSUME TypeOK, ready # <<>>
  PROVE  /\ Head(ready).task \in Tasks \cup {None} /\ Head(ready).of \in Watchers \cup {None}
         /\ Head(ready).n \in Nat
         /\ Tail(ready) \in Seq(ReadyItem) /\ Picked(Tail(ready), ready)
<1>1. ready \in Seq(ReadyItem)
  BY DEF TypeOK
<1>2. Head(ready) \in ReadyItem /\ Tail(ready) \in Seq(ReadyItem)
  BY <1>1, TailOf
<1> QED
  BY <1>1, <1>2, PickedTail DEF ReadyItem

LEMMA ScheduledType ==
  ASSUME TypeOK
  PROVE  /\ Scheduled \in Seq(ReadyItem) /\ Len(Scheduled) = Len(wakeup)
         /\ \A i \in DOMAIN wakeup : Scheduled[i] = Delivery(handler[wakeup[i].sig], wakeup[i].n)
<1>1. \A i \in 1..Len(wakeup) : Delivery(handler[wakeup[i].sig], wakeup[i].n) \in ReadyItem
  <2> TAKE i \in 1..Len(wakeup)
  <2>1. wakeup[i] \in ItemType
    <3>1. wakeup \in Seq(ItemType)
      BY DEF TypeOK, ItemType
    <3> QED
      BY <3>1
  <2>2. handler[wakeup[i].sig] \in Watchers \cup {None} /\ wakeup[i].n \in Nat
    BY <2>1 DEF TypeOK, ItemType
  <2> QED
    BY <2>2, ReadyItems
<1>2. DOMAIN wakeup = 1..Len(wakeup) /\ Len(wakeup) \in Nat
  BY DEF TypeOK
<1> QED
  BY <1>1, <1>2 DEF Scheduled

LEMMA TypeStep == TypeOK /\ InstalledAreNamed /\ [Next]_vars => TypeOK'
<1> SUFFICES ASSUME TypeOK, InstalledAreNamed, [Next]_vars PROVE TypeOK'
  OBVIOUS
<1> USE CpySignalsAssumption
<1>1. ASSUME NEW s \in Signals, Kill(s) PROVE TypeOK'
  <2>1. [sig |-> s, n |-> sent + 1] \in ItemType /\ wakeup \in Seq(ItemType)
    BY DEF TypeOK, ItemType
  <2>2. wakeup' \in Seq([sig : Signals, n : Nat]) /\ killed' \subseteq Signals /\ sent' \in Nat
    <3>1. CASE handler[s] = None
      BY <1>1, <2>1, <3>1 DEF Kill, TypeOK
    <3>2. CASE handler[s] # None
      <4>1. wakeup' = Append(wakeup, [sig |-> s, n |-> sent + 1]) /\ killed' = killed /\ sent' = sent + 1
        BY <1>1, <3>2 DEF Kill
      <4>2. wakeup' \in Seq(ItemType)
        BY <2>1, <4>1
      <4> QED
        BY <4>1, <4>2 DEF TypeOK, ItemType
    <3> QED
      BY <3>1, <3>2
  <2> QED
    BY <1>1, <2>2 DEF Kill, TypeOK, Consistent, source
<1>2. CASE ReadWakeup
  <2>1. ready \in Seq(ReadyItem) /\ Scheduled \in Seq(ReadyItem) /\ ready' = ready \o Scheduled
    BY <1>2, ScheduledType DEF ReadWakeup, TypeOK
  <2>2. ready' \in Seq(ReadyItem)
    BY <2>1
  <2>3. wakeup' \in Seq([sig : Signals, n : Nat])
    BY <1>2 DEF ReadWakeup
  <2> QED
    BY <1>2, <2>2, <2>3 DEF ReadWakeup, TypeOK, Consistent, source
<1>3. ASSUME NEW w \in Watchers, Open(w) PROVE TypeOK'
  <2>1. Named[w] \subseteq Signals
    OBVIOUS
  <2>2. /\ inloop' \in [Watchers -> BOOLEAN] /\ flag' \in [Watchers -> BOOLEAN]
        /\ waiters' \in [Watchers -> Seq(Tasks)] /\ isopen' \in [Watchers -> BOOLEAN]
        /\ handler' \in [Signals -> Watchers \cup {None}]
        /\ installed' \in [Watchers -> SUBSET Signals]
    BY <1>3, <2>1 DEF Open, NewEvent, Install, TypeOK
  <2>3. Consistent'
    BY <1>3, <2>1 DEF Open, NewEvent, Install, TypeOK, Consistent, InstalledAreNamed
  <2> QED
    BY <1>3, <2>2, <2>3 DEF Open, TypeOK
<1>4. ASSUME NEW w \in Watchers, OpenFails(w) PROVE TypeOK'
  <2>1. PICK S \in SUBSET Named[w] : Install(w, S)
    BY <1>4 DEF OpenFails
  <2> QED
    BY <1>4, <2>1 DEF OpenFails, NewEvent, Install, TypeOK, Consistent
<1>5. ASSUME NEW w \in Watchers, Close(w) PROVE TypeOK'
  BY <1>5 DEF Close, Removed, TypeOK, Consistent
<1>6. ASSUME NEW w \in Watchers, Pending(w) PROVE TypeOK'
  BY <1>6, TakeType DEF Pending, TypeOK, Consistent, loop
<1>7. ASSUME NEW w \in Watchers, NEW t \in Tasks, StartWait(t, w) PROVE TypeOK'
  BY <1>7, BodyType DEF StartWait, TypeOK, Consistent, loop
<1>8. CASE RunTask
  <2>2. Tail(ready) \in Seq(ReadyItem)
    BY <1>8, NextItem DEF RunTask
  <2>3. PICK t \in Tasks : WaitBody(t, task[t])
    BY <1>8, NextItem DEF RunTask
  <2>4. CASE task[t] = None
    BY <1>8, <2>2, <2>3, <2>4, BodyOfNone DEF RunTask, TypeOK, Consistent, source
  <2>5. CASE task[t] \in Watchers
    BY <1>8, <2>2, <2>3, <2>5, BodyType DEF RunTask, TypeOK, Consistent
  <2> QED
    BY <2>4, <2>5 DEF TypeOK
<1>9. CASE RunDeliver
  <2> DEFINE w == Head(ready).of
  <2>2. Tail(ready) \in Seq(ReadyItem)
    BY <1>9, NextItem DEF RunDeliver
  <2>3. w \in Watchers /\ Head(ready).n \in Nat
    BY <1>9, NextItem DEF RunDeliver
  <2>4. Enqueue(w, Head(ready).n) \in Seq(Nat)
    BY <2>3 DEF Enqueue, TypeOK
  <2> DEFINE turns == [i \in 1..Woken(w) |-> Turn(waiters[w][i])]
  <2>5. ready' \in Seq(ReadyItem)
    <3>1. ready' = Tail(ready) \o turns
      BY <1>9 DEF RunDeliver
    <3>2. turns \in Seq(ReadyItem)
      BY <2>3, WokenType
    <3> HIDE DEF turns
    <3> QED
      BY <3>1, <3>2, <2>2
  <2>6. waiters' \in [Watchers -> Seq(Tasks)]
    <3>1. waiters' = [waiters EXCEPT ![w] = SubSeq(@, Woken(w) + 1, Len(@))]
      BY <1>9 DEF RunDeliver
    <3>2. waiters' = waiters \/ waiters' = [waiters EXCEPT ![w] = <<>>]
      BY <2>3, <3>1, WokenType DEF TypeOK
    <3>3. waiters \in [Watchers -> Seq(Tasks)] /\ <<>> \in Seq(Tasks)
      BY DEF TypeOK
    <3> QED
      BY <2>3, <3>2, <3>3
  <2> QED
    BY <1>9, <2>3, <2>4, <2>5, <2>6 DEF RunDeliver, TypeOK, Consistent
<1>10. CASE RunNothing
  BY <1>10, NextItem DEF RunNothing, TypeOK, Consistent, source
<1>11. ASSUME NEW t \in Tasks, CancelWait(t) PROVE TypeOK'
  <2>1. ready' \in Seq(ReadyItem)
    BY <1>11, PickedWithout DEF CancelWait, TypeOK
  <2>2. waiters' \in [Watchers -> Seq(Tasks)]
    BY <1>11, PickedWithout DEF CancelWait, TypeOK
  <2> QED
    BY <1>11, <2>1, <2>2 DEF CancelWait, TypeOK, Consistent
<1>12. CASE UNCHANGED vars
  BY <1>12 DEF vars, loop, source, TypeOK, Consistent
<1> QED
  BY <1>1, <1>2, <1>3, <1>4, <1>5, <1>6, <1>7, <1>8, <1>9, <1>10, <1>11, <1>12 DEF Next

LEMMA NamedStep == TypeOK /\ InstalledAreNamed /\ [Next]_vars => InstalledAreNamed'
<1> SUFFICES ASSUME TypeOK, InstalledAreNamed, [Next]_vars PROVE InstalledAreNamed'
  OBVIOUS
<1> USE DEF TypeOK, InstalledAreNamed
<1>1. ASSUME NEW w \in Watchers, Open(w) PROVE InstalledAreNamed'
  BY <1>1 DEF Open, Install
<1>2. ASSUME NEW w \in Watchers, OpenFails(w) PROVE InstalledAreNamed'
  <2>1. PICK S \in SUBSET Named[w] : Install(w, S)
    BY <1>2 DEF OpenFails
  <2> QED
    BY <2>1 DEF Install
<1>3. ASSUME NEW w \in Watchers, Close(w) PROVE InstalledAreNamed'
  BY <1>3 DEF Close
<1>4. CASE UNCHANGED installed
  BY <1>4
<1>5. ASSUME NEW w \in Watchers, NEW t \in Tasks, StartWait(t, w) PROVE UNCHANGED installed
  BY <1>5 DEF StartWait, WaitBody, WaitRaises, WaitReturns, WaitSleeps, source
<1>6. CASE RunTask
  BY <1>6 DEF RunTask, WaitBody, WaitRaises, WaitReturns, WaitSleeps, source
<1> QED
  BY <1>1, <1>2, <1>3, <1>4, <1>5, <1>6
     DEF Next, Kill, ReadWakeup, RunDeliver, RunNothing, Pending, CancelWait, source, vars

TypeInv == TypeOK /\ InstalledAreNamed

LEMMA TypeInvAlways == Spec => []TypeInv
<1>1. Init => TypeInv
  BY TypeInit DEF TypeInv, InstalledAreNamed, Init
<1>2. TypeInv /\ [Next]_vars => TypeInv'
  BY TypeStep, NamedStep DEF TypeInv
<1> QED
  BY <1>1, <1>2, PTL DEF Spec

\* The variables keep their types, and a watcher's flags, its list of installed
\* handlers and the loop's table agree, also after an open() that failed half
\* way and after any close().
THEOREM CpyTypeCorrect == Spec => []TypeOK
<1>1. TypeInv => TypeOK
  BY DEF TypeInv
<1> QED
  BY <1>1, TypeInvAlways, PTL

-----------------------------------------------------------------------------
(* Sleeping tasks *)

LEMMA SleepStep == TypeOK /\ NobodySleepsOnASignal /\ [Next]_vars => NobodySleepsOnASignal'
<1> SUFFICES ASSUME TypeOK, NobodySleepsOnASignal, [Next]_vars PROVE NobodySleepsOnASignal'
  OBVIOUS
<1> USE DEF NobodySleepsOnASignal
<1>1. ASSUME NEW w \in Watchers, Open(w) \/ OpenFails(w) PROVE NobodySleepsOnASignal'
  BY <1>1 DEF Open, OpenFails, NewEvent, TypeOK
<1>2. ASSUME NEW w \in Watchers, Close(w) PROVE NobodySleepsOnASignal'
  BY <1>2 DEF Close, TypeOK
<1>3. ASSUME NEW w \in Watchers, Pending(w) PROVE NobodySleepsOnASignal'
  BY <1>3 DEF Pending, Take, TypeOK
<1>4. ASSUME NEW w \in Watchers, NEW t \in Tasks, WaitBody(t, w) PROVE NobodySleepsOnASignal'
  <2>1. CASE WaitRaises(t, w)
    BY <2>1 DEF WaitRaises, source
  <2>2. CASE WaitReturns(t, w)
    BY <2>2 DEF WaitReturns, Take, TypeOK
  <2>3. CASE WaitSleeps(t, w)
    BY <2>3 DEF WaitSleeps, TypeOK
  <2> QED
    BY <1>4, <2>1, <2>2, <2>3 DEF WaitBody
<1>5. CASE RunTask
  <2>1. PICK t \in Tasks : WaitBody(t, task[t])
    BY <1>5, NextItem DEF RunTask
  <2>2. CASE task[t] = None
    BY <2>1, <2>2, BodyOfNone DEF source
  <2>3. CASE task[t] \in Watchers
    BY <2>1, <2>3, <1>4
  <2> QED
    BY <2>2, <2>3 DEF TypeOK
<1>6. CASE RunDeliver
  <2> DEFINE w == Head(ready).of
  <2>1. w \in Watchers
    BY <1>6, NextItem DEF RunDeliver
  <2>4. /\ waiters'[w] = IF flag[w] THEN waiters[w] ELSE <<>>
        /\ \A v \in Watchers \ {w} : waiters'[v] = waiters[v]
    BY <1>6, <2>1, WokenType DEF RunDeliver, TypeOK
  <2>2. waiters'[w] = <<>> /\ \A v \in Watchers \ {w} : waiters'[v] = waiters[v]
    BY <2>1, <2>4
  <2>3. \A v \in Watchers \ {w} : queue'[v] = queue[v] /\ flag'[v] = flag[v]
    BY <1>6 DEF RunDeliver, TypeOK
  <2> QED
    BY <2>1, <2>2, <2>3
<1>7. ASSUME NEW t \in Tasks, CancelWait(t) PROVE NobodySleepsOnASignal'
  <2>1. ASSUME NEW w \in Watchers, waiters'[w] # <<>> PROVE waiters[w] # <<>>
    <3> DEFINE places == {i \in DOMAIN waiters[w] : waiters[w][i] = t}
    <3>1. waiters'[w] = Without(waiters[w], places) /\ waiters[w] \in Seq(Tasks)
      BY <1>7 DEF CancelWait, TypeOK
    <3>2. waiters'[w] \in Seq(Tasks) /\ Picked(waiters'[w], waiters[w])
      BY <3>1, PickedWithout
    <3>3. 1 \in DOMAIN waiters'[w]
      BY <2>1, <3>2
    <3>4. PICK k \in DOMAIN waiters[w] : TRUE
      BY <3>2, <3>3 DEF Picked
    <3> QED
      BY <3>1, <3>4
  <2> QED
    BY <1>7, <2>1 DEF CancelWait
<1>8. CASE UNCHANGED <<queue, flag, waiters>>
  BY <1>8
<1> QED
  BY <1>1, <1>2, <1>3, <1>4, <1>5, <1>6, <1>7, <1>8
     DEF Next, StartWait, Kill, ReadWakeup, RunNothing, source, vars

\* wait() clears the event only when there is nothing on the queue, and set()
\* wakes every task: none is ever left asleep while its watcher has a signal.
THEOREM NobodyEverSleepsOnASignal == Spec => []NobodySleepsOnASignal
<1>1. Init => NobodySleepsOnASignal
  BY DEF Init, NobodySleepsOnASignal
<1>2. TypeInv => TypeOK
  BY DEF TypeInv
<1> QED
  BY <1>1, <1>2, SleepStep, TypeInvAlways, PTL DEF Spec
-----------------------------------------------------------------------------
(* Order *)

Before(m, s) == \A i \in DOMAIN s : m < s[i].n

\* Numbers ascend from what a watcher reported last over its queue and the
\* deliveries of all watchers to the pipe, and none is larger than sent.
InOrder ==
  /\ \A i \in DOMAIN wakeup : wakeup[i].n <= sent
  /\ \A i, j \in DOMAIN wakeup : i < j => wakeup[i].n < wakeup[j].n
  /\ \A i \in DOMAIN ready : ready[i].of # None => ready[i].n <= sent /\ Before(ready[i].n, wakeup)
  /\ \A i, j \in DOMAIN ready :
       i < j /\ ready[i].of # None /\ ready[j].of # None => ready[i].n < ready[j].n
  /\ \A w \in Watchers : \A i \in DOMAIN queue[w] :
       /\ queue[w][i] <= sent /\ Before(queue[w][i], wakeup)
       /\ \A j \in DOMAIN ready : ready[j].of # None => queue[w][i] < ready[j].n
       /\ \A j \in DOMAIN queue[w] : i < j => queue[w][i] < queue[w][j]
  /\ \A w \in Watchers :
       /\ last[w] <= sent /\ Before(last[w], wakeup)
       /\ \A j \in DOMAIN ready : ready[j].of # None => last[w] < ready[j].n
       /\ \A j \in DOMAIN queue[w] : last[w] < queue[w][j]

LEMMA OrderIsEnough == TypeOK /\ InOrder => OnceAndInOrder
<1> SUFFICES ASSUME TypeOK, InOrder, NEW w \in Watchers
             PROVE  OnceAndInOrder!(w)
  BY DEF OnceAndInOrder
<1> QED
  BY CpySignalsAssumption DEF InOrder, Before, DueInLoop, DueInPipe

\* Taking from the queue, emptying it, and dropping what the loop would run keep
\* the order.
Fewer(w) ==
  \/ queue'[w] = queue[w] /\ last'[w] = last[w]
  \/ queue'[w] = <<>> /\ last'[w] = last[w]
  \/ queue[w] # <<>> /\ queue'[w] = Tail(queue[w]) /\ last'[w] = Head(queue[w])

LEMMA OrderKept ==
  ASSUME TypeOK, InOrder, UNCHANGED <<wakeup, sent>>, Picked(ready', ready),
         \A w \in Watchers : Fewer(w)
  PROVE  InOrder'
<1>1. \A i \in DOMAIN ready' : \E k \in DOMAIN ready : ready'[i] = ready[k]
  BY DEF Picked
<1>2. \A i \in DOMAIN wakeup' : wakeup'[i].n <= sent'
  BY DEF InOrder
<1>3. \A i, j \in DOMAIN wakeup' : i < j => wakeup'[i].n < wakeup'[j].n
  BY DEF InOrder
<1>4. \A i \in DOMAIN ready' :
        ready'[i].of # None => ready'[i].n <= sent' /\ Before(ready'[i].n, wakeup')
  BY <1>1 DEF InOrder
<1>5. \A i, j \in DOMAIN ready' :
        i < j /\ ready'[i].of # None /\ ready'[j].of # None => ready'[i].n < ready'[j].n
  BY DEF InOrder, Picked
<1>6. ASSUME NEW w \in Watchers
      PROVE  /\ \A i \in DOMAIN queue'[w] :
                  /\ queue'[w][i] <= sent' /\ Before(queue'[w][i], wakeup')
                  /\ \A j \in DOMAIN ready' : ready'[j].of # None => queue'[w][i] < ready'[j].n
                  /\ \A j \in DOMAIN queue'[w] : i < j => queue'[w][i] < queue'[w][j]
             /\ last'[w] <= sent' /\ Before(last'[w], wakeup')
             /\ \A j \in DOMAIN ready' : ready'[j].of # None => last'[w] < ready'[j].n
             /\ \A j \in DOMAIN queue'[w] : last'[w] < queue'[w][j]
  <2>1. Fewer(w)
    OBVIOUS
  <2>2. CASE queue'[w] = queue[w] /\ last'[w] = last[w]
    BY <1>1, <2>2 DEF InOrder
  <2>3. CASE queue'[w] = <<>> /\ last'[w] = last[w]
    BY <1>1, <2>3 DEF InOrder
  <2>4. CASE queue[w] # <<>> /\ queue'[w] = Tail(queue[w]) /\ last'[w] = Head(queue[w])
    <3>1. /\ 1 \in DOMAIN queue[w] /\ last'[w] = queue[w][1]
          /\ \A i \in DOMAIN queue'[w] :
               i + 1 \in DOMAIN queue[w] /\ queue'[w][i] = queue[w][i + 1] /\ i \in Nat \ {0}
      BY <2>4, TailOf DEF TypeOK
    <3> QED
      BY <1>1, <3>1 DEF InOrder
  <2> QED
    BY <2>1, <2>2, <2>3, <2>4 DEF Fewer
<1> QED
  BY <1>2, <1>3, <1>4, <1>5, <1>6 DEF InOrder

LEMMA Numbers ==
  ASSUME TypeOK
  PROVE  /\ sent \in Nat
         /\ DOMAIN wakeup = 1..Len(wakeup) /\ Len(wakeup) \in Nat
         /\ \A i \in DOMAIN wakeup : wakeup[i].n \in Nat
         /\ DOMAIN ready = 1..Len(ready) /\ Len(ready) \in Nat
         /\ \A i \in DOMAIN ready : ready[i].n \in Nat
         /\ \A w \in Watchers : /\ last[w] \in Nat
                                /\ DOMAIN queue[w] = 1..Len(queue[w]) /\ Len(queue[w]) \in Nat
                                /\ \A i \in DOMAIN queue[w] : queue[w][i] \in Nat
<1>1. wakeup \in Seq(ItemType) /\ ready \in Seq(ReadyItem)
  BY DEF TypeOK, ItemType
<1>2. \A i \in DOMAIN wakeup : wakeup[i] \in ItemType
  BY <1>1
<1>3. \A i \in DOMAIN ready : ready[i] \in ReadyItem
  BY <1>1
<1>4. \A w \in Watchers : queue[w] \in Seq(Nat) /\ last[w] \in Nat
  BY DEF TypeOK
<1>5. sent \in Nat
  BY DEF TypeOK
<1> QED
  BY <1>1, <1>2, <1>3, <1>4, <1>5 DEF ItemType, ReadyItem

\* A new signal has the largest number of all.
LEMMA OrderKill ==
  ASSUME TypeOK, InOrder, NEW s \in Signals, Kill(s)
  PROVE  InOrder'
<1>1. UNCHANGED <<ready, queue, last>> /\ sent' = sent + 1
  BY DEF Kill, source
<1>2. CASE wakeup' = wakeup
  BY <1>1, <1>2, Numbers DEF InOrder
<1>3. CASE wakeup' = Append(wakeup, [sig |-> s, n |-> sent + 1])
  <2>1. /\ wakeup \in Seq(ItemType) /\ [sig |-> s, n |-> sent + 1] \in ItemType
        /\ [sig |-> s, n |-> sent + 1].n = sent + 1
    BY Numbers DEF TypeOK, ItemType
  <2>2. /\ DOMAIN wakeup' = 1..(Len(wakeup) + 1)
        /\ \A i \in 1..Len(wakeup) : wakeup'[i] = wakeup[i]
        /\ wakeup'[Len(wakeup) + 1].n = sent + 1
    BY <1>3, <2>1
  <2>3. \A i \in DOMAIN wakeup' : wakeup'[i].n =
           IF i <= Len(wakeup) THEN wakeup[i].n ELSE sent + 1
    BY <2>2, Numbers
  <2>4. \A m \in Nat : m <= sent /\ Before(m, wakeup) => Before(m, wakeup')
    BY <2>2, <2>3, Numbers DEF Before
  <2>5. /\ \A i \in DOMAIN wakeup' : wakeup'[i].n <= sent'
        /\ \A i, j \in DOMAIN wakeup' : i < j => wakeup'[i].n < wakeup'[j].n
    BY <1>1, <2>2, <2>3, Numbers DEF InOrder
  <2> QED
    BY <1>1, <2>4, <2>5, Numbers DEF InOrder
<1> QED
  BY <1>2, <1>3 DEF Kill

\* What is read from the pipe goes behind what the loop has already.
LEMMA OrderReadWakeup ==
  ASSUME TypeOK, InOrder, ReadWakeup
  PROVE  InOrder'
<1> DEFINE m == Len(ready)
<1>1. UNCHANGED <<queue, last, sent>> /\ wakeup' = <<>> /\ ready' = ready \o Scheduled
  BY DEF ReadWakeup, source
<1>2. ready \in Seq(ReadyItem) /\ Scheduled \in Seq(ReadyItem) /\ Len(Scheduled) = Len(wakeup)
  BY ScheduledType DEF TypeOK
<1>3. /\ DOMAIN ready' = 1..(m + Len(wakeup))
      /\ \A i \in 1..m : ready'[i] = ready[i]
      /\ \A i \in 1..Len(wakeup) : ready'[m + i] = Scheduled[i]
  <2>1. /\ DOMAIN (ready \o Scheduled) = 1..(m + Len(Scheduled))
        /\ \A i \in 1..m : (ready \o Scheduled)[i] = ready[i]
        /\ \A i \in 1..Len(Scheduled) : (ready \o Scheduled)[m + i] = Scheduled[i]
    <3>1. ready \in Seq(ReadyItem) /\ Scheduled \in Seq(ReadyItem)
      BY <1>2
    <3> QED
      BY <3>1, ConcatOf
  <2> QED
    BY <1>1, <1>2, <2>1, Zenon
<1>4. \A i \in 1..Len(wakeup) : ready'[m + i].n = wakeup[i].n
  <2> TAKE i \in 1..Len(wakeup)
  <2>1. i \in DOMAIN wakeup /\ ready'[m + i] = Scheduled[i]
    BY <1>3, Numbers, Zenon
  <2>2. ready'[m + i] = Delivery(handler[wakeup[i].sig], wakeup[i].n)
    BY <2>1, ScheduledType, Zenon
  <2> QED
    BY <2>2 DEF Delivery
<1>5. \A i \in DOMAIN ready' : i > m =>
        i - m \in DOMAIN wakeup /\ ready'[i].n = wakeup[i - m].n
  <2> SUFFICES ASSUME NEW i \in DOMAIN ready', i > m
               PROVE  i - m \in DOMAIN wakeup /\ ready'[i].n = wakeup[i - m].n
    OBVIOUS
  <2>1. i - m \in 1..Len(wakeup) /\ m + (i - m) = i
    BY <1>3, Numbers
  <2> QED
    BY <1>4, <2>1, Numbers
<1>6. \A i \in DOMAIN ready' : i <= m => i \in DOMAIN ready /\ ready'[i] = ready[i]
  BY <1>3, Numbers
<1> HIDE DEF m
<1>7. m \in Nat /\ DOMAIN ready' \subseteq Nat
  BY <1>3, Numbers DEF m
<1>8. \A i \in DOMAIN ready' : ready'[i].of # None =>
        /\ ready'[i].n <= sent
        /\ \A j \in DOMAIN ready' : i < j /\ ready'[j].of # None => ready'[i].n < ready'[j].n
  <2> SUFFICES ASSUME NEW i \in DOMAIN ready', ready'[i].of # None
               PROVE  /\ ready'[i].n <= sent
                      /\ \A j \in DOMAIN ready' :
                           i < j /\ ready'[j].of # None => ready'[i].n < ready'[j].n
    OBVIOUS
  <2>1. CASE i <= m
    BY <1>5, <1>6, <1>7, <2>1 DEF InOrder, Before
  <2>2. CASE i > m
    BY <1>5, <1>7, <2>2, Numbers DEF InOrder
  <2> QED
    BY <1>7, <2>1, <2>2
<1>9. \A k : Before(k, wakeup) /\ (\A j \in DOMAIN ready : ready[j].of # None => k < ready[j].n)
        => \A j \in DOMAIN ready' : ready'[j].of # None => k < ready'[j].n
  BY <1>5, <1>6, <1>7 DEF Before
<1>10. \A k : Before(k, wakeup')
  BY <1>1 DEF Before
<1>11. \A i \in DOMAIN ready' : ready'[i].of # None =>
         ready'[i].n <= sent' /\ Before(ready'[i].n, wakeup')
  BY <1>1, <1>8, <1>10
<1>12. \A i, j \in DOMAIN ready' :
         i < j /\ ready'[i].of # None /\ ready'[j].of # None => ready'[i].n < ready'[j].n
  BY <1>8
<1>13. ASSUME NEW w \in Watchers, NEW i \in DOMAIN queue'[w]
       PROVE  /\ queue'[w][i] <= sent' /\ Before(queue'[w][i], wakeup')
              /\ \A j \in DOMAIN ready' : ready'[j].of # None => queue'[w][i] < ready'[j].n
              /\ \A j \in DOMAIN queue'[w] : i < j => queue'[w][i] < queue'[w][j]
              /\ last'[w] < queue'[w][i]
  BY <1>1, <1>9, <1>10 DEF InOrder
<1>14. ASSUME NEW w \in Watchers
       PROVE  /\ last'[w] <= sent' /\ Before(last'[w], wakeup')
              /\ \A j \in DOMAIN ready' : ready'[j].of # None => last'[w] < ready'[j].n
  BY <1>1, <1>9, <1>10 DEF InOrder
<1>15. DOMAIN wakeup' = {}
  BY <1>1
<1> QED
  BY <1>11, <1>12, <1>13, <1>14, <1>15 DEF InOrder

\* What is delivered is larger than what its watcher has, and smaller than what
\* is still to be delivered.
LEMMA OrderRunDeliver ==
  ASSUME TypeOK, InOrder, RunDeliver
  PROVE  InOrder'
<1> DEFINE w == Head(ready).of
           n == Head(ready).n
           turns == [i \in 1..Woken(w) |-> Turn(waiters[w][i])]
<1>1. /\ UNCHANGED <<wakeup, last, sent>> /\ ready # <<>> /\ w # None
      /\ queue' = [queue EXCEPT ![w] = Append(queue[w], n)]
      /\ ready' = Tail(ready) \o turns
  BY DEF RunDeliver, Enqueue
<1>2. w \in Watchers /\ n \in Nat /\ Tail(ready) \in Seq(ReadyItem)
  BY <1>1, NextItem
<1>3. turns \in Seq(ReadyItem) /\ \A i \in DOMAIN turns : turns[i].of = None
  BY <1>2, WokenType DEF Turn
<1>4. 1 \in DOMAIN ready /\ ready[1].of = w /\ ready[1].n = n
  BY <1>1, TailOf DEF TypeOK
<1>5. \A i \in DOMAIN Tail(ready) :
        i + 1 \in DOMAIN ready /\ Tail(ready)[i] = ready[i + 1] /\ i \in Nat \ {0}
  BY <1>1, TailOf DEF TypeOK
<1> HIDE DEF w, n, turns
<1>6. \A i \in DOMAIN ready' : ready'[i].of # None =>
        i \in DOMAIN Tail(ready) /\ ready'[i] = Tail(ready)[i]
  <2> SUFFICES ASSUME NEW i \in DOMAIN ready', ready'[i].of # None
               PROVE  i \in DOMAIN Tail(ready) /\ ready'[i] = Tail(ready)[i]
    OBVIOUS
  <2> DEFINE m == Len(Tail(ready))
  <2>1. i \in 1..(m + Len(turns)) /\ m \in Nat /\ Len(turns) \in Nat
    BY <1>1, <1>2, <1>3
  <2>2. CASE i > m
    <3>1. i - m \in DOMAIN turns /\ ready'[i] = turns[i - m]
      BY <1>1, <1>2, <1>3, <2>1, <2>2
    <3> QED
      BY <1>3, <3>1
  <2>3. CASE i <= m
    BY <1>1, <1>2, <1>3, <2>1, <2>3
  <2> QED
    BY <2>1, <2>2, <2>3
<1>7. \A i \in DOMAIN ready' : ready'[i].of # None =>
        i + 1 \in DOMAIN ready /\ ready'[i] = ready[i + 1] /\ i \in Nat \ {0}
  BY <1>5, <1>6
<1>8. \A j \in DOMAIN ready' : ready'[j].of # None => n < ready'[j].n
  <2> TAKE j \in DOMAIN ready'
  <2> HAVE ready'[j].of # None
  <2>1. j + 1 \in DOMAIN ready /\ ready'[j] = ready[j + 1] /\ 1 < j + 1
    BY <1>7
  <2> QED
    BY <1>1, <1>4, <2>1 DEF InOrder
<1>9. /\ \A i \in DOMAIN ready' : ready'[i].of # None =>
           ready'[i].n <= sent' /\ Before(ready'[i].n, wakeup')
      /\ \A i, j \in DOMAIN ready' :
           i < j /\ ready'[i].of # None /\ ready'[j].of # None => ready'[i].n < ready'[j].n
  BY <1>1, <1>7 DEF InOrder
<1>10. /\ n <= sent /\ Before(n, wakeup)
       /\ \A v \in Watchers : last[v] < n /\ \A i \in DOMAIN queue[v] : queue[v][i] < n
  BY <1>1, <1>4 DEF InOrder
<1>11. ASSUME NEW v \in Watchers, NEW i \in DOMAIN queue'[v]
       PROVE  \/ i \in DOMAIN queue[v] /\ queue'[v][i] = queue[v][i]
              \/ v = w /\ i = Len(queue[v]) + 1 /\ queue'[v][i] = n
  <2>1. queue[v] \in Seq(Nat) /\ queue'[v] = IF v = w THEN Append(queue[v], n) ELSE queue[v]
    BY <1>1, <1>2 DEF TypeOK
  <2> QED
    BY <1>2, <2>1
<1>12. ASSUME NEW v \in Watchers, NEW i \in DOMAIN queue'[v]
       PROVE  /\ queue'[v][i] <= sent' /\ Before(queue'[v][i], wakeup')
              /\ \A j \in DOMAIN ready' : ready'[j].of # None => queue'[v][i] < ready'[j].n
              /\ \A j \in DOMAIN queue'[v] : i < j => queue'[v][i] < queue'[v][j]
              /\ last'[v] < queue'[v][i]
  <2>1. CASE i \in DOMAIN queue[v] /\ queue'[v][i] = queue[v][i]
    <3>1. \A j \in DOMAIN queue'[v] : i < j => queue'[v][i] < queue'[v][j]
      BY <1>10, <1>11, <2>1, Numbers DEF InOrder
    <3> QED
      BY <1>1, <1>7, <2>1, <3>1 DEF InOrder
  <2>2. CASE v = w /\ i = Len(queue[v]) + 1 /\ queue'[v][i] = n
    <3>1. \A j \in DOMAIN queue'[v] : j <= i
      BY <1>11, <2>2, Numbers
    <3>2. i \in Nat /\ DOMAIN queue'[v] \subseteq Nat
      BY <1>11, <2>2, Numbers
    <3> QED
      BY <1>1, <1>8, <1>10, <2>2, <3>1, <3>2
  <2> QED
    BY <1>11, <2>1, <2>2
<1>13. ASSUME NEW v \in Watchers
       PROVE  /\ last'[v] <= sent' /\ Before(last'[v], wakeup')
              /\ \A j \in DOMAIN ready' : ready'[j].of # None => last'[v] < ready'[j].n
  BY <1>1, <1>7 DEF InOrder
<1>14. \A i \in DOMAIN wakeup' : wakeup'[i].n <= sent'
  BY <1>1 DEF InOrder
<1>15. \A i, j \in DOMAIN wakeup' : i < j => wakeup'[i].n < wakeup'[j].n
  BY <1>1 DEF InOrder
<1> QED
  BY <1>9, <1>12, <1>13, <1>14, <1>15 DEF InOrder

LEMMA OrderStep == TypeOK /\ InOrder /\ [Next]_vars => InOrder'
<1> SUFFICES ASSUME TypeOK, InOrder, [Next]_vars PROVE InOrder'
  OBVIOUS
<1>1. Picked(ready, ready)
  BY PickedSame DEF TypeOK
<1>2. ASSUME UNCHANGED <<wakeup, ready, sent, last>>,
             \A w \in Watchers : queue'[w] = queue[w] \/ queue'[w] = <<>>
      PROVE  InOrder'
  BY <1>1, <1>2, OrderKept DEF Fewer
<1>3. ASSUME NEW v \in Watchers, Take(v) PROVE \A w \in Watchers : Fewer(w)
  BY <1>3 DEF Take, Fewer, TypeOK
<1>4. ASSUME NEW w \in Watchers, Open(w) \/ OpenFails(w) \/ Close(w) PROVE InOrder'
  BY <1>2, <1>4 DEF Open, OpenFails, Close, TypeOK
<1>5. ASSUME NEW w \in Watchers, Pending(w) PROVE InOrder'
  BY <1>1, <1>3, <1>5, OrderKept DEF Pending, loop
<1>6. ASSUME NEW v \in Watchers, NEW t \in Tasks, WaitBody(t, v) PROVE \A w \in Watchers : Fewer(w)
  BY <1>3, <1>6 DEF WaitBody, WaitRaises, WaitReturns, WaitSleeps, Fewer, source
<1>7. ASSUME NEW w \in Watchers, NEW t \in Tasks, StartWait(t, w) PROVE InOrder'
  BY <1>1, <1>6, <1>7, OrderKept DEF StartWait, loop
<1>8. CASE RunTask
  <2>1. PICK t \in Tasks : WaitBody(t, task[t])
    BY <1>8, NextItem DEF RunTask
  <2>2. \A w \in Watchers : Fewer(w)
    <3>1. CASE task[t] = None
      BY <2>1, <3>1, BodyOfNone DEF source, Fewer
    <3>2. CASE task[t] \in Watchers
      BY <2>1, <3>2, <1>6
    <3> QED
      BY <3>1, <3>2 DEF TypeOK
  <2> QED
    BY <1>8, <2>2, NextItem, OrderKept DEF RunTask
<1>9. CASE RunNothing
  BY <1>9, NextItem, OrderKept DEF RunNothing, Fewer, source
<1>10. ASSUME NEW t \in Tasks, CancelWait(t) PROVE InOrder'
  <2>1. Picked(ready', ready)
    BY <1>10, PickedWithout DEF CancelWait, TypeOK
  <2> QED
    BY <1>10, <2>1, OrderKept DEF CancelWait, Fewer
<1>11. CASE UNCHANGED vars
  BY <1>2, <1>11 DEF vars, loop, source
<1> QED
  BY <1>4, <1>5, <1>7, <1>8, <1>9, <1>10, <1>11, OrderKill, OrderReadWakeup, OrderRunDeliver DEF Next

\* However watchers are opened, closed and polled in between, each reports its
\* signals once and in the order they were sent: nothing between the pipe and
\* the queue overtakes, and a number is gone from the queue when it is reported.
THEOREM ReportedOnceAndInOrder == Spec => []OnceAndInOrder
<1>1. Init => InOrder
  BY DEF Init, InOrder, Before
<1>2. TypeInv => TypeOK
  BY DEF TypeInv
<1> QED
  BY <1>1, <1>2, OrderStep, OrderIsEnough, TypeInvAlways, PTL DEF Spec

-----------------------------------------------------------------------------
(* Default actions *)

\* No two watchers name the same signal: add_signal_handler would take it from
\* the first, and its close() leave the second with the default action.
Apart == \A w, v \in Watchers : w # v => Named[w] \cap Named[v] = {}

\* What an open watcher names is delivered to it.
Kept == \A w \in Watchers : isopen[w] => \A s \in Named[w] : handler[s] = w

LEMMA KeptStep == Apart /\ TypeInv /\ Kept /\ [Next]_vars => Kept'
<1> SUFFICES ASSUME Apart, TypeInv, Kept, [Next]_vars PROVE Kept'
  OBVIOUS
<1> USE CpySignalsAssumption DEF TypeInv, TypeOK, InstalledAreNamed, Kept, Apart
<1>1. ASSUME NEW w \in Watchers, Open(w) PROVE Kept'
  BY <1>1 DEF Open, Install
<1>2. ASSUME NEW w \in Watchers, OpenFails(w) PROVE Kept'
  <2>1. PICK S \in SUBSET Named[w] : Install(w, S)
    BY <1>2 DEF OpenFails
  <2> QED
    BY <1>2, <2>1 DEF OpenFails, Install
<1>3. ASSUME NEW w \in Watchers, Close(w) PROVE Kept'
  BY <1>3 DEF Close, Removed
<1>4. ASSUME NEW w \in Watchers, NEW t \in Tasks, WaitBody(t, w) PROVE UNCHANGED isopen
  BY <1>4 DEF WaitBody, WaitRaises, WaitReturns, WaitSleeps, source
<1>5. CASE RunTask
  <2>1. PICK t \in Tasks : WaitBody(t, task[t])
    BY <1>5, NextItem DEF RunTask
  <2>2. UNCHANGED isopen
    BY <2>1 DEF WaitBody, WaitRaises, WaitReturns, WaitSleeps, source
  <2> QED
    BY <1>5, <2>2 DEF RunTask
<1> QED
  BY <1>1, <1>2, <1>3, <1>4, <1>5
     DEF Next, Kill, ReadWakeup, RunDeliver, RunNothing, StartWait, Pending, CancelWait,
         loop, source, vars

\* While no two watchers name the same signal, no signal that an open watcher
\* names has its default action, in whatever order they are opened, closed,
\* and fail to open.
THEOREM WatchedSignalsNeverKill == Apart => (Spec => NoDeathWhileWatched)
<1> SUFFICES ASSUME Apart PROVE Spec => NoDeathWhileWatched
  OBVIOUS
<1>1. Init => Kept
  BY DEF Init, Kept
<1>2. TypeInv /\ Kept /\ [Next]_vars => Kept'
  BY KeptStep
<1>3. TypeInv /\ Kept /\ [Next]_vars
        => [\A s \in killed' \ killed : \A w \in Watchers : isopen[w] => s \notin Named[w]]_vars
  <2> SUFFICES ASSUME TypeInv, Kept, [Next]_vars, NEW r \in killed' \ killed
               PROVE  \A w \in Watchers : isopen[w] => r \notin Named[w]
    OBVIOUS
  <2>1. PICK s \in Signals : Kill(s)
    BY DEF Next, ReadWakeup, RunDeliver, RunTask, RunNothing, Open, OpenFails, Close,
           Pending, StartWait, CancelWait, vars
  <2>2. handler[r] = None
    BY <2>1 DEF Kill
  <2> QED
    BY <2>2, CpySignalsAssumption DEF Kept
<1> QED
  BY <1>1, <1>2, <1>3, TypeInvAlways, PTL DEF Spec, NoDeathWhileWatched
=============================================================================
