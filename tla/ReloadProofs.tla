---------------------------- MODULE ReloadProofs ----------------------------
(***************************************************************************)
(* Proofs about Reload, for every clock, queue, number of signals and      *)
(* edits: its types, that no old answer is taken for a new one, and that   *)
(* an open request is one the service works on.                            *)
(***************************************************************************)
EXTENDS Reload, TLAPS

-----------------------------------------------------------------------------
(* The strengthening of AnswerIsFresh *)

\* Nothing happens before ready().
QuietStart == pc = "starting" => queue = <<>> /\ mgr = "starting"

\* The times on the queue are those of the latest reload or earlier ones.
TimesInOrder ==
  \A i \in DOMAIN queue : queue[i].kind = "reloading" => queue[i].usec <= stamp

\* A READY=1 that is to come, or is on the queue behind a RELOADING=1, vouches
\* for the edits before the time of that reload.
ReadyMeansLoaded ==
  /\ pc = "finishing" => Covers(stamp)
  /\ \A i, j \in DOMAIN queue :
       i < j /\ queue[i].kind = "reloading" /\ queue[j].kind = "ready" => Covers(queue[i].usec)

\* Whatever the manager waits for has been announced since, and the READY=1 it
\* will read next vouches for its request.
AcceptedInTime ==
  /\ result = "waiting" => mgr \in {"signalled", "notified"}
  /\ mgr = "notified" /\ result = "waiting" =>
       /\ begin <= stamp
       /\ (\E i \in DOMAIN queue : queue[i].kind = "ready") => Covers(begin)

Inv ==
  /\ TypeOK /\ QuietStart /\ TimesInOrder
  /\ ReadyMeansLoaded /\ AcceptedInTime /\ AnswerIsFresh

-----------------------------------------------------------------------------
(* Time *)

LEMMA WholeDivision ==
  ASSUME NEW a \in Nat, NEW n \in Nat \ {0}
  PROVE  a \div n \in Nat /\ n * (a \div n) <= a /\ a < n * (a \div n) + n
  OBVIOUS

LEMMA ProductGrows ==
  ASSUME NEW a \in Nat, NEW b \in Nat, NEW n \in Nat, a <= b
  PROVE  n * a <= n * b
  OBVIOUS

LEMMA DivisionGrows ==
  ASSUME NEW a \in Nat, NEW b \in Nat, NEW n \in Nat \ {0}, a <= b
  PROVE  a \div n <= b \div n
<1> DEFINE q == a \div n
<1> DEFINE r == b \div n
<1>1. q \in Nat /\ n * q <= a
  BY WholeDivision
<1>2. r \in Nat /\ b < n * r + n
  BY WholeDivision
<1> HIDE DEF q, r
<1>3. ASSUME r + 1 <= q PROVE FALSE
  <2>1. n * (r + 1) <= n * q
    BY <1>1, <1>2, <1>3, ProductGrows
  <2>2. n * (r + 1) = n * r + n
    BY <1>2
  <2> QED
    BY <1>1, <1>2, <2>1, <2>2
<1>4. q <= r
  BY <1>1, <1>2, <1>3
<1> QED
  BY <1>4 DEF q, r

LEMMA NowIsNat == ASSUME clock \in Nat PROVE Now \in Nat
  BY WholeDivision, ReloadAssumption DEF Now

LEMMA NowGrows == ASSUME clock \in Nat, Tick PROVE Now' \in Nat /\ Now <= Now'
<1>1. clock' = clock + 1
  BY DEF Tick
<1> QED
  BY <1>1, DivisionGrows, WholeDivision, ReloadAssumption DEF Now

\* The time only changes with the clock.
LEMMA NowKept == ASSUME UNCHANGED clock PROVE Now' = Now
  BY DEF Now

-----------------------------------------------------------------------------
(* Types *)

LEMMA TypeInit == Init => TypeOK
<1> SUFFICES ASSUME Init PROVE TypeOK
  OBVIOUS
<1>1. Now \in Nat
  BY NowIsNat DEF Init
<1> QED
  BY <1>1, ReloadAssumption DEF Init, TypeOK, PCs

Messages == [kind : {"reloading", "ready"}, usec : Nat]

LEMMA MessageTyped ==
  \A usec \in Nat : Message("ready", usec) \in Messages /\ Message("reloading", usec) \in Messages
  BY DEF Message, Messages

LEMMA QueueTyped ==
  ASSUME TypeOK
  PROVE  queue \in Seq(Messages) /\ \A k \in DOMAIN queue : queue[k].usec \in Nat
<1>1. queue \in Seq(Messages)
  BY DEF TypeOK, Messages
<1>2. ASSUME NEW k \in DOMAIN queue PROVE queue[k].usec \in Nat
  <2>1. queue[k] \in Messages
    BY <1>1
  <2> QED
    BY <2>1 DEF Messages
<1> QED
  BY <1>1, <1>2

LEMMA SendTyped ==
  ASSUME TypeOK, NEW m \in Messages, Send(m)
  PROVE  queue' \in Seq(Messages) /\ Len(queue') <= QueueMax
<1>1. queue \in Seq(Messages) /\ Len(queue) < QueueMax /\ queue' = Append(queue, m)
  BY DEF TypeOK, Send, Messages
<1> QED
  BY <1>1, ReloadAssumption

LEMMA TypeStep == TypeOK /\ [Next]_vars => TypeOK'
<1> SUFFICES ASSUME TypeOK, [Next]_vars PROVE TypeOK'
  OBVIOUS
<1> USE DEF TypeOK, PCs
<1>0. Now \in Nat
  BY NowIsNat
<1>1. CASE Tick
  <2>1. Now' \in Nat /\ Now <= Now' /\ clock' \in Nat
    BY <1>1, NowGrows DEF Tick
  <2> QED
    BY <1>0, <1>1, <2>1 DEF Tick, service, manager
<1>2. ASSUME UNCHANGED clock, ~Tick PROVE TypeOK'
  <2>0. Now' = Now
    BY <1>2, NowKept
  <2>1. CASE Edit
    <3>1. edits' = Append(edits, Now)
      BY <2>1 DEF Edit
    <3>2. edits' \in Seq(Nat) /\ Len(edits') = Len(edits) + 1
      BY <1>0, <3>1
    <3>3. \A i \in DOMAIN edits' : edits'[i] = Now \/ (i \in DOMAIN edits /\ edits'[i] = edits[i])
      BY <1>0, <3>1
    <3>4. \A i \in DOMAIN edits' : edits'[i] <= Now
      BY <1>0, <3>3
    <3> QED
      BY <1>0, <2>0, <2>1, <3>2, <3>4 DEF Edit, service, manager
  <2>2. CASE OthersHup
    BY <2>0, <2>2, ReloadAssumption DEF OthersHup, Hup, Unwatched, manager
  <2>3. CASE Ready
    <3>1. queue' \in Seq(Messages) /\ Len(queue') <= QueueMax
      BY <2>3, SendTyped, MessageTyped DEF Ready
    <3> QED
      BY <2>0, <2>3, <3>1 DEF Ready, Messages, manager
  <2>4. CASE OpenWatcher
    BY <2>0, <2>4 DEF OpenWatcher, manager
  <2>5. CASE WaitReturns
    BY <2>0, <2>5 DEF WaitReturns, manager
  <2>6. CASE Reloading
    BY <1>0, <2>0, <2>6 DEF Reloading, MonotonicUs, Now, manager
  <2>7. CASE Announce
    <3>1. queue' \in Seq(Messages) /\ Len(queue') <= QueueMax
      BY <1>0, <2>7, SendTyped, MessageTyped DEF Announce
    <3> QED
      BY <2>0, <2>7, <3>1 DEF Announce, Messages, manager
  <2>8. CASE ReloadTheConfiguration
    BY <2>0, <2>8 DEF ReloadTheConfiguration, manager
  <2>9. CASE Leave
    BY <2>0, <2>9 DEF Leave, manager
  <2>10. CASE Request
    BY <1>0, <2>0, <2>10, ReloadAssumption DEF Request, Hup, Unwatched
  <2>11. CASE GiveUp
    BY <2>0, <2>11 DEF GiveUp, service
  <2>12. CASE Receive
    <3>1. queue' \in Seq([kind : {"reloading", "ready"}, usec : Nat]) /\ Len(queue') <= QueueMax
      BY <2>12, ReloadAssumption DEF Receive
    <3>2. mgr' \in {"starting", "running", "signalled", "notified"}
      BY <2>12 DEF Receive
    <3>3. result' \in {"none", "waiting", "done", "failed"}
      BY <2>12 DEF Receive
    <3> QED
      BY <2>0, <2>12, <3>1, <3>2, <3>3 DEF Receive, service
  <2>13. CASE UNCHANGED vars
    BY <2>0, <2>13 DEF vars, service, manager
  <2> QED
    BY <1>2, <2>1, <2>2, <2>3, <2>4, <2>5, <2>6, <2>7, <2>8, <2>9, <2>10, <2>11, <2>12, <2>13
       DEF Next, ServiceStep
<1>3. Tick \/ UNCHANGED clock
  BY DEF Next, ServiceStep, vars, Edit, OthersHup, Ready, OpenWatcher, WaitReturns, Reloading,
         Announce, ReloadTheConfiguration, Leave, Request, GiveUp, Receive
<1> QED
  BY <1>1, <1>2, <1>3

-----------------------------------------------------------------------------
(* What a step leaves as it was *)

\* No edit made later, and no reload, uncovers what is covered.
LEMMA CoversKept ==
  ASSUME TypeOK, [Next]_vars, NEW u \in Nat, u <= Now, Covers(u)
  PROVE  Covers(u)'
<1>0. Now \in Nat
  BY NowIsNat DEF TypeOK
<1>1. CASE Edit
  BY <1>0, <1>1 DEF Edit, Covers, TypeOK, service
<1>2. CASE ReloadTheConfiguration
  BY <1>2 DEF ReloadTheConfiguration, Covers, TypeOK
<1>3. CASE UNCHANGED <<edits, loaded>>
  BY <1>3 DEF Covers
<1> QED
  BY <1>1, <1>2, <1>3
     DEF Next, ServiceStep, vars, service, manager, Tick, OthersHup, Hup, Ready, OpenWatcher,
         WaitReturns, Reloading, Announce, Leave, Request, GiveUp, Receive

LEMMA CoversLess ==
  ASSUME TypeOK, NEW u \in Nat, NEW v \in Nat, u <= v, Covers(v)
  PROVE  Covers(u)
  BY DEF Covers, TypeOK

\* The queue changes at its ends only, and only in these steps.
LEMMA QueueStep ==
  ASSUME [Next]_vars
  PROVE  \/ UNCHANGED queue
         \/ Ready /\ queue' = Append(queue, Message("ready", 0))
         \/ Announce /\ queue' = Append(queue, Message("reloading", stamp))
         \/ Receive /\ queue # <<>> /\ queue' = Tail(queue)
BY DEF Next, ServiceStep, vars, Tick, Edit, OthersHup, OpenWatcher, WaitReturns, Reloading,
       ReloadTheConfiguration, Leave, Request, GiveUp, Ready, Send, Announce, Receive

\* MONOTONIC_USEC never goes back.
LEMMA StampGrows ==
  ASSUME TypeOK, [Next]_vars
  PROVE  stamp <= stamp'
<1>0. Now \in Nat
  BY NowIsNat DEF TypeOK
<1>1. CASE Reloading
  BY <1>0, <1>1 DEF Reloading, MonotonicUs, Now, TypeOK
<1>2. CASE UNCHANGED stamp
  BY <1>0, <1>2 DEF TypeOK
<1> QED
  BY <1>1, <1>2
     DEF Next, ServiceStep, vars, service, manager, Tick, Edit, OthersHup, Hup, Ready, OpenWatcher,
         WaitReturns, Announce, ReloadTheConfiguration, Leave, Request, GiveUp, Receive

-----------------------------------------------------------------------------
(* Each part of the invariant is kept *)

LEMMA InitInv == Init => Inv
<1> SUFFICES ASSUME Init PROVE Inv
  OBVIOUS
<1>1. TypeOK
  BY TypeInit
<1> QED
  BY <1>1 DEF Init, Inv, QuietStart, TimesInOrder, ReadyMeansLoaded, AcceptedInTime, AnswerIsFresh

LEMMA QuietStartStep == QuietStart /\ [Next]_vars => QuietStart'
<1> SUFFICES ASSUME QuietStart, [Next]_vars, pc' = "starting" PROVE (queue = <<>> /\ mgr = "starting")'
  BY DEF QuietStart
<1> QED
  BY DEF QuietStart, Next, ServiceStep, vars, service, manager, Tick, Edit, OthersHup, Hup, Unwatched,
         Ready, OpenWatcher, WaitReturns, Reloading, Announce, ReloadTheConfiguration, Leave,
         Request, GiveUp, Receive

LEMMA TimesInOrderStep == TypeOK /\ TimesInOrder /\ [Next]_vars => TimesInOrder'
<1> SUFFICES ASSUME TypeOK, TimesInOrder, [Next]_vars,
                    NEW i \in DOMAIN queue', queue'[i].kind = "reloading"
             PROVE  queue'[i].usec <= stamp'
  BY DEF TimesInOrder
<1>1. stamp <= stamp' /\ stamp \in Nat /\ stamp' \in Nat
  <2>1. TypeOK'
    BY TypeStep
  <2>2. Now \in Nat /\ Now' \in Nat
    BY <2>1, NowIsNat, WholeDivision, ReloadAssumption DEF TypeOK, Now
  <2> QED
    BY <2>1, <2>2, StampGrows DEF TypeOK
<1>2. queue \in Seq(Messages) /\ \A k \in DOMAIN queue : queue[k].usec \in Nat
  BY QueueTyped
<1>3. \A k \in DOMAIN queue : queue[k].kind = "reloading" => queue[k].usec <= stamp
  BY DEF TimesInOrder
<1>4. CASE UNCHANGED queue
  BY <1>1, <1>2, <1>3, <1>4
<1>5. ASSUME NEW m \in Messages, queue' = Append(queue, m), m.kind = "reloading" => m.usec = stamp
      PROVE  queue'[i].usec <= stamp'
  <2>1. CASE i = Len(queue) + 1
    BY <1>1, <1>2, <1>5, <2>1
  <2>2. CASE i # Len(queue) + 1
    <3>1. i \in DOMAIN queue /\ queue'[i] = queue[i]
      BY <1>2, <1>5, <2>2
    <3> QED
      BY <1>1, <1>2, <1>3, <3>1
  <2> QED
    BY <2>1, <2>2
<1>6. CASE queue # <<>> /\ queue' = Tail(queue)
  <2>1. i + 1 \in DOMAIN queue /\ queue'[i] = queue[i + 1]
    BY <1>2, <1>6
  <2> QED
    BY <1>1, <1>2, <1>3, <2>1
<1>7. /\ Message("ready", 0) \in Messages /\ Message("ready", 0).kind = "ready"
      /\ Message("reloading", stamp) \in Messages /\ Message("reloading", stamp).usec = stamp
  BY <1>1 DEF Message, Messages
<1> QED
  BY <1>4, <1>5, <1>6, <1>7, QueueStep

\* The parts of the invariant that say what is covered need its types before
\* and after the step.
LEMMA ReadyMeansLoadedStep == Inv /\ [Next]_vars => ReadyMeansLoaded'
<1> SUFFICES ASSUME Inv, [Next]_vars PROVE ReadyMeansLoaded'
  OBVIOUS
<1>1. TypeOK /\ TimesInOrder /\ ReadyMeansLoaded /\ QuietStart
  BY DEF Inv
<1>2. /\ queue \in Seq(Messages) /\ \A k \in DOMAIN queue : queue[k].usec \in Nat
      /\ Now \in Nat /\ stamp \in Nat /\ stamp <= Now
  BY <1>1, QueueTyped, NowIsNat DEF TypeOK
<1>3. ASSUME pc' = "finishing" PROVE Covers(stamp)'
  <2>1. CASE ReloadTheConfiguration
    BY <1>1, <1>2, <2>1 DEF ReloadTheConfiguration, Covers, TypeOK
  <2>2. CASE pc = "finishing" /\ UNCHANGED stamp
    <3>1. Covers(stamp)
      BY <1>1, <2>2 DEF ReadyMeansLoaded
    <3>2. \A u \in Nat : u <= Now /\ Covers(u) => Covers(u)'
      BY <1>1, CoversKept
    <3>3. \A u \in Nat : u = stamp /\ Covers(u)' => Covers(stamp)'
      BY <2>2 DEF Covers
    <3> QED
      BY <1>2, <3>1, <3>2, <3>3
  <2>3. ReloadTheConfiguration \/ (pc = "finishing" /\ UNCHANGED stamp)
    BY <1>3 DEF Next, ServiceStep, vars, service, manager, Tick, Edit, OthersHup, Hup, Unwatched,
                Ready, OpenWatcher, WaitReturns, Reloading, Announce, Leave, Request, GiveUp, Receive
  <2> QED
    BY <2>1, <2>2, <2>3
<1>4. ASSUME NEW i \in DOMAIN queue', NEW j \in DOMAIN queue', i < j,
             queue'[i].kind = "reloading", queue'[j].kind = "ready"
      PROVE  \E u \in Nat : u = queue'[i].usec /\ Covers(u)'
  <2>1. ASSUME NEW k \in DOMAIN queue, queue[k].kind = "reloading", Covers(queue[k].usec)
        PROVE  \E u \in Nat : u = queue[k].usec /\ Covers(u)'
    <3>1. queue[k].usec \in Nat /\ queue[k].usec <= Now
      BY <1>1, <1>2, <2>1 DEF TimesInOrder
    <3> QED
      BY <1>1, <2>1, <3>1, CoversKept
  <2>2. \A k, l \in DOMAIN queue :
          k < l /\ queue[k].kind = "reloading" /\ queue[l].kind = "ready" => Covers(queue[k].usec)
    BY <1>1 DEF ReadyMeansLoaded
  <2>3. CASE UNCHANGED queue
    BY <1>4, <2>1, <2>2, <2>3
  <2>4. CASE Announce /\ queue' = Append(queue, Message("reloading", stamp))
    <3>1. j # Len(queue) + 1
      BY <1>2, <1>4, <2>4 DEF Message
    <3>2. /\ i \in DOMAIN queue /\ queue'[i] = queue[i]
          /\ j \in DOMAIN queue /\ queue'[j] = queue[j]
      BY <1>2, <1>4, <2>4, <3>1
    <3> QED
      BY <1>4, <2>1, <2>2, <3>2
  <2>5. CASE Ready /\ queue' = Append(queue, Message("ready", 0))
    <3>1. i \in DOMAIN queue /\ queue'[i] = queue[i]
      BY <1>2, <1>4, <2>5
    <3>2. pc = "finishing"
      BY <1>1, <2>5, <3>1 DEF Ready, QuietStart
    <3>3. Covers(stamp)
      BY <1>1, <3>2 DEF ReadyMeansLoaded
    <3>4. queue[i].kind = "reloading" /\ queue[i].usec <= stamp
      BY <1>1, <1>4, <3>1 DEF TimesInOrder
    <3>5. Covers(queue[i].usec)
      BY <1>1, <1>2, <3>1, <3>3, <3>4, CoversLess
    <3> QED
      BY <2>1, <3>1, <3>4, <3>5
  <2>6. CASE queue # <<>> /\ queue' = Tail(queue)
    <3>1. /\ i + 1 \in DOMAIN queue /\ queue'[i] = queue[i + 1]
          /\ j + 1 \in DOMAIN queue /\ queue'[j] = queue[j + 1]
          /\ i + 1 < j + 1
      BY <1>2, <1>4, <2>6
    <3> QED
      BY <1>4, <2>1, <2>2, <3>1
  <2> QED
    BY <2>3, <2>4, <2>5, <2>6, QueueStep
<1> QED
  BY <1>3, <1>4 DEF ReadyMeansLoaded, Covers

LEMMA AcceptedInTimeStep == Inv /\ [Next]_vars => AcceptedInTime'
<1> SUFFICES ASSUME Inv, [Next]_vars PROVE AcceptedInTime'
  OBVIOUS
<1>1. TypeOK /\ TimesInOrder /\ ReadyMeansLoaded /\ QuietStart /\ AcceptedInTime
  BY DEF Inv
<1>2. /\ queue \in Seq(Messages) /\ \A k \in DOMAIN queue : queue[k].usec \in Nat
      /\ Now \in Nat /\ stamp \in Nat /\ stamp <= Now /\ begin \in Nat /\ begin <= Now
      /\ stamp' \in Nat /\ stamp <= stamp'
  <2>1. TypeOK' /\ Now' \in Nat
    BY <1>1, TypeStep, WholeDivision, ReloadAssumption DEF TypeOK, Now
  <2> QED
    BY <1>1, <2>1, QueueTyped, NowIsNat, StampGrows DEF TypeOK
<1>3. (result = "waiting" => mgr \in {"signalled", "notified"})'
  BY <1>1 DEF AcceptedInTime, Next, ServiceStep, vars, service, manager, Tick, Edit, OthersHup, Hup,
              Unwatched, Ready, OpenWatcher, WaitReturns, Reloading, Announce, ReloadTheConfiguration,
              Leave, Request, GiveUp, Receive, TakesReloading, TakesReady
<1>4. ASSUME mgr' = "notified", result' = "waiting"
      PROVE  begin <= stamp' /\ begin' = begin /\
             ((\E i \in DOMAIN queue' : queue'[i].kind = "ready") => Covers(begin)')
  <2>1. CASE ~Receive
    <3>1. UNCHANGED <<mgr, begin, result>>
      BY <1>4, <2>1 DEF Next, ServiceStep, vars, service, manager, Tick, Edit, OthersHup, Hup,
              Unwatched, Ready, OpenWatcher, WaitReturns, Reloading, Announce, ReloadTheConfiguration,
              Leave, Request, GiveUp
    <3>2. begin <= stamp /\ ((\E i \in DOMAIN queue : queue[i].kind = "ready") => Covers(begin))
      BY <1>1, <1>4, <3>1 DEF AcceptedInTime
    <3>3. ASSUME NEW i \in DOMAIN queue', queue'[i].kind = "ready" PROVE Covers(begin)
      <4>1. CASE UNCHANGED queue
        BY <3>2, <3>3, <4>1
      <4>2. CASE Ready
        <5>1. pc = "finishing"
          BY <1>1, <1>4, <3>1, <4>2 DEF Ready, QuietStart
        <5> QED
          BY <1>1, <1>2, <3>2, <5>1, CoversLess DEF ReadyMeansLoaded
      <4>3. CASE Announce /\ queue' = Append(queue, Message("reloading", stamp))
        <5>1. i # Len(queue) + 1
          BY <1>2, <3>3, <4>3 DEF Message
        <5>2. i \in DOMAIN queue /\ queue'[i] = queue[i]
          BY <1>2, <3>3, <4>3, <5>1
        <5> QED
          BY <3>2, <3>3, <5>2
      <4> QED
        BY <2>1, <4>1, <4>2, <4>3, QueueStep
    <3> QED
      BY <1>1, <1>2, <3>1, <3>2, <3>3, CoversKept
  <2>2. CASE Receive
    <3>1. /\ queue # <<>> /\ queue' = Tail(queue) /\ begin' = begin
          /\ Head(queue).kind = "reloading"
          /\ result = "waiting"
      BY <1>1, <1>4, <2>2 DEF Receive, AcceptedInTime, TakesReady
    <3>2. /\ 1 \in DOMAIN queue /\ queue[1] = Head(queue)
          /\ \A i \in DOMAIN queue' : i + 1 \in DOMAIN queue /\ queue'[i] = queue[i + 1] /\ 1 < i + 1
      BY <1>2, <3>1
    <3>3. CASE mgr = "notified"
      <4>1. begin <= stamp /\ ((\E i \in DOMAIN queue : queue[i].kind = "ready") => Covers(begin))
        BY <1>1, <3>1, <3>3 DEF AcceptedInTime
      <4> QED
        BY <1>1, <1>2, <3>1, <3>2, <4>1, CoversKept
    <3>4. CASE mgr # "notified"
      <4>1. begin <= queue[1].usec /\ queue[1].usec <= stamp /\ queue[1].usec \in Nat
        BY <1>1, <1>2, <1>4, <2>2, <3>1, <3>2, <3>4
           DEF Receive, TakesReloading, AcceptedInTime, TimesInOrder
      <4>2. (\E i \in DOMAIN queue' : queue'[i].kind = "ready") => Covers(queue[1].usec)
        BY <1>1, <3>1, <3>2 DEF ReadyMeansLoaded
      <4>3. Covers(queue[1].usec) => Covers(begin)
        BY <1>1, <1>2, <4>1, CoversLess
      <4> QED
        BY <1>1, <1>2, <3>1, <4>1, <4>2, <4>3, CoversKept
    <3> QED
      BY <3>3, <3>4
  <2> QED
    BY <2>1, <2>2
<1> QED
  BY <1>3, <1>4 DEF AcceptedInTime, Covers

LEMMA AnswerIsFreshStep == Inv /\ [Next]_vars => AnswerIsFresh'
<1> SUFFICES ASSUME Inv, [Next]_vars, result' = "done" PROVE begin' = begin /\ Covers(begin)'
  BY DEF AnswerIsFresh, Covers
<1>1. TypeOK /\ AcceptedInTime /\ AnswerIsFresh
  BY DEF Inv
<1>2. queue \in Seq(Messages) /\ begin \in Nat /\ begin <= Now
  BY <1>1, QueueTyped, NowIsNat DEF TypeOK
<1>3. begin' = begin
  BY DEF Next, ServiceStep, vars, service, manager, Tick, Edit, OthersHup, Hup, Unwatched, Ready,
         OpenWatcher, WaitReturns, Reloading, Announce, ReloadTheConfiguration, Leave, Request,
         GiveUp, Receive
<1>4. Covers(begin)
  <2>1. CASE result = "done"
    BY <1>1, <2>1 DEF AnswerIsFresh
  <2>2. CASE result # "done"
    <3>1. /\ queue # <<>> /\ Head(queue).kind # "reloading"
          /\ mgr = "notified" /\ result = "waiting"
      BY <2>2 DEF Next, ServiceStep, vars, service, manager, Tick, Edit, OthersHup, Hup, Unwatched,
         Ready, OpenWatcher, WaitReturns, Reloading, Announce, ReloadTheConfiguration, Leave, Request,
         GiveUp, Receive
    <3>2. 1 \in DOMAIN queue /\ queue[1] = Head(queue) /\ queue[1] \in Messages
      BY <1>2, <3>1
    <3>3. queue[1].kind = "ready"
      BY <3>1, <3>2 DEF Messages
    <3> QED
      BY <1>1, <3>1, <3>2, <3>3 DEF AcceptedInTime
  <2> QED
    BY <2>1, <2>2
<1> QED
  BY <1>1, <1>2, <1>3, <1>4, CoversKept

LEMMA InvStep == Inv /\ [Next]_vars => Inv'
  BY TypeStep, QuietStartStep, TimesInOrderStep, ReadyMeansLoadedStep, AcceptedInTimeStep,
     AnswerIsFreshStep DEF Inv

-----------------------------------------------------------------------------
(* Theorems *)

\* The variables of Reload keep their types, and the time a reload is announced
\* with is never ahead of the manager's clock.
THEOREM ReloadTypeCorrect == Spec => []TypeOK
<1>1. TypeOK /\ [Next]_vars => TypeOK'
  BY TypeStep
<1> QED
  BY <1>1, TypeInit, PTL DEF Spec

\* When a request counts as done, the service has loaded every edit made before
\* it: an answer to an earlier request, or to nobody's, is never taken for one,
\* for any clock and any number of signals, edits and datagrams.
THEOREM AnswersAreFresh == Spec => []AnswerIsFresh
<1>1. Inv => AnswerIsFresh
  BY DEF Inv
<1> QED
  BY <1>1, InitInv, InvStep, PTL DEF Spec

-----------------------------------------------------------------------------
(* What a request waits for *)

\* A RELOADING=1 that the manager will take for the answer is on its way, or the
\* service has a SIGHUP still to report, whose time will be new enough.
WillAnnounce ==
  \/ hups > 0
  \/ pc = "stamping"
  \/ pc = "announcing" /\ begin <= stamp
  \/ \E i \in DOMAIN queue : queue[i].kind = "reloading" /\ begin <= queue[i].usec

WillBeReady ==
  \/ pc \in {"loading", "finishing"}
  \/ \E i \in DOMAIN queue : queue[i].kind = "ready"

\* The service never sleeps on an open request, nor the manager on a service that
\* is done with it: whatever SIGHUP the request fell together with, whatever older
\* answer was passed over, as long as the service is there the next message the
\* manager waits for is on its queue or is the service's to send.
AnswerUnderWay ==
  result = "waiting" /\ pc # "gone" =>
    \/ mgr = "signalled" /\ WillAnnounce
    \/ mgr = "notified" /\ WillBeReady

\* Its strengthening: behind each RELOADING=1 comes a READY=1.
ReadyFollows ==
  \A i \in DOMAIN queue : queue[i].kind = "reloading" =>
    \/ pc \in {"loading", "finishing"}
    \/ \E j \in DOMAIN queue : i < j /\ queue[j].kind = "ready"

UnderWay ==
  pc # "gone" =>
    /\ mgr = "signalled" => WillAnnounce
    /\ mgr = "notified" => WillBeReady
    /\ ReadyFollows

LEMMA UnderWayStep ==
  ASSUME TypeOK, TypeOK', UnderWay, [Next]_vars PROVE UnderWay'
<1> SUFFICES ASSUME pc' # "gone"
             PROVE  /\ mgr' = "signalled" => WillAnnounce'
                    /\ mgr' = "notified" => WillBeReady'
                    /\ ReadyFollows'
  BY DEF UnderWay
<1>1. pc # "gone"
  BY DEF Next, ServiceStep, vars, service, Tick, Edit, OthersHup, Hup, Unwatched, Ready, OpenWatcher,
         WaitReturns, Reloading, Announce, ReloadTheConfiguration, Leave, Request, GiveUp, Receive
<1>2. /\ mgr = "signalled" => WillAnnounce
      /\ mgr = "notified" => WillBeReady
      /\ ReadyFollows
  BY <1>1 DEF UnderWay
<1>3. /\ queue \in Seq(Messages) /\ \A k \in DOMAIN queue : queue[k].usec \in Nat
      /\ Now \in Nat /\ stamp \in Nat /\ begin \in Nat /\ hups \in Nat /\ stamp <= Now /\ begin <= Now
  BY QueueTyped, NowIsNat DEF TypeOK
\* Steps that leave the queue and the manager alone
<1>4. ASSUME UNCHANGED <<queue, mgr, begin>>,
             WillAnnounce => WillAnnounce',
             pc \in {"loading", "finishing"} => pc' \in {"loading", "finishing"}
      PROVE  UnderWay'
  BY <1>2, <1>4 DEF UnderWay, WillBeReady, ReadyFollows
<1>5. CASE Tick \/ Edit \/ OpenWatcher \/ UNCHANGED vars
  BY <1>4, <1>5 DEF Tick, Edit, OpenWatcher, vars, service, manager, UnderWay, WillAnnounce
<1>6. CASE OthersHup
  <2>1. /\ UNCHANGED <<queue, mgr, begin, stamp, pc>> /\ (hups > 0 => hups' > 0)
    BY <1>1, <1>3, <1>6 DEF OthersHup, Hup, manager
  <2> QED
    BY <1>4, <2>1 DEF UnderWay, WillAnnounce
<1>7. CASE WaitReturns
  BY <1>4, <1>7 DEF WaitReturns, manager, UnderWay, WillAnnounce
<1>8. CASE Reloading
  BY <1>3, <1>4, <1>8 DEF Reloading, MonotonicUs, Now, manager, UnderWay, WillAnnounce
<1>9. CASE ReloadTheConfiguration
  BY <1>4, <1>9 DEF ReloadTheConfiguration, manager, UnderWay, WillAnnounce
<1>10. CASE Request
  <2>1. UNCHANGED <<queue, pc>> /\ mgr' = "signalled" /\ hups' > 0
    BY <1>1, <1>3, <1>10 DEF Request, Hup, Unwatched
  <2> QED
    BY <1>2, <2>1 DEF WillAnnounce, ReadyFollows
<1>11. CASE GiveUp
  BY <1>2, <1>11 DEF GiveUp, service, ReadyFollows
<1>12. CASE Ready
  <2> DEFINE n == Len(queue) + 1
  <2>1. /\ queue' = Append(queue, Message("ready", 0)) /\ pc \in {"starting", "finishing"}
        /\ UNCHANGED <<mgr, begin, hups, stamp>>
    BY <1>12 DEF Ready, Send, manager
  <2>2. /\ n \in DOMAIN queue' /\ queue'[n].kind = "ready"
        /\ \A i \in DOMAIN queue : i \in DOMAIN queue' /\ queue'[i] = queue[i] /\ i < n
        /\ \A i \in DOMAIN queue' : i = n \/ i \in DOMAIN queue
    BY <1>3, <2>1 DEF Message
  <2>3. WillAnnounce => WillAnnounce'
    BY <2>1, <2>2 DEF WillAnnounce
  <2>4. ReadyFollows'
    BY <2>2 DEF ReadyFollows
  <2> QED
    BY <1>2, <2>1, <2>2, <2>3, <2>4 DEF WillBeReady
<1>13. CASE Announce
  <2> DEFINE n == Len(queue) + 1
  <2>1. /\ queue' = Append(queue, Message("reloading", stamp)) /\ pc = "announcing" /\ pc' = "loading"
        /\ UNCHANGED <<mgr, begin, hups, stamp>>
    BY <1>13 DEF Announce, Send, manager
  <2>2. /\ n \in DOMAIN queue' /\ queue'[n].kind = "reloading" /\ queue'[n].usec = stamp
        /\ \A i \in DOMAIN queue : i \in DOMAIN queue' /\ queue'[i] = queue[i]
    BY <1>3, <2>1 DEF Message
  <2>3. WillAnnounce => WillAnnounce'
    BY <2>1, <2>2 DEF WillAnnounce
  <2> QED
    BY <1>2, <2>1, <2>3 DEF WillBeReady, ReadyFollows
<1>14. CASE Receive
  <2>1. /\ queue # <<>> /\ queue' = Tail(queue) /\ UNCHANGED <<pc, hups, stamp, begin>>
        /\ Head(queue) = queue[1] /\ 1 \in DOMAIN queue
    BY <1>3, <1>14 DEF Receive, service
  <2>2. /\ \A i \in DOMAIN queue : i # 1 => i - 1 \in DOMAIN queue' /\ queue'[i - 1] = queue[i]
        /\ \A i \in DOMAIN queue' : i + 1 \in DOMAIN queue /\ queue'[i] = queue[i + 1] /\ i \in Nat
        /\ \A i \in DOMAIN queue : i \in Nat \ {0}
    BY <1>3, <2>1
  <2>3. ReadyFollows'
    <3> SUFFICES ASSUME NEW i \in DOMAIN queue', queue'[i].kind = "reloading",
                        pc \notin {"loading", "finishing"}
                 PROVE  \E j \in DOMAIN queue' : i < j /\ queue'[j].kind = "ready"
      BY <2>1 DEF ReadyFollows
    <3>1. PICK j \in DOMAIN queue : i + 1 < j /\ queue[j].kind = "ready"
      BY <1>2, <2>2 DEF ReadyFollows
    <3>2. j # 1 /\ i < j - 1
      BY <2>2, <3>1
    <3> QED
      BY <2>2, <3>1, <3>2
  <2>4. ASSUME mgr' = "signalled" PROVE WillAnnounce'
    <3>1. /\ mgr = "signalled"
          /\ ~(queue[1].kind = "reloading" /\ begin <= queue[1].usec)
      BY <1>14, <2>1, <2>4 DEF Receive, TakesReloading
    <3>2. ASSUME NEW i \in DOMAIN queue, queue[i].kind = "reloading", begin <= queue[i].usec
          PROVE  WillAnnounce'
      <4>1. i # 1
        BY <3>1, <3>2
      <4> QED
        BY <2>1, <2>2, <3>2, <4>1 DEF WillAnnounce
    <3> QED
      BY <1>2, <2>1, <3>1, <3>2 DEF WillAnnounce
  <2>5. ASSUME mgr' = "notified" PROVE WillBeReady'
    <3>1. queue[1].kind = "reloading" /\ queue[1].kind # "ready"
      BY <1>3, <1>14, <2>1, <2>5 DEF Receive, TakesReady, Messages
    <3>2. ASSUME NEW j \in DOMAIN queue, queue[j].kind = "ready" PROVE WillBeReady'
      <4>1. j # 1
        BY <3>1, <3>2
      <4> QED
        BY <2>2, <3>2, <4>1 DEF WillBeReady
    <3>3. pc \in {"loading", "finishing"} \/ \E j \in DOMAIN queue : queue[j].kind = "ready"
      BY <1>2, <2>1, <3>1 DEF ReadyFollows
    <3> QED
      BY <2>1, <3>2, <3>3 DEF WillBeReady
  <2> QED
    BY <2>3, <2>4, <2>5
<1> QED
  BY <1>5, <1>6, <1>7, <1>8, <1>9, <1>10, <1>11, <1>12, <1>13, <1>14
     DEF Next, ServiceStep, Leave, UnderWay

\* The safety behind ReloadEnds: for any clock, queue, number of SIGHUPs and of
\* requests given up, an open request is never one that nobody works on.
THEOREM RequestsAreUnderWay == Spec => []AnswerUnderWay
<1>1. Init => Inv /\ UnderWay
  BY InitInv DEF Init, UnderWay, ReadyFollows
<1>2. Inv /\ UnderWay /\ [Next]_vars => (Inv /\ UnderWay)'
  <2> SUFFICES ASSUME Inv, UnderWay, [Next]_vars PROVE (Inv /\ UnderWay)'
    OBVIOUS
  <2>1. Inv'
    BY InvStep
  <2>2. TypeOK /\ TypeOK'
    BY <2>1 DEF Inv
  <2> QED
    BY <2>1, <2>2, UnderWayStep
<1>3. Inv /\ UnderWay => AnswerUnderWay
  BY DEF Inv, AcceptedInTime, UnderWay, AnswerUnderWay
<1> QED
  BY <1>1, <1>2, <1>3, PTL DEF Spec
=============================================================================
