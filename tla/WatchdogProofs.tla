--------------------------- MODULE WatchdogProofs ---------------------------
(***************************************************************************)
(* Proofs, for every interval, divisor and bound on lateness, that a loop  *)
(* that runs at half the interval or faster keeps its service alive, and   *)
(* that one that has ended does not.                                       *)
(***************************************************************************)
EXTENDS Watchdog, FiniteSetTheorems, SequenceTheorems, TLAPS

-----------------------------------------------------------------------------
(* The period *)

LEMMA DivisionBound ==
  ASSUME NEW a \in Nat, NEW b \in Nat \ {0}
  PROVE  a \div b \in Nat /\ b * (a \div b) <= a
  OBVIOUS

LEMMA ProductGrows ==
  ASSUME NEW a \in Nat, NEW b \in Nat, NEW c \in Nat, a <= b
  PROVE  a * c <= b * c
  OBVIOUS

LEMMA PeriodType ==
  ASSUME NEW i \in Nat, NEW d \in Nat \ {0}
  PROVE  WatchdogPeriodMs(i, d) \in Nat
<1>1. i \div d \in Nat
  BY DivisionBound
<1>2. (i \div d) \div UsecPerMs \in Nat
  BY <1>1, DivisionBound, WatchdogAssumption
<1> QED
  BY <1>2 DEF WatchdogPeriodMs, MIN_PERIOD_MS

\* For an interval of at least as many milliseconds as the divisor, rounding
\* down twice and the shortest period of a millisecond never make the period
\* longer than half the interval when the divisor is two or more.
THEOREM PeriodIsHalf ==
  ASSUME NEW i \in Nat, NEW d \in Nat, d >= 2, i >= d * UsecPerMs
  PROVE  2 * (WatchdogPeriodMs(i, d) * UsecPerMs) <= i
<1> DEFINE q == i \div d
<1> DEFINE p == q \div UsecPerMs
<1>0. UsecPerMs \in Nat \ {0}
  BY WatchdogAssumption
<1>1. q \in Nat /\ d * q <= i
  BY DivisionBound
<1>2. p \in Nat /\ UsecPerMs * p <= q
  BY <1>0, <1>1, DivisionBound
<1> HIDE DEF q, p
<1>3. 2 * q <= d * q
  BY <1>1, ProductGrows
<1>4. 2 * (p * UsecPerMs) <= i
  BY <1>0, <1>1, <1>2, <1>3
<1>5. 2 * UsecPerMs <= i
  <2>1. 2 * UsecPerMs <= d * UsecPerMs
    BY <1>0, ProductGrows
  <2> QED
    BY <1>0, <2>1
<1>6. WatchdogPeriodMs(i, d) = IF p < 1 THEN 1 ELSE p
  BY DEF WatchdogPeriodMs, MIN_PERIOD_MS, p, q
<1>7. CASE p < 1
  BY <1>0, <1>5, <1>6, <1>7
<1>8. CASE ~(p < 1)
  BY <1>4, <1>6, <1>8
<1> QED
  BY <1>7, <1>8

LEMMA PeriodNat ==
  ASSUME usec \in Intervals, divisor \in Divisors, interval_us \in [Procs -> Nat \cup {None}],
         NEW p \in Procs
  PROVE  Interval(p) \in Nat /\ Period(p) \in Nat
<1>1. Interval(p) \in Nat /\ divisor \in Nat \ {0} /\ UsecPerMs \in Nat
  BY WatchdogAssumption DEF Interval, WatchdogEnabled
<1>2. WatchdogPeriodMs(Interval(p), divisor) \in Nat
  BY <1>1, PeriodType
<1> QED
  BY <1>1, <1>2 DEF Period

-----------------------------------------------------------------------------
(* Type correctness *)

LEMMA TypeInit == Init => TypeOK
<1> SUFFICES ASSUME Init PROVE TypeOK
  OBVIOUS
<1>1. interval_us \in [Procs -> Nat \cup {None}]
  BY WatchdogAssumption DEF Init
<1>2. left \in [Procs -> Nat] /\ \A p \in Procs : pc[p] = "start" /\ left[p] <= Late
  BY WatchdogAssumption DEF Init
<1>3. /\ pc \in [Procs -> {"start", "running", "off", "failed", "cancelled"}]
      /\ sock \in [Procs -> BOOLEAN]
      /\ mail \in Seq(0..ManagerLate)
  BY DEF Init
<1> QED
  BY <1>1, <1>2, <1>3 DEF Init, TypeOK

LEMMA Bounds ==
  ASSUME TypeOK
  PROVE  /\ Late \in Nat /\ ManagerLate \in Nat /\ UsecPerMs \in Nat /\ Main \in Procs
         /\ \A p \in Procs : /\ Period(p) \in Nat /\ left[p] \in Nat
                             /\ left[p] <= Period(p) + Late
<1>1. Late \in Nat /\ \A p \in Procs : Period(p) \in Nat
  BY PeriodNat, WatchdogAssumption DEF TypeOK
<1> QED
  BY <1>1, WatchdogAssumption DEF TypeOK

LEMMA ConfigNeverChanges == [Next]_vars => UNCHANGED config
  BY DEF Next, vars, ReadInterval, TakeEnvironment, ReturnAtOnce, Ping, PingFails, Cancel,
         CloseGiven, Receive, Expire, Tick

\* A step that gives a loop its interval, or takes it away, is no step of the loop.
Looks(p) == ReadInterval(p) \/ TakeEnvironment(p)

LEMMA LookStep ==
  ASSUME TypeOK, NEW q \in Procs, Looks(q), NEW p \in Procs
  PROVE  /\ UNCHANGED <<config, loops, manager>>
         /\ interval_us' \in [Procs -> Nat \cup {None}] /\ cleared' \subseteq Procs
         /\ \/ Interval(p)' = Interval(p) /\ Period(p)' = Period(p)
            \/ pc[p] = "start" /\ interval_us[p] = None /\ Interval(p)' = 0
<1>1. /\ UNCHANGED <<config, loops, manager>>
      /\ pc[q] = "start" /\ interval_us[q] = None
      /\ interval_us' \in {interval_us, [interval_us EXCEPT ![q] = WatchdogEnabled(q)]}
      /\ cleared' = cleared \/ cleared' = cleared \cup {q}
  BY DEF Looks, ReadInterval, TakeEnvironment
<1>2. WatchdogEnabled(q) \in Nat
  BY WatchdogAssumption DEF WatchdogEnabled, TypeOK
<1>3. interval_us' \in [Procs -> Nat \cup {None}] /\ cleared' \subseteq Procs
  BY <1>1, <1>2 DEF TypeOK
<1>4. p # q => Interval(p)' = Interval(p)
  BY <1>1 DEF Interval, WatchdogEnabled, config, TypeOK
<1>5. p = q => Interval(p)' \in {Interval(p), 0}
  BY <1>1, <1>2, WatchdogAssumption DEF Interval, WatchdogEnabled, config, TypeOK
<1>6. Interval(p)' = Interval(p) => Period(p)' = Period(p)
  BY <1>1 DEF Period, config, WatchdogPeriodMs
<1> QED
  BY <1>1, <1>3, <1>4, <1>5, <1>6

LEMMA EnvKept ==
  ASSUME UNCHANGED <<config, env>>, NEW p
  PROVE  Interval(p)' = Interval(p) /\ Period(p)' = Period(p)
  BY DEF config, env, Interval, Period, WatchdogPeriodMs, WatchdogEnabled

\* The interval of a loop is settled when it runs; before, it is lost at most.
LEMMA IntervalStep ==
  ASSUME TypeOK, [Next]_vars, NEW p \in Procs
  PROVE  \/ Interval(p)' = Interval(p) /\ Period(p)' = Period(p)
         \/ pc[p] = "start" /\ interval_us[p] = None /\ Interval(p)' = 0
<1>1. CASE \E q \in Procs : Looks(q)
  BY <1>1, LookStep
<1>2. CASE ~\E q \in Procs : Looks(q)
  <2>1. UNCHANGED <<config, env>>
    BY <1>2, ConfigNeverChanges
       DEF Looks, Next, vars, ReturnAtOnce, Ping, PingFails, Cancel, CloseGiven, Receive, Expire, Tick
  <2> QED
    BY <2>1, EnvKept
<1> QED
  BY <1>1, <1>2

LEMMA TypeStep == TypeOK /\ [Next]_vars => TypeOK'
<1> SUFFICES ASSUME TypeOK, [Next]_vars PROVE TypeOK'
  OBVIOUS
<1>0. Late \in Nat /\ ManagerLate \in Nat /\ \A p \in Procs : Period(p) \in Nat
  BY Bounds
<1>1. UNCHANGED config
  BY ConfigNeverChanges
<1> DEFINE Bound(p) == IF pc[p] = "start" THEN Late ELSE Period(p) + Late
<1>10. \A p \in Procs : left[p] \in Nat /\ left[p] <= Bound(p)
  BY DEF TypeOK
<1> USE DEF config, loops, manager
<1>11. ASSUME NEW p \in Procs, Looks(p) PROVE TypeOK'
  <2>1. UNCHANGED <<config, loops, manager>>
    BY <1>11, LookStep
  <2>2. interval_us' \in [Procs -> Nat \cup {None}] /\ cleared' \subseteq Procs
    BY <1>11, LookStep
  <2>3. \A q \in Procs : pc[q] # "start" => Period(q)' = Period(q)
    BY <1>11, LookStep
  <2>4. \A q \in Procs : left'[q] <= Bound(q)'
    BY <1>10, <2>1, <2>3
  <2> QED
    BY <2>1, <2>2, <2>4 DEF TypeOK
<1>12. ASSUME UNCHANGED env, ~\E p \in Procs : pc'[p] = "start" /\ pc[p] # "start"
       PROVE  /\ UNCHANGED <<cleared, interval_us>>
              /\ \A p \in Procs : Bound(p) <= Bound(p)'
  <2>1. \A p \in Procs : Period(p)' = Period(p)
    BY <1>1, <1>12, EnvKept
  <2> QED
    BY <1>0, <1>12, <2>1 DEF env
<1> HIDE DEF Bound
<1>2. ASSUME NEW p \in Procs, ReturnAtOnce(p) \/ PingFails(p) \/ Cancel(p) PROVE TypeOK'
  <2>1. /\ UNCHANGED <<env, left, mail, age, expired>>
        /\ \E to \in {"off", "failed", "cancelled"} : pc' = [pc EXCEPT ![p] = to]
    BY <1>2 DEF ReturnAtOnce, PingFails, Cancel, Goto
  <2>0. sock' \in [Procs -> BOOLEAN]
    <3>1. \/ sock' = sock
          \/ \E s \in {sock, Opened(p)} : sock' = s \/ sock' = [s EXCEPT ![p] = FALSE]
      BY <1>2 DEF ReturnAtOnce, PingFails, Cancel, SocketAtEnd
    <3>2. sock \in [Procs -> BOOLEAN]
      BY DEF TypeOK
    <3>3. Opened(p) \in [Procs -> BOOLEAN]
      BY <3>2 DEF Opened
    <3> QED
      BY <3>1, <3>2, <3>3
  <2>2. /\ UNCHANGED <<cleared, interval_us>>
        /\ \A q \in Procs : left[q] <= Bound(q)'
    <3>1. \A q \in Procs : Bound(q) <= Bound(q)'
      BY <1>12, <2>1 DEF TypeOK
    <3>2. \A q \in Procs : Bound(q) \in Nat /\ Bound(q)' \in Nat
      BY <1>0, <1>1, <2>1, EnvKept DEF Bound
    <3> QED
      BY <1>10, <2>1, <3>1, <3>2 DEF env
  <2> QED
    BY <1>1, <2>0, <2>1, <2>2 DEF TypeOK, Bound
<1>3. ASSUME NEW p \in Procs, Ping(p) PROVE TypeOK'
  <2>1. mail' \in Seq(0..ManagerLate)
    <3>1. mail' = Append(mail, ManagerLate)
      BY <1>3 DEF Ping, Delivered, Opened, TypeOK
    <3>2. mail \in Seq(0..ManagerLate) /\ ManagerLate \in 0..ManagerLate
      BY <1>0 DEF TypeOK
    <3> QED
      BY <3>1, <3>2
  <2>2. /\ UNCHANGED <<env, age, expired>>
        /\ pc' = [pc EXCEPT ![p] = "running"]
        /\ left' = [left EXCEPT ![p] = Period(p) + Late]
        /\ sock' \in [Procs -> BOOLEAN]
    BY <1>3 DEF Ping, Goto, Opened, TypeOK
  <2>3. \A q \in Procs : Period(q)' = Period(q)
    BY <1>1, <2>2, EnvKept
  <2>4. /\ left' \in [Procs -> Nat]
        /\ \A q \in Procs : left'[q] <= IF pc'[q] = "start" THEN Late ELSE Period(q)' + Late
    BY <1>0, <1>10, <2>2, <2>3 DEF TypeOK, Bound
  <2> QED
    BY <1>1, <2>1, <2>2, <2>4 DEF TypeOK, env
<1>4. CASE \/ \E p \in Procs : CloseGiven(p)
           \/ Receive \/ Expire \/ UNCHANGED vars
  <2>1. UNCHANGED <<env, pc, left>>
    BY <1>4 DEF CloseGiven, Receive, Expire, vars
  <2>2. \A q \in Procs : Period(q)' = Period(q)
    BY <1>1, <2>1, EnvKept
  <2>3. /\ sock' \in [Procs -> BOOLEAN] /\ mail' \in Seq(0..ManagerLate)
        /\ age' \in Nat /\ expired' \in BOOLEAN
    <3>1. mail' = mail \/ (mail # <<>> /\ mail' = Tail(mail))
      BY <1>4 DEF CloseGiven, Receive, Expire, vars
    <3>2. mail \in Seq(0..ManagerLate)
      BY DEF TypeOK
    <3>3. mail' \in Seq(0..ManagerLate)
      BY <3>1, <3>2, HeadTailProperties
    <3>4. sock' = sock \/ \E p \in Procs : sock' = [sock EXCEPT ![p] = FALSE]
      BY <1>4 DEF CloseGiven, Receive, Expire, vars
    <3>5. age' \in {0, age} /\ expired' \in {TRUE, expired}
      BY <1>4 DEF CloseGiven, Receive, Expire, vars
    <3>6. sock' \in [Procs -> BOOLEAN]
      BY <3>4 DEF TypeOK
    <3>7. age \in Nat /\ expired \in BOOLEAN
      BY DEF TypeOK
    <3>8. age' \in Nat
      BY <3>5, <3>7
    <3>9. expired' \in BOOLEAN
      BY <3>5, <3>7, Zenon
    <3> QED
      BY <3>3, <3>6, <3>8, <3>9
  <2> QED
    BY <1>1, <2>1, <2>2, <2>3 DEF TypeOK, env
<1>7. CASE Tick
  <2>0. UNCHANGED <<env, pc, sock, expired>> /\ \A q \in Procs : Period(q)' = Period(q)
    BY <1>1, <1>7, EnvKept DEF Tick
  <2>1. /\ left' \in [Procs -> Nat]
        /\ \A q \in Procs : left'[q] <= IF pc'[q] = "start" THEN Late ELSE Period(q)' + Late
    BY <1>0, <1>7, <1>10, <2>0 DEF Tick, TypeOK, Bound
  <2>2. mail' \in Seq(0..ManagerLate)
    <3>1. mail' = [i \in 1..Len(mail) |-> mail[i] - 1] /\ Len(mail) \in Nat
      BY <1>7 DEF Tick, TypeOK
    <3>2. \A i \in 1..Len(mail) : mail[i] - 1 \in 0..ManagerLate
      BY <1>0, <1>7 DEF Tick, TypeOK
    <3> QED
      BY <3>1, <3>2
  <2>3. age' \in Nat
    BY <1>7 DEF Tick, TypeOK
  <2> QED
    BY <1>1, <2>0, <2>1, <2>2, <2>3 DEF TypeOK, env
<1> QED
  BY <1>11, <1>2, <1>3, <1>4, <1>7 DEF Next, Looks

\* No countdown ever starts beyond its bound, and every variable keeps its type.
THEOREM WatchdogTypeCorrect == Spec => []TypeOK
  BY TypeInit, TypeStep, PTL DEF Spec

-----------------------------------------------------------------------------
(* The timer *)

LEMMA ResetInit == Init => ResetComes
<1> SUFFICES ASSUME Init PROVE ResetComes
  OBVIOUS
<1>1. Period(Main) \in Nat /\ Late \in Nat
  BY TypeInit, Bounds
<1> QED
  BY <1>1, WatchdogAssumption DEF Init, ResetComes

LEMMA ServicedBefore ==
  ASSUME TypeOK, [Next]_vars, Serviced' PROVE Serviced /\ Period(Main)' = Period(Main)
<1>1. UNCHANGED config /\ Interval(Main)' = Interval(Main) /\ Period(Main)' = Period(Main)
  BY ConfigNeverChanges, IntervalStep, WatchdogAssumption DEF Serviced
<1>2. pc'[Main] \in {"start", "running"} => pc[Main] \in {"start", "running"}
  BY WatchdogAssumption
     DEF Next, vars, loops, ReadInterval, TakeEnvironment, ReturnAtOnce, Ping, Due, PingFails, Cancel,
         CloseGiven, Receive, Expire, Tick, Goto, TypeOK
<1> QED
  BY <1>1, <1>2 DEF Serviced, config

LEMMA ResetStep == TypeOK /\ ResetComes /\ [Next]_vars => ResetComes'
<1> DEFINE period == Period(Main)
<1> SUFFICES ASSUME TypeOK, ResetComes, [Next]_vars, Serviced'
             PROVE  IF mail' = <<>> THEN age' + left'[Main] <= period' + Late
                    ELSE age' + mail'[1] <= period' + Late + ManagerLate
  BY DEF ResetComes
<1> DEFINE R == IF mail' = <<>> THEN age' + left'[Main] <= period' + Late
                ELSE age' + mail'[1] <= period' + Late + ManagerLate
<1>0. /\ period \in Nat /\ Late \in Nat /\ ManagerLate \in Nat /\ Main \in Procs
      /\ age \in Nat /\ left[Main] \in Nat /\ left[Main] <= period + Late
      /\ mail \in Seq(0..ManagerLate)
  BY Bounds DEF TypeOK
<1>1. period' = period
  BY ServicedBefore
<1>2. IF mail = <<>> THEN age + left[Main] <= period + Late
      ELSE age + mail[1] <= period + Late + ManagerLate
  BY ServicedBefore DEF ResetComes
<1> HIDE DEF period
<1> USE DEF loops, manager
<1>3. ASSUME NEW p \in Procs,
             Looks(p) \/ ReturnAtOnce(p) \/ PingFails(p) \/ Cancel(p) \/ CloseGiven(p)
      PROVE  R
  <2>1. UNCHANGED <<left, mail, age>>
    BY <1>3 DEF Looks, ReadInterval, TakeEnvironment, ReturnAtOnce, PingFails, Cancel, CloseGiven
  <2> QED
    BY <1>1, <1>2, <2>1
<1>4. ASSUME NEW p \in Procs, Ping(p) PROVE R
  <2>1. mail' = Append(mail, ManagerLate) /\ age' = age
    BY <1>4 DEF Ping, Delivered, Opened, TypeOK
  <2>2. mail' # <<>> /\ mail'[1] = IF mail = <<>> THEN ManagerLate ELSE mail[1]
    BY <1>0, <2>1
  <2>3. CASE mail = <<>>
    <3>1. age + left[Main] <= period + Late /\ left[Main] \in Nat
      BY <1>0, <1>2, <2>3
    <3>2. age <= period + Late
      BY <1>0, <3>1
    <3> QED
      BY <1>0, <1>1, <2>1, <2>2, <2>3, <3>2
  <2>4. CASE mail # <<>>
    <3>1. age + mail[1] <= period + Late + ManagerLate
      BY <1>2, <2>4
    <3> QED
      BY <1>1, <2>1, <2>2, <2>4, <3>1
  <2> QED
    BY <2>3, <2>4
<1>5. CASE Receive
  <2>1. mail # <<>> /\ mail' = Tail(mail) /\ age' = 0 /\ left' = left
    BY <1>5 DEF Receive
  <2>2. ASSUME mail' # <<>> PROVE mail'[1] \in 0..ManagerLate
    <3>1. mail \in Seq(0..ManagerLate) /\ Tail(mail) # <<>>
      BY <1>0, <2>1, <2>2
    <3>2. Tail(mail) \in Seq(0..ManagerLate) /\ 1 \in 1..Len(Tail(mail))
      BY <3>1, EmptySeq, <2>1, HeadTailProperties
    <3> HIDE DEF R
    <3> QED
      BY <2>1, <3>2, ElementOfSeq
  <2>3. CASE mail' = <<>>
    BY <1>0, <1>1, <2>1, <2>3
  <2>4. CASE mail' # <<>>
    <3> DEFINE first == mail'[1]
    <3>1. first \in 0..ManagerLate
      BY <2>2, <2>4
    <3> HIDE DEF first
    <3>2. 0 + first <= period + Late + ManagerLate
      BY <1>0, <3>1
    <3> QED
      BY <1>1, <2>1, <2>4, <3>2 DEF first
  <2> QED
    BY <2>3, <2>4
<1>6. CASE Expire
  BY <1>1, <1>2, <1>6 DEF Expire
<1>7. CASE Tick
  <2>1. Counts(Main)
    BY <1>7 DEF Serviced, Counts, Tick
  <2>2. left'[Main] = left[Main] - 1 /\ age' \in {0, age + 1}
    BY <1>0, <1>7, <2>1 DEF Tick
  <2>3. mail = <<>> <=> mail' = <<>>
    BY <1>0, <1>7 DEF Tick
  <2>4. mail # <<>> => mail'[1] = mail[1] - 1 /\ mail[1] \in 0..ManagerLate
    BY <1>0, <1>7 DEF Tick
  <2> QED
    BY <1>0, <1>1, <1>2, <2>2, <2>3, <2>4
<1>8. CASE UNCHANGED vars
  BY <1>1, <1>2, <1>8 DEF vars
<1> HIDE DEF R
<1> QED
  BY <1>3, <1>4, <1>5, <1>6, <1>7, <1>8 DEF Next, Looks, R

\* The next ping that counts always comes in time, whatever the other loops do.
THEOREM ResetAlwaysComes == Spec => []ResetComes
<1>1. TypeOK /\ ResetComes /\ [Next]_vars => (TypeOK /\ ResetComes)'
  BY TypeStep, ResetStep
<1>2. Init => TypeOK /\ ResetComes
  BY TypeInit, ResetInit
<1> QED
  BY <1>1, <1>2, PTL DEF Spec

LEMMA AgeBound ==
  ASSUME TypeOK, ResetComes, Serviced PROVE age <= Period(Main) + Late + ManagerLate
<1> DEFINE period == Period(Main)
<1>0. /\ period \in Nat /\ Late \in Nat /\ ManagerLate \in Nat
      /\ age \in Nat /\ left[Main] \in Nat
      /\ mail \in Seq(0..ManagerLate)
  BY Bounds DEF TypeOK
<1>1. mail # <<>> => mail[1] \in 0..ManagerLate
  BY <1>0
<1>2. IF mail = <<>> THEN age + left[Main] <= period + Late
      ELSE age + mail[1] <= period + Late + ManagerLate
  BY DEF ResetComes
<1> HIDE DEF period
<1>3. age <= period + Late + ManagerLate
  BY <1>0, <1>1, <1>2
<1> QED
  BY <1>3 DEF period

NotExpired == Slack /\ Serviced => ~expired

LEMMA NotExpiredStep ==
  ASSUME TypeOK, ResetComes, NotExpired, [Next]_vars PROVE NotExpired'
<1> SUFFICES ASSUME Slack', Serviced' PROVE ~expired'
  BY DEF NotExpired
<1>1. Slack /\ Serviced /\ ~expired
  <2>1. UNCHANGED config /\ Serviced /\ Period(Main)' = Period(Main)
    BY ConfigNeverChanges, ServicedBefore
  <2> QED
    BY <2>1 DEF Slack, NotExpired, config
<1>2. ~(age > usec)
  <2>1. /\ Period(Main) \in Nat /\ Late \in Nat /\ ManagerLate \in Nat
        /\ age \in Nat /\ usec \in Nat
    BY Bounds, WatchdogAssumption DEF TypeOK
  <2> QED
    BY <1>1, <2>1, AgeBound DEF Slack
<1> QED
  BY <1>1, <1>2 DEF Next, vars, manager, ReadInterval, TakeEnvironment, ReturnAtOnce, Ping, PingFails,
                   Cancel, CloseGiven, Receive, Expire, Tick

LEMMA SlackFromHalf ==
  ASSUME TypeOK, WellInside PROVE Slack
<1>1. /\ Period(Main) \in Nat /\ Interval(Main) \in Nat /\ Late \in Nat /\ ManagerLate \in Nat
      /\ usec \in Nat /\ divisor \in Nat
  BY PeriodNat, WatchdogAssumption DEF TypeOK
<1>2. divisor >= 2 /\ Interval(Main) >= divisor * UsecPerMs
  BY <1>1, WatchdogAssumption DEF WellInside
<1>3. 2 * Period(Main) <= Interval(Main)
  BY <1>1, <1>2, PeriodIsHalf DEF Period
<1> QED
  BY <1>1, <1>3 DEF Slack, WellInside

\* With half the interval or less as its period, a loop that runs keeps the
\* service alive as long as the event loop and the manager together are late
\* by no more than the other half, and however the pings, the manager's reads
\* and a child's loop interleave.
THEOREM WatchdogIsServiced == Spec => []LateSlotTolerated
<1> DEFINE I == TypeOK /\ ResetComes /\ NotExpired
<1>1. Init => I
  BY TypeInit, ResetInit DEF Init, NotExpired
<1>2. I /\ [Next]_vars => I'
  BY TypeStep, ResetStep, NotExpiredStep
<1>3. I => LateSlotTolerated
  <2> SUFFICES ASSUME I, WellInside, Serviced
               PROVE  ~expired /\ age <= usec
    BY DEF LateSlotTolerated
  <2>1. Slack
    BY SlackFromHalf
  <2>2. age <= Period(Main) + Late + ManagerLate
    BY AgeBound
  <2>3. /\ Period(Main) \in Nat /\ Late \in Nat /\ ManagerLate \in Nat
        /\ age \in Nat /\ usec \in Nat
    BY Bounds, WatchdogAssumption DEF TypeOK
  <2> QED
    BY <2>1, <2>2, <2>3 DEF NotExpired, Slack
<1> QED
  BY <1>1, <1>2, <1>3, PTL DEF Spec

-----------------------------------------------------------------------------
(* The distance of pings *)

\* The time a loop has between two pings at the most
Spacing == [p \in Procs |-> Period(p) + Late]

\* The ping at place i was sent by s[i].  Those of one loop are a shortest
\* period apart, and its next one is due no sooner than a period after them.
Spaced(s) ==
  /\ \A i, j \in DOMAIN mail : i < j /\ s[i] = s[j] => mail[i] + UsecPerMs <= mail[j]
  /\ \A i \in DOMAIN mail :
       /\ pc[s[i]] # "start"
       /\ pc[s[i]] = "running" => mail[i] + Spacing[s[i]] <= left[s[i]] + ManagerLate

PingsApart == \E s \in [DOMAIN mail -> Procs] : Spaced(s)

LEMMA PeriodIsLong ==
  ASSUME TypeOK, NEW p \in Procs PROVE UsecPerMs <= Period(p)
<1> DEFINE i == Interval(p)
<1> DEFINE ms == WatchdogPeriodMs(i, divisor)
<1>1. i \in Nat /\ divisor \in Nat \ {0} /\ UsecPerMs \in Nat \ {0}
  BY PeriodNat, WatchdogAssumption DEF TypeOK
<1>2. ms \in Nat
  BY <1>1, PeriodType
<1>3. 1 <= ms
  <2> DEFINE n == (i \div divisor) \div UsecPerMs
  <2>1. ms = IF n < 1 THEN 1 ELSE n
    BY DEF WatchdogPeriodMs, MIN_PERIOD_MS
  <2> HIDE DEF n
  <2> QED
    BY <1>2, <2>1
<1> HIDE DEF ms
<1>4. 1 * UsecPerMs <= ms * UsecPerMs
  BY <1>1, <1>2, <1>3, ProductGrows
<1> QED
  BY <1>1, <1>4 DEF Period, ms, i

LEMMA QuotientsDiffer ==
  ASSUME NEW u \in Nat \ {0}, NEW x \in Nat, NEW y \in Nat, x + u <= y
  PROVE  x \div u # y \div u
  OBVIOUS

LEMMA QuotientGrows ==
  ASSUME NEW u \in Nat \ {0}, NEW x \in Nat, NEW y \in Nat, x <= y
  PROVE  x \div u \in Nat /\ y \div u \in Nat /\ x \div u <= y \div u
<1> DEFINE p == x \div u
           q == y \div u
<1>1. p \in Nat /\ q \in Nat /\ u * p <= x /\ y < u * (q + 1)
  OBVIOUS
<1> HIDE DEF p, q
<1>2. ~(q + 1 <= p)
  <2> SUFFICES ASSUME q + 1 <= p PROVE FALSE
    OBVIOUS
  <2>1. (q + 1) * u <= p * u
    BY <1>1, ProductGrows
  <2>2. u * (q + 1) = (q + 1) * u /\ u * p = p * u
    BY <1>1
  <2> QED
    BY <1>1, <2>1, <2>2
<1>3. p <= q
  BY <1>1, <1>2
<1> QED
  BY <1>1, <1>3 DEF p, q

\* As many pings of one loop as fit a shortest period apart into the time that
\* a ping lies on the socket: their countdowns fall into different periods.
LEMMA ApartIsFew == TypeOK /\ PingsApart => NoFlood
<1> SUFFICES ASSUME TypeOK, NEW s \in [DOMAIN mail -> Procs], Spaced(s) PROVE NoFlood
  BY DEF PingsApart
<1> DEFINE u == UsecPerMs
           last == ManagerLate \div u
           slots == Procs \X (0..last)
           f == [i \in DOMAIN mail |-> <<s[i], mail[i] \div u>>]
<1>1. u \in Nat \ {0} /\ ManagerLate \in Nat /\ IsFiniteSet(Procs)
  BY WatchdogAssumption
<1>2. DOMAIN mail = 1..Len(mail) /\ Len(mail) \in Nat /\ \A i \in DOMAIN mail : mail[i] \in 0..ManagerLate
  <2>1. mail \in Seq(0..ManagerLate)
    BY DEF TypeOK
  <2>2. DOMAIN mail = 1..Len(mail) /\ Len(mail) \in Nat
    BY <2>1
  <2>3. ASSUME NEW i \in DOMAIN mail PROVE mail[i] \in 0..ManagerLate
    BY <2>1, <2>2, <2>3, ElementOfSeq
  <2> QED
    BY <2>2, <2>3
<1>3. last \in Nat
  BY <1>1, QuotientGrows
<1>4. \A i \in DOMAIN mail : mail[i] \div u \in 0..last
  <2> TAKE i \in DOMAIN mail
  <2>1. mail[i] \in Nat /\ mail[i] <= ManagerLate
    BY <1>1, <1>2
  <2>2. mail[i] \div u \in Nat /\ mail[i] \div u <= last
    BY <1>1, <2>1, QuotientGrows
  <2> QED
    BY <1>3, <2>2
<1>5. \A i, j \in DOMAIN mail : i < j => f[i] # f[j]
  <2> SUFFICES ASSUME NEW i \in DOMAIN mail, NEW j \in DOMAIN mail, i < j, s[i] = s[j]
               PROVE  mail[i] \div u # mail[j] \div u
    OBVIOUS
  <2>1. mail[i] + u <= mail[j] /\ mail[i] \in Nat /\ mail[j] \in Nat
    BY <1>1, <1>2 DEF Spaced
  <2> QED
    BY <1>1, <2>1, QuotientsDiffer
<1>6. f \in [DOMAIN mail -> slots]
  BY <1>4
<1>7. \A i, j \in DOMAIN mail : f[i] = f[j] => i = j
  <2> HIDE DEF f
  <2> QED
    BY <1>2, <1>5
<1>8. f \in Injection(DOMAIN mail, slots)
  BY <1>6, <1>7 DEF Injection, IsInjective
<1>9. IsFiniteSet(0..last) /\ Cardinality(0..last) = last + 1
  BY <1>3, FS_Interval
<1>10. IsFiniteSet(slots) /\ Cardinality(slots) = Cardinality(Procs) * (last + 1)
  BY <1>1, <1>9, FS_Product
<1>11. Cardinality(DOMAIN mail) <= Cardinality(slots)
  BY <1>8, <1>10, FS_Injection
<1>12. Cardinality(DOMAIN mail) = Len(mail)
  <2> DEFINE n == Len(mail)
  <2>1. 1 \in Int /\ n \in Int /\ n \in Nat
    BY <1>2
  <2> HIDE DEF n
  <2>2. Cardinality(1..n) = IF 1 > n THEN 0 ELSE n - 1 + 1
    BY <2>1, FS_Interval, Zenon
  <2>3. Cardinality(1..n) = n
    BY <2>1, <2>2
  <2> QED
    BY <1>2, <2>3 DEF n
<1>13. MIN_PERIOD_MS * UsecPerMs = u
  BY <1>1 DEF MIN_PERIOD_MS
<1> QED
  BY <1>10, <1>11, <1>12, <1>13 DEF NoFlood

LEMMA ApartStep == TypeOK /\ PingsApart /\ [Next]_vars => PingsApart'
<1> SUFFICES ASSUME TypeOK, [Next]_vars, NEW s \in [DOMAIN mail -> Procs], Spaced(s)
             PROVE  PingsApart'
  BY DEF PingsApart
<1>0. /\ Late \in Nat /\ ManagerLate \in Nat /\ UsecPerMs \in Nat
      /\ \A p \in Procs : Period(p) \in Nat /\ UsecPerMs <= Period(p) /\ left[p] \in Nat
                          /\ Spacing[p] = Period(p) + Late /\ Spacing[p] \in Nat
      /\ mail \in Seq(0..ManagerLate)
      /\ DOMAIN mail = 1..Len(mail) /\ Len(mail) \in Nat
      /\ \A i \in DOMAIN mail : mail[i] \in Nat /\ mail[i] <= ManagerLate /\ s[i] \in Procs
  <2>1. /\ Late \in Nat /\ ManagerLate \in Nat /\ UsecPerMs \in Nat
        /\ \A p \in Procs : Period(p) \in Nat /\ UsecPerMs <= Period(p) /\ left[p] \in Nat
    BY Bounds, PeriodIsLong
  <2>2. \A p \in Procs : Spacing[p] = Period(p) + Late /\ Spacing[p] \in Nat
    BY <2>1 DEF Spacing
  <2>3. mail \in Seq(0..ManagerLate)
    BY DEF TypeOK
  <2>4. DOMAIN mail = 1..Len(mail) /\ Len(mail) \in Nat
    BY <2>3, LenProperties
  <2>5. \A i \in DOMAIN mail : mail[i] \in 0..ManagerLate
    BY <2>3, <2>4, ElementOfSeq
  <2> QED
    BY <2>1, <2>2, <2>3, <2>4, <2>5
<1>1. \A p \in Procs : pc[p] # "start" => Spacing'[p] = Spacing[p]
  BY IntervalStep DEF Spacing
<1>2. ASSUME UNCHANGED <<mail, left>>,
             \A p \in Procs : pc'[p] = pc[p] \/ pc'[p] \notin {"start", "running"}
      PROVE  PingsApart'
  <2>1. Spaced(s)'
    BY <1>0, <1>1, <1>2 DEF Spaced
  <2> QED
    BY <1>2, <2>1 DEF PingsApart
<1>3. ASSUME NEW p \in Procs,
             Looks(p) \/ ReturnAtOnce(p) \/ PingFails(p) \/ Cancel(p) \/ CloseGiven(p)
      PROVE  PingsApart'
  BY <1>2, <1>3 DEF Looks, ReadInterval, TakeEnvironment, loops, ReturnAtOnce, PingFails, Cancel, CloseGiven, Goto, manager, TypeOK
<1>4. ASSUME NEW p \in Procs, Ping(p) PROVE PingsApart'
  <2> DEFINE n == Len(mail) + 1
             t == [i \in DOMAIN mail' |-> IF i = n THEN p ELSE s[i]]
  <2>1. /\ mail' = Append(mail, ManagerLate)
        /\ left' = [left EXCEPT ![p] = Period(p) + Late]
        /\ pc' = [pc EXCEPT ![p] = "running"]
    BY <1>4 DEF Ping, Goto, Delivered, Opened, TypeOK
  <2>2. /\ DOMAIN mail' = 1..n /\ mail'[n] = ManagerLate
        /\ \A i \in DOMAIN mail : mail'[i] = mail[i]
    BY <1>0, <2>1
  <2>3. /\ pc'[p] = "running" /\ left'[p] = Period(p) + Late
        /\ \A q \in Procs \ {p} : pc'[q] = pc[q] /\ left'[q] = left[q]
    BY <2>1 DEF TypeOK
  <2>9. Spacing'[p] = Spacing[p]
    BY <1>4, ConfigNeverChanges, EnvKept DEF Ping, Spacing
  <2>4. \A i \in DOMAIN mail : s[i] = p => mail[i] + Period(p) <= ManagerLate
    <3> SUFFICES ASSUME NEW i \in DOMAIN mail, s[i] = p PROVE mail[i] + Period(p) <= ManagerLate
      OBVIOUS
    <3>1. pc[p] = "running" /\ left[p] <= Late
      BY <1>4 DEF Ping, Due, Spaced
    <3>2. mail[i] + Spacing[p] <= left[p] + ManagerLate
      BY <3>1 DEF Spaced
    <3>3. Spacing[p] = Period(p) + Late
      BY DEF Spacing
    <3>4. mail[i] \in Nat
      BY <1>0
    <3>5. mail[i] + (Period(p) + Late) <= left[p] + ManagerLate
      BY <3>2, <3>3
    <3> HIDE DEF Spaced
    <3> QED
      BY <1>0, <3>1, <3>4, <3>5
  <2>5. t \in [DOMAIN mail' -> Procs]
    BY <1>0, <2>2
  <2>6. /\ t[n] = p /\ n \in Nat
        /\ \A i \in DOMAIN mail' : i = n \/ (i \in DOMAIN mail /\ i < n /\ t[i] = s[i])
    BY <1>0, <2>2
  <2> HIDE DEF t, n
  <2>7. ASSUME NEW i \in DOMAIN mail', NEW j \in DOMAIN mail', i < j, t[i] = t[j]
        PROVE  mail'[i] + UsecPerMs <= mail'[j]
    <3>1. i \in DOMAIN mail /\ t[i] = s[i]
      BY <1>0, <2>2, <2>6, <2>7 DEF n
    <3>2. CASE j = n
      <4>1. s[i] = p /\ mail'[i] = mail[i] /\ mail'[j] = ManagerLate
        BY <2>2, <2>6, <2>7, <3>1, <3>2
      <4>2. mail[i] + Period(p) <= ManagerLate /\ mail[i] \in Nat
        BY <1>0, <2>4, <3>1, <4>1
      <4> QED
        BY <1>0, <4>1, <4>2
    <3>3. CASE j # n
      BY <2>2, <2>6, <2>7, <3>1, <3>3 DEF Spaced
    <3> QED
      BY <3>2, <3>3
  <2>8. ASSUME NEW i \in DOMAIN mail'
        PROVE  /\ pc'[t[i]] # "start"
               /\ pc'[t[i]] = "running" => mail'[i] + Spacing'[t[i]] <= left'[t[i]] + ManagerLate
    <3>1. CASE i = n
      BY <1>0, <2>2, <2>3, <2>6, <2>9, <3>1
    <3>2. CASE i # n /\ s[i] = p
      <4>1. t[i] = p /\ mail'[i] = mail[i] /\ i \in DOMAIN mail /\ mail[i] + Period(p) <= ManagerLate
        BY <2>2, <2>4, <2>6, <3>2
      <4>2. mail[i] + Period(p) + Late <= Period(p) + Late + ManagerLate
        BY <1>0, <4>1
      <4>3. left'[t[i]] = Period(p) + Late /\ Spacing'[t[i]] = Period(p) + Late
        BY <1>0, <2>3, <2>9, <4>1
      <4>4. mail'[i] + (Period(p) + Late) <= (Period(p) + Late) + ManagerLate
        BY <1>0, <4>1, <4>2
      <4>5. pc'[t[i]] = "running"
        BY <2>3, <4>1
      <4> QED
        BY <4>3, <4>4, <4>5
    <3>3. CASE i # n /\ s[i] # p
      <4>1. t[i] = s[i] /\ s[i] \in Procs \ {p} /\ mail'[i] = mail[i] /\ i \in DOMAIN mail
        BY <1>0, <2>2, <2>6, <3>3
      <4> QED
        BY <1>1, <2>3, <4>1 DEF Spaced
    <3> QED
      BY <3>1, <3>2, <3>3
  <2> QED
    BY <2>5, <2>7, <2>8 DEF PingsApart, Spaced
<1>5. CASE Receive
  <2> DEFINE t == [i \in DOMAIN mail' |-> s[i + 1]]
  <2>1. mail # <<>> /\ mail' = Tail(mail) /\ UNCHANGED <<left, pc>>
    BY <1>5 DEF Receive, loops
  <2>2. \A i \in DOMAIN mail' : /\ i \in Nat /\ i + 1 \in DOMAIN mail
                                /\ mail'[i] = mail[i + 1]
    BY <1>0, <2>1
  <2>3. t \in [DOMAIN mail' -> Procs]
    BY <1>0, <2>2
  <2>4. \A i \in DOMAIN mail' : t[i] = s[i + 1]
    OBVIOUS
  <2> HIDE DEF t
  <2>5. ASSUME NEW i \in DOMAIN mail', NEW j \in DOMAIN mail', i < j, t[i] = t[j]
        PROVE  mail'[i] + UsecPerMs <= mail'[j]
    <3>1. s[i + 1] = s[j + 1] /\ i + 1 < j + 1
      BY <2>2, <2>4, <2>5
    <3>2. mail[i + 1] + UsecPerMs <= mail[j + 1]
      BY <2>2, <3>1 DEF Spaced
    <3> QED
      BY <2>2, <3>2
  <2>6. ASSUME NEW i \in DOMAIN mail'
        PROVE  /\ pc'[t[i]] # "start"
               /\ pc'[t[i]] = "running" => mail'[i] + Spacing'[t[i]] <= left'[t[i]] + ManagerLate
    <3>1. t[i] = s[i + 1] /\ i + 1 \in DOMAIN mail /\ mail'[i] = mail[i + 1]
      BY <2>2, <2>4
    <3> QED
      BY <1>0, <1>1, <2>1, <2>2, <3>1 DEF Spaced
  <2> QED
    BY <2>3, <2>5, <2>6 DEF PingsApart, Spaced
<1>6. CASE Expire
  BY <1>2, <1>6 DEF Expire, loops
<1>7. CASE Tick
  <2>1. /\ DOMAIN mail' = DOMAIN mail /\ pc' = pc
        /\ \A i \in DOMAIN mail : mail'[i] = mail[i] - 1
        /\ \A p \in Procs : left'[p] = IF Counts(p) THEN left[p] - 1 ELSE left[p]
    BY <1>7 DEF Tick
  <2>2. \A i \in DOMAIN mail : pc[s[i]] = "running" => left'[s[i]] = left[s[i]] - 1
    BY <1>0, <2>1 DEF Counts
  <2>3. ASSUME NEW i \in DOMAIN mail, NEW j \in DOMAIN mail, i < j, s[i] = s[j]
        PROVE  mail'[i] + UsecPerMs <= mail'[j]
    <3>1. mail[i] + UsecPerMs <= mail[j]
      BY <2>3 DEF Spaced
    <3> QED
      BY <1>0, <2>1, <3>1
  <2>4. ASSUME NEW i \in DOMAIN mail
        PROVE  /\ pc[s[i]] # "start"
               /\ pc[s[i]] = "running" => mail'[i] + Spacing'[s[i]] <= left'[s[i]] + ManagerLate
    <3>1. /\ pc[s[i]] # "start"
          /\ pc[s[i]] = "running" => mail[i] + Spacing[s[i]] <= left[s[i]] + ManagerLate
      BY DEF Spaced
    <3>2. mail[i] \in Nat /\ left[s[i]] \in Nat /\ mail'[i] = mail[i] - 1
      BY <1>0, <2>1
    <3>4. Spacing[s[i]] \in Nat /\ ManagerLate \in Nat
      BY <1>0
    <3>3. pc[s[i]] = "running" => mail[i] - 1 + Spacing[s[i]] <= left[s[i]] - 1 + ManagerLate
      <4> HIDE DEF Spacing
      <4> QED
        BY <3>1, <3>2, <3>4
    <3> QED
      BY <1>0, <1>1, <2>2, <3>1, <3>2, <3>3
  <2> QED
    BY <2>1, <2>3, <2>4 DEF PingsApart, Spaced
<1>8. CASE UNCHANGED vars
  BY <1>2, <1>8 DEF vars, loops, manager
<1> QED
  BY <1>3, <1>4, <1>5, <1>6, <1>7, <1>8 DEF Next, Looks

\* No interval and no divisor make a loop flood the socket: there are never more
\* pings on it than one for each loop and each shortest period that a ping may
\* lie there.
THEOREM PingsNeverFlood == Spec => []NoFlood
<1>1. Init => PingsApart
  <2> SUFFICES ASSUME Init PROVE PingsApart
    OBVIOUS
  <2>1. DOMAIN mail = {}
    BY DEF Init
  <2>2. [i \in {} |-> Main] \in [DOMAIN mail -> Procs]
    BY <2>1
  <2> QED
    BY <2>1, <2>2 DEF PingsApart, Spaced
<1>2. TypeOK /\ PingsApart /\ [Next]_vars => (TypeOK /\ PingsApart)'
  BY TypeStep, ApartStep
<1> QED
  BY <1>1, <1>2, TypeInit, ApartIsFew, PTL DEF Spec

-----------------------------------------------------------------------------
(* The socket *)

\* However a loop ends, by itself, by a failed ping or by a cancellation, it
\* closes the socket of the notifier it made.
THEOREM OwnSocketAlwaysClosed == Spec => []OwnSocketClosed
<1> DEFINE Unopened == \A p \in Procs : pc[p] = "start" => ~sock[p]
           I == TypeOK /\ Unopened /\ OwnSocketClosed
<1>1. Init => I
  BY TypeInit DEF Init, OwnSocketClosed
<1>2. I /\ [Next]_vars => I'
  <2> SUFFICES ASSUME I, [Next]_vars PROVE Unopened' /\ OwnSocketClosed'
    BY TypeStep
  <2> USE DEF OwnSocketClosed, Counts, Goto, TypeOK, config, loops
  <2>1. ASSUME NEW p \in Procs, Looks(p) \/ ReturnAtOnce(p) PROVE (Unopened /\ OwnSocketClosed)'
    BY <2>1 DEF Looks, ReadInterval, TakeEnvironment, ReturnAtOnce
  <2>2. ASSUME NEW p \in Procs, Ping(p) PROVE (Unopened /\ OwnSocketClosed)'
    BY <2>2 DEF Ping, Opened
  <2>3. ASSUME NEW p \in Procs, PingFails(p) \/ Cancel(p) PROVE (Unopened /\ OwnSocketClosed)'
    <3>1. pc'[p] \notin {"start", "running"}
          /\ \A q \in Procs \ {p} : pc'[q] = pc[q] /\ sock'[q] = sock[q]
      BY <2>3 DEF PingFails, Cancel, SocketAtEnd, Opened
    <3>2. owned' = owned /\ (owned => sock'[p] = FALSE)
      <4>1. sock \in [Procs -> BOOLEAN] /\ Opened(p) \in [Procs -> BOOLEAN]
        BY DEF Opened
      <4>2. owned' = owned /\ \E s \in {sock, Opened(p)} : owned => sock' = [s EXCEPT ![p] = FALSE]
        BY <2>3 DEF PingFails, Cancel, SocketAtEnd
      <4> QED
        BY <4>1, <4>2
    <3> QED
      BY <3>1, <3>2
  <2>4. ASSUME NEW p \in Procs, CloseGiven(p) PROVE (Unopened /\ OwnSocketClosed)'
    BY <2>4 DEF CloseGiven
  <2>5. CASE Receive \/ Expire \/ Tick \/ UNCHANGED vars
    BY <2>5 DEF Receive, Expire, Tick, vars
  <2> QED
    BY <2>1, <2>2, <2>3, <2>4, <2>5 DEF Next, Looks
<1> QED
  BY <1>1, <1>2, PTL DEF Spec

-----------------------------------------------------------------------------
(* A loop that has ended *)

\* The interval is not for a child that inherited the environment.
OnlyMainPings ==
  pidenv = "main" /\ asked = None =>
    \A p \in Procs \ {Main} : interval_us[p] \in {None, 0} /\ pc[p] # "running"

\* Once the loop of the main process has ended, nobody keeps the timer from
\* expiring: it is not started again, no ping is added to those on the socket,
\* and when they are read the age of the timer only grows.
NoReprieve ==
  [][ pidenv = "main" /\ asked = None /\ usec # 0 /\ ~Counts(Main) =>
        /\ ~Counts(Main)'
        /\ Len(mail') <= Len(mail)
        /\ mail = <<>> => mail' = <<>> /\ age <= age' ]_vars

LEMMA OnlyMainPingsStep == TypeOK /\ OnlyMainPings /\ [Next]_vars => OnlyMainPings'
<1> SUFFICES ASSUME TypeOK, OnlyMainPings, [Next]_vars, pidenv' = "main", asked' = None,
                    NEW q \in Procs \ {Main}
             PROVE  interval_us'[q] \in {None, 0} /\ pc'[q] # "running"
  BY DEF OnlyMainPings
<1>1. pidenv = "main" /\ interval_us[q] \in {None, 0} /\ pc[q] # "running"
  BY ConfigNeverChanges DEF OnlyMainPings, config
<1> USE DEF Goto, TypeOK
<1>2. ASSUME NEW p \in Procs, Ping(p) PROVE interval_us'[q] \in {None, 0} /\ pc'[q] # "running"
  <2>1. p # q
    BY <1>1, <1>2 DEF Ping, Due
  <2> QED
    BY <1>1, <1>2, <2>1 DEF Ping, env
<1>3. ASSUME NEW p \in Procs, ReturnAtOnce(p) \/ PingFails(p) \/ Cancel(p) \/ CloseGiven(p)
      PROVE  interval_us'[q] \in {None, 0} /\ pc'[q] # "running"
  BY <1>1, <1>3 DEF ReturnAtOnce, PingFails, Cancel, CloseGiven, env
<1>5. ASSUME NEW p \in Procs, Looks(p) PROVE interval_us'[q] \in {None, 0} /\ pc'[q] # "running"
  BY <1>1, <1>5 DEF Looks, ReadInterval, TakeEnvironment, WatchdogEnabled, loops
<1>4. CASE Receive \/ Expire \/ Tick \/ UNCHANGED vars
  BY <1>1, <1>4 DEF Receive, Expire, Tick, vars, loops, env
<1> QED
  BY <1>2, <1>3, <1>4, <1>5 DEF Next, Looks

\* The safety behind FailureNoticed, for any number of processes that inherited
\* the environment and any lateness.
THEOREM DeadLoopsGetNoReprieve == Spec => NoReprieve
<1> DEFINE A == pidenv = "main" /\ asked = None /\ usec # 0 /\ ~Counts(Main) =>
                  /\ ~Counts(Main)'
                  /\ Len(mail') <= Len(mail)
                  /\ mail = <<>> => mail' = <<>> /\ age <= age'
<1>1. Init => TypeOK /\ OnlyMainPings
  BY TypeInit, WatchdogAssumption DEF Init, OnlyMainPings
<1>2. TypeOK /\ OnlyMainPings /\ [Next]_vars => (TypeOK /\ OnlyMainPings)'
  BY TypeStep, OnlyMainPingsStep
<1>3. TypeOK /\ OnlyMainPings /\ [Next]_vars => [A]_vars
  <2> SUFFICES ASSUME TypeOK, OnlyMainPings, Next, pidenv = "main", asked = None, usec # 0,
                      ~Counts(Main)
               PROVE  /\ ~Counts(Main)'
                      /\ Len(mail') <= Len(mail)
                      /\ mail = <<>> => mail' = <<>> /\ age <= age'
    OBVIOUS
  <2>1. /\ mail \in Seq(0..ManagerLate) /\ Len(mail) \in Nat /\ age \in Nat
        /\ pc \in [Procs -> {"start", "running", "off", "failed", "cancelled"}]
        /\ Main \in Procs /\ pc[Main] \notin {"start", "running"}
    BY WatchdogAssumption DEF TypeOK, Counts
  <2>2. ASSUME NEW p \in Procs PROVE ~Ping(p)
    BY <2>1 DEF Ping, Due, OnlyMainPings
  <2>3. ASSUME NEW p \in Procs,
               Looks(p) \/ ReturnAtOnce(p) \/ PingFails(p) \/ Cancel(p) \/ CloseGiven(p)
        PROVE  pc'[Main] \notin {"start", "running"} /\ UNCHANGED <<mail, age>>
    BY <2>1, <2>3 DEF Looks, ReadInterval, TakeEnvironment, loops, ReturnAtOnce, PingFails, Cancel, CloseGiven, Goto, manager
  <2>4. CASE Receive
    BY <2>1, <2>4 DEF Receive, loops, Counts
  <2>5. CASE Expire
    BY <2>1, <2>5 DEF Expire, loops, Counts
  <2>6. CASE Tick
    <3>1. mail' = [i \in 1..Len(mail) |-> mail[i] - 1] /\ age' = age + 1 /\ UNCHANGED pc
      BY <2>1, <2>6 DEF Tick
    <3>2. Len(mail') = Len(mail) /\ (mail = <<>> => mail' = <<>>)
      BY <2>1, <3>1
    <3> QED
      BY <2>1, <3>1, <3>2 DEF Counts
  <2> QED
    BY <2>1, <2>2, <2>3, <2>4, <2>5, <2>6 DEF Next, Looks, Counts
<1> QED
  BY <1>1, <1>2, <1>3, PTL DEF Spec, NoReprieve
=============================================================================
