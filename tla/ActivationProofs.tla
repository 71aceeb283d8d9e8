-------------------------- MODULE ActivationProofs --------------------------
(***************************************************************************)
(* Proofs about ListenFds and Restart, the two ways a service comes by its *)
(* descriptors.  install_listen_fds puts the right file under every target *)
(* and every name beside its file, for any descriptors handed in, any      *)
(* numbers that are open already and wherever it fails.  And what an       *)
(* answered barrier vouches for is found again after a restart, for any    *)
(* files, names, sockets, messages and lives.                              *)
(*                                                                         *)
(* Both read LISTEN_FDNAMES as DescriptorNames says and need the same      *)
(* facts about sequences of sequences, so one module proves things about   *)
(* both.                                                                   *)
(***************************************************************************)
EXTENDS ListenFds, Restart, FiniteSetTheorems, SequenceTheorems, WellFoundedInduction, TLAPS

(* Sequences of sequences *)

\* Induction, over a set and not over an operator.
LEMMA Induct ==
  ASSUME NEW S, 0 \in S, \A n \in Nat : n \in S => n + 1 \in S
  PROVE  Nat \subseteq S
<1> SUFFICES ASSUME NEW m \in Nat, m \notin S PROVE FALSE
  OBVIOUS
<1> DEFINE T == {n \in Nat : n \notin S}
<1>1. T # {} /\ T \subseteq Nat
  OBVIOUS
<1>2. \E x \in T : \A y \in T : ~(<<y, x>> \in OpToRel(<, Nat))
  BY <1>1, NatLessThanWellFounded, WFMin, Zenon
<1>3. PICK x \in T : \A y \in T : ~(<<y, x>> \in OpToRel(<, Nat))
  BY <1>2
<1>4. \A y \in T : ~(y < x)
  BY <1>3, Zenon DEF OpToRel
<1> QED
  BY <1>4

\* The function by which FlattenSeq is defined
Flattens(f, seqs) == f = [i \in 1..Len(seqs) |-> IF i = 1 THEN seqs[i] ELSE f[i - 1] \o seqs[i]]

LEMMA FlattenExists ==
  ASSUME NEW S, NEW seqs \in Seq(Seq(S))
  PROVE  \E f : Flattens(f, seqs)
<1> DEFINE Up(f, n) == /\ f \in [1..n -> Seq(S)]
                       /\ \A i \in 1..n : f[i] = IF i = 1 THEN seqs[i] ELSE f[i - 1] \o seqs[i]
           T == {n \in Nat : n <= Len(seqs) => \E f : Up(f, n)}
<1>0. Len(seqs) \in Nat /\ \A i \in 1..Len(seqs) : seqs[i] \in Seq(S)
  BY ElementOfSeq, LenProperties
<1>1. 0 \in T
  <2>1. Up([i \in {} |-> <<>>], 0)
    OBVIOUS
  <2> QED
    BY <2>1
<1>2. ASSUME NEW n \in Nat, n \in T PROVE n + 1 \in T
  <2> HIDE DEF Up
  <2> SUFFICES ASSUME n + 1 <= Len(seqs) PROVE \E f : Up(f, n + 1)
    OBVIOUS
  <2>1. PICK f : Up(f, n)
    BY <1>0, <1>2
  <2> USE DEF Up
  <2> DEFINE x == IF n + 1 = 1 THEN seqs[n + 1] ELSE f[n] \o seqs[n + 1]
             g == [i \in 1..(n + 1) |-> IF i = n + 1 THEN x ELSE f[i]]
  <2>2. x \in Seq(S)
    <3>1. seqs[n + 1] \in Seq(S)
      BY <1>0
    <3>2. n # 0 => f[n] \in Seq(S)
      BY <2>1
    <3> QED
      BY <3>1, <3>2, ConcatProperties
  <2> HIDE DEF x
  <2>3. g \in [1..(n + 1) -> Seq(S)]
    BY <2>1, <2>2
  <2>4. \A i \in 1..(n + 1) : g[i] = IF i = 1 THEN seqs[i] ELSE g[i - 1] \o seqs[i]
    <3> TAKE i \in 1..(n + 1)
    <3>1. CASE i = n + 1
      BY <3>1 DEF x
    <3>2. CASE i # n + 1
      <4>1. i \in 1..n /\ g[i] = f[i] /\ (i # 1 => g[i - 1] = f[i - 1])
        BY <3>2
      <4> QED
        BY <2>1, <4>1
    <3> QED
      BY <3>1, <3>2
  <2> QED
    BY <2>3, <2>4
<1> HIDE DEF T
<1>3. Len(seqs) \in T
  BY <1>0, <1>1, <1>2, Induct
<1>4. PICK f : Up(f, Len(seqs))
  BY <1>0, <1>3 DEF T
<1> QED
  BY <1>4 DEF Flattens

\* What it is when there are sequences, one after another
LEMMA FlattenUnfolds ==
  ASSUME NEW S, NEW seqs \in Seq(Seq(S)), seqs # <<>>
  PROVE  \E f \in [1..Len(seqs) -> Seq(S)] :
           /\ FlattenSeq(seqs) = f[Len(seqs)]
           /\ f[1] = seqs[1]
           /\ \A i \in 1..Len(seqs) : i # 1 => f[i] = f[i - 1] \o seqs[i]
<1> DEFINE h == CHOOSE f : Flattens(f, seqs)
           T == {n \in Nat : n < Len(seqs) => h[n + 1] \in Seq(S)}
<1>0. Len(seqs) \in Nat \ {0} /\ \A i \in 1..Len(seqs) : seqs[i] \in Seq(S)
  BY ElementOfSeq, LenProperties, EmptySeq
<1>1. Flattens(h, seqs)
  BY FlattenExists
<1>2. FlattenSeq(seqs) = h[Len(seqs)]
  BY <1>0 DEF FlattenSeq, Flattens
<1> HIDE DEF h
<1>3. h[1] = seqs[1] /\ \A i \in 1..Len(seqs) : i # 1 => h[i] = h[i - 1] \o seqs[i]
  <2>1. 1 \in 1..Len(seqs)
    BY <1>0
  <2> QED
    BY <1>1, <2>1 DEF Flattens
<1>4. 0 \in T
  BY <1>0, <1>3
<1>5. ASSUME NEW n \in Nat, n \in T PROVE n + 1 \in T
  <2> SUFFICES ASSUME n + 1 < Len(seqs) PROVE h[n + 2] \in Seq(S)
    OBVIOUS
  <2> DEFINE m == n + 2
  <2>1. m \in 1..Len(seqs) /\ m # 1 /\ m - 1 = n + 1
    BY <1>0
  <2>2. h[n + 1] \in Seq(S)
    BY <1>0, <1>5
  <2> HIDE DEF m
  <2>3. h[m] = h[n + 1] \o seqs[m] /\ seqs[m] \in Seq(S)
    BY <1>0, <1>3, <2>1
  <2>4. h[m] \in Seq(S)
    BY <2>2, <2>3, ConcatProperties
  <2> QED
    BY <2>4 DEF m
<1>6. \A n \in Nat : n < Len(seqs) => h[n + 1] \in Seq(S)
  <2> HIDE DEF T
  <2>1. Nat \subseteq T
    BY <1>4, <1>5, Induct
  <2> QED
    BY <2>1 DEF T
<1>7. h \in [1..Len(seqs) -> Seq(S)]
  <2>1. \A i \in 1..Len(seqs) : h[i] \in Seq(S)
    <3> TAKE i \in 1..Len(seqs)
    <3>1. i - 1 \in Nat /\ i - 1 < Len(seqs) /\ (i - 1) + 1 = i
      BY <1>0
    <3> QED
      BY <1>6, <3>1
  <2> QED
    BY <1>1, <2>1 DEF Flattens
<1> QED
  BY <1>2, <1>3, <1>7

LEMMA FlattenType ==
  ASSUME NEW S, NEW seqs \in Seq(Seq(S))
  PROVE  FlattenSeq(seqs) \in Seq(S) /\ (seqs = <<>> => FlattenSeq(seqs) = <<>>)
<1>1. CASE seqs = <<>>
  BY <1>1, EmptySeq DEF FlattenSeq
<1>2. CASE seqs # <<>>
  <2>1. Len(seqs) \in 1..Len(seqs)
    BY <1>2, EmptySeq
  <2>2. PICK f \in [1..Len(seqs) -> Seq(S)] : FlattenSeq(seqs) = f[Len(seqs)]
    BY <1>2, FlattenUnfolds
  <2> QED
    BY <1>2, <2>1, <2>2
<1> QED
  BY <1>1, <1>2

\* Of sequences that are not empty: their number does not exceed the length of
\* the whole, equals it only for single elements, and those are then the whole.
LEMMA FlattenSingles ==
  ASSUME NEW S, NEW seqs \in Seq(Seq(S) \ {<<>>}), seqs # <<>>
  PROVE  /\ Len(seqs) <= Len(FlattenSeq(seqs))
         /\ Len(FlattenSeq(seqs)) = Len(seqs) <=> \A i \in 1..Len(seqs) : Len(seqs[i]) = 1
         /\ (\A i \in 1..Len(seqs) : Len(seqs[i]) = 1)
              => \A i \in 1..Len(seqs) : FlattenSeq(seqs)[i] = seqs[i][1]
<1>1. seqs \in Seq(Seq(S))
  BY SeqMonotonic
<1>2. PICK f \in [1..Len(seqs) -> Seq(S)] :
        /\ FlattenSeq(seqs) = f[Len(seqs)]
        /\ f[1] = seqs[1]
        /\ \A i \in 1..Len(seqs) : i # 1 => f[i] = f[i - 1] \o seqs[i]
  BY <1>1, FlattenUnfolds
<1>3. Len(seqs) \in Nat \ {0}
  BY <1>1, EmptySeq
<1>4. \A i \in 1..Len(seqs) : seqs[i] \in Seq(S) /\ Len(seqs[i]) \in Nat /\ Len(seqs[i]) >= 1
  <2> TAKE i \in 1..Len(seqs)
  <2>1. seqs[i] \in Seq(S) \ {<<>>}
    BY ElementOfSeq
  <2> QED
    BY <2>1, EmptySeq
<1>5. \A i \in 1..Len(seqs) : f[i] \in Seq(S) /\ Len(f[i]) \in Nat
  BY <1>2, LenProperties
<1> DEFINE Single(n) == \A i \in 1..n : Len(seqs[i]) = 1
           P(n) == /\ n <= Len(f[n])
                   /\ Len(f[n]) = n <=> Single(n)
                   /\ Single(n) => \A i \in 1..n : f[n][i] = seqs[i][1]
           T == {n \in Nat : n < Len(seqs) => P(n + 1)}
<1>6. 0 \in T
  <2>1. P(1)
    <3>1. 1 \in 1..Len(seqs) /\ f[1] = seqs[1]
      BY <1>2, <1>3
    <3> QED
      BY <1>4, <3>1
  <2> HIDE DEF P
  <2> QED
    BY <2>1
<1>7. ASSUME NEW n \in Nat, n \in T PROVE n + 1 \in T
  <2> DEFINE m == n + 1
             k == n + 2
  <2> SUFFICES ASSUME k <= Len(seqs) PROVE P(k)
    BY <1>3
  <2>1. P(m)
    <3> HIDE DEF P
    <3> QED
      BY <1>3, <1>7
  <2>2. m \in 1..Len(seqs) /\ k \in 1..Len(seqs) /\ k # 1 /\ k - 1 = m /\ k = m + 1 /\ m \in Nat
    BY <1>3
  <2> HIDE DEF m, k
  <2>3. f[k] = f[m] \o seqs[k]
    BY <1>2, <2>2
  <2>4. /\ Len(f[k]) = Len(f[m]) + Len(seqs[k])
        /\ \A i \in 1..Len(f[m]) + Len(seqs[k]) :
             f[k][i] = IF i <= Len(f[m]) THEN f[m][i] ELSE seqs[k][i - Len(f[m])]
    BY <1>4, <1>5, <2>2, <2>3, ConcatProperties
  <2>5. Single(k) <=> Single(m) /\ Len(seqs[k]) = 1
    BY <2>2
  <2>6. k <= Len(f[k]) /\ (Len(f[k]) = k <=> Single(k))
    <3> DEFINE a == Len(f[m])
               b == Len(seqs[k])
               l == Len(f[k])
    <3>1. a \in Nat /\ m <= a /\ (a = m <=> Single(m))
      BY <1>5, <2>1, <2>2
    <3>2. b \in Nat /\ b >= 1
      BY <1>4, <2>2
    <3>3. l = a + b
      BY <2>4
    <3> HIDE DEF Single, P, a, b, l
    <3>4. m + 1 <= l /\ (l = m + 1 <=> a = m /\ b = 1)
      BY <2>2, <3>1, <3>2, <3>3
    <3> QED
      BY <2>2, <2>5, <3>1, <3>4 DEF b, l
  <2>7. ASSUME Single(k), NEW i \in 1..k PROVE f[k][i] = seqs[i][1]
    <3>1. Len(f[m]) = m /\ Len(seqs[k]) = 1 /\ \A j \in 1..m : f[m][j] = seqs[j][1]
      BY <2>1, <2>5, <2>7
    <3>2. f[k][i] = IF i <= m THEN f[m][i] ELSE seqs[k][i - m]
      BY <2>2, <2>4, <3>1
    <3>3. CASE i <= m
      BY <2>2, <3>1, <3>2, <3>3
    <3>4. CASE ~(i <= m)
      <4>1. i = k /\ i - m = 1
        BY <2>2, <3>4
      <4> QED
        BY <3>2, <3>4, <4>1
    <3> QED
      BY <3>3, <3>4
  <2> QED
    BY <2>6, <2>7
<1>8. P(Len(seqs))
  <2> HIDE DEF T
  <2>1. Nat \subseteq T
    BY <1>6, <1>7, Induct
  <2>2. Len(seqs) - 1 \in Nat /\ Len(seqs) - 1 < Len(seqs) /\ (Len(seqs) - 1) + 1 = Len(seqs)
    BY <1>3
  <2> HIDE DEF P
  <2> QED
    BY <2>1, <2>2 DEF T
<1> QED
  BY <1>2, <1>8

-----------------------------------------------------------------------------
(* The files *)

Tables == [Fds -> Fds \cup {Closed}]

\* The part of the types that the call works with.
CallType ==
  /\ tab \in Tables /\ before \in Tables
  /\ fds \in Seq(Fds) /\ Len(fds) <= MaxGiven
  /\ scratch \in Seq(Fds)
  /\ moved \in 0..Len(fds)

\* How far the call has got at each point of it.
Progress ==
  /\ pc = "idle" => scratch = <<>> /\ moved = 0
  /\ pc = "dup_above" => moved = 0 /\ Len(scratch) < Len(fds)
  /\ pc = "dup2" => moved < Len(fds) /\ Len(scratch) = Len(fds)
  /\ pc = "clear_cloexec" => moved > 0 /\ Len(scratch) = Len(fds)
  /\ pc \in {"set_pid", "set_fds", "set_names"} => scratch = <<>>

\* The scratch copies are distinct, lie above the targets and took numbers that
\* were free at the call; none is closed before all are made.
ScratchApart ==
  /\ \A i \in DOMAIN scratch : scratch[i] >= ScratchFrom /\ before[scratch[i]] = Closed
  /\ \A i, j \in DOMAIN scratch : i # j => scratch[i] # scratch[j]
  /\ pc = "dup_above" => \A i \in DOMAIN scratch : tab[scratch[i]] # Closed

InstallInv == CallType /\ Progress /\ ScratchApart /\ InstallKeepsFiles

LEMMA InstallInit == Init => InstallInv
<1> SUFFICES ASSUME Init PROVE InstallInv
  OBVIOUS
<1>1. fds = <<>> /\ scratch = <<>> /\ moved = 0 /\ pc = "idle" /\ before = tab /\ tab \in Tables
  BY DEF Init, Tables
<1> QED
  BY <1>1, ListenFdsAssumption
     DEF InstallInv, CallType, Progress, ScratchApart, InstallKeepsFiles

\* Where the call ends, nothing is left of it.
LEMMA InstallLeaves ==
  ASSUME InstallInv, Leave, UNCHANGED tab
  PROVE  InstallInv'
<1>1. pc' = "idle" /\ fds' = <<>> /\ scratch' = <<>> /\ moved' = 0 /\ before' = tab /\ tab' = tab
  BY DEF Leave
<1> QED
  BY <1>1, ListenFdsAssumption
     DEF InstallInv, CallType, Progress, ScratchApart, InstallKeepsFiles

LEMMA InstallCall ==
  ASSUME InstallInv, Call
  PROVE  InstallInv'
<1>1. PICK n \in 0..MaxGiven : fds' \in [1..n -> Fds] /\ pc' = IF n = 0 THEN "set_pid" ELSE "dup_above"
  BY DEF Call
<1>2. fds' \in Seq(Fds) /\ Len(fds') = n /\ n \in Nat
  BY <1>1, DescriptorNamesAssumption
<1>3. scratch' = <<>> /\ moved' = 0 /\ tab' = tab /\ before' = tab /\ tab \in Tables
  BY DEF Call, InstallInv, CallType, Progress
<1>4. Placed' = {} /\ DOMAIN scratch' = {} /\ 1..moved' = {}
  BY <1>3 DEF Placed
<1>5. CallType' /\ Progress'
  BY <1>1, <1>2, <1>3 DEF CallType, Progress
<1>6. ScratchApart' /\ InstallKeepsFiles'
  BY <1>3, <1>4 DEF ScratchApart, InstallKeepsFiles
<1> QED
  BY <1>5, <1>6 DEF InstallInv

\* A copy of source i is made while nothing but other copies has changed.
LEMMA InstallDupAbove ==
  ASSUME InstallInv, DupAbove
  PROVE  InstallInv'
<1> DEFINE n == Len(scratch) + 1
<1>1. PICK f \in Fds :
        /\ LowestFrom(f, ScratchFrom)
        /\ tab' = [tab EXCEPT ![f] = tab[fds[n]]] /\ cloexec' = cloexec \ {f}
        /\ scratch' = Append(scratch, f)
  BY DEF DupAbove
<1>2. /\ pc = "dup_above" /\ tab[fds[n]] # Closed /\ UNCHANGED <<fds, moved, before>>
      /\ pc' = IF n = Len(fds) THEN "dup2" ELSE "dup_above"
  BY DEF DupAbove
<1>3. /\ moved = 0 /\ Len(scratch) \in Nat /\ Len(fds) \in Nat /\ n <= Len(fds)
      /\ fds[n] \in Fds /\ tab \in Tables /\ before \in Tables
      /\ scratch \in Seq(Fds) /\ fds \in Seq(Fds) /\ DOMAIN scratch = 1..Len(scratch)
      /\ \A i \in DOMAIN scratch : scratch[i] \in Fds
  BY <1>2 DEF InstallInv, CallType, Progress
<1>4. Placed = {} /\ Placed' = {}
  BY <1>2, <1>3 DEF Placed
<1>5. f >= ScratchFrom /\ tab[f] = Closed
  BY <1>1 DEF LowestFrom
<1>6. f \notin Range(scratch)
  BY <1>2, <1>5 DEF InstallInv, ScratchApart, Range
<1>7. \A g \in Fds \ Range(scratch) : tab[g] = before[g]
  BY <1>2, <1>4 DEF InstallInv, InstallKeepsFiles
<1>8. before[f] = Closed
  BY <1>5, <1>6, <1>7
<1>9. before[fds[n]] # Closed => tab[fds[n]] = before[fds[n]]
  <2> SUFFICES ASSUME before[fds[n]] # Closed PROVE fds[n] \notin Range(scratch)
    BY <1>3, <1>7
  <2> QED
    BY DEF InstallInv, ScratchApart, Range
<1>10. /\ scratch' \in Seq(Fds) /\ DOMAIN scratch' = 1..n /\ Len(scratch') = n
       /\ scratch'[n] = f /\ \A i \in DOMAIN scratch : scratch'[i] = scratch[i]
  BY <1>1, <1>3
<1>11. /\ tab' \in Tables /\ tab'[f] = tab[fds[n]]
       /\ \A g \in Fds \ {f} : tab'[g] = tab[g]
  BY <1>1, <1>3 DEF Tables
<1>12. \A i \in DOMAIN scratch' : i = n \/ (i \in DOMAIN scratch /\ scratch[i] # f)
  BY <1>3, <1>6, <1>10 DEF Range
<1> HIDE DEF n
<1>13. CallType'
  BY <1>2, <1>3, <1>10, <1>11 DEF CallType, InstallInv
<1>14. Progress'
  BY <1>2, <1>3, <1>10 DEF Progress, n
<1>15. ScratchFrom' = ScratchFrom
  BY <1>2 DEF ScratchFrom
<1>16. ScratchApart'
  BY <1>2, <1>3, <1>5, <1>8, <1>10, <1>11, <1>12, <1>15 DEF ScratchApart, InstallInv
<1>17. \A i \in DOMAIN scratch' : FromSource(scratch[i], i)'
  BY <1>2, <1>3, <1>9, <1>10, <1>11, <1>12 DEF FromSource, InstallInv, InstallKeepsFiles
<1>18. \A g \in Fds \ (Placed' \cup Range(scratch')) : tab'[g] = before'[g]
  <2> SUFFICES ASSUME NEW g \in Fds, g \notin Range(scratch') PROVE tab'[g] = before[g]
    BY <1>2
  <2>1. g # f /\ g \notin Range(scratch)
    BY <1>10, <1>3 DEF Range, n
  <2> QED
    BY <2>1, <1>7, <1>11
<1>19. 1..moved' = {}
  BY <1>2, <1>3
<1> QED
  BY <1>13, <1>14, <1>16, <1>17, <1>18, <1>19 DEF InstallInv, InstallKeepsFiles

\* The target is below all scratch copies and is none of the targets before it.
LEMMA InstallDup2 ==
  ASSUME InstallInv, Dup2
  PROVE  InstallInv'
<1> DEFINE t == Start + moved
           source == scratch[moved + 1]
<1>1. /\ pc = "dup2" /\ UNCHANGED <<fds, scratch, before>>
      /\ tab' = [tab EXCEPT ![t] = tab[source]] /\ cloexec' = cloexec \ {t}
      /\ moved' = moved + 1 /\ pc' = "clear_cloexec"
  BY DEF Dup2
<1>2. /\ moved \in Nat /\ moved < Len(fds) /\ Len(scratch) = Len(fds) /\ Len(fds) \in Nat
      /\ Len(fds) <= MaxGiven /\ MaxGiven \in Nat /\ Start \in Nat /\ Fds \subseteq Nat
      /\ tab \in Tables /\ before \in Tables /\ scratch \in Seq(Fds) /\ fds \in Seq(Fds)
      /\ DOMAIN scratch = 1..Len(fds) /\ \A i \in DOMAIN scratch : scratch[i] \in Fds
  BY <1>1, ListenFdsAssumption, DescriptorNamesAssumption DEF InstallInv, CallType, Progress
<1>3. t \in Fds /\ moved + 1 \in DOMAIN scratch /\ source \in Fds
  BY <1>2, ListenFdsAssumption
<1>4. \A i \in DOMAIN scratch : scratch[i] # t
  BY <1>2 DEF InstallInv, ScratchApart, ScratchFrom
<1>5. tab' \in Tables /\ tab'[t] = tab[source] /\ \A g \in Fds \ {t} : tab'[g] = tab[g]
  BY <1>1, <1>2, <1>3 DEF Tables
<1>6. CallType' /\ Progress'
  BY <1>1, <1>2, <1>5 DEF CallType, Progress
<1>7. ScratchApart'
  BY <1>1 DEF ScratchApart, ScratchFrom, InstallInv
<1>8. ASSUME NEW i \in DOMAIN scratch
      PROVE  FromSource(scratch[i], i) /\ FromSource(scratch[i], i)'
  <2>1. FromSource(scratch[i], i)
    BY <1>1 DEF InstallInv, InstallKeepsFiles
  <2>2. tab'[scratch[i]] = tab[scratch[i]]
    BY <1>2, <1>4, <1>5
  <2> QED
    BY <1>1, <2>1, <2>2 DEF FromSource
<1>9. ASSUME NEW i \in 1..moved'
      PROVE  FromSource(Start + i - 1, i)' /\ Start + i - 1 \notin cloexec'
  <2>1. CASE i = moved + 1
    <3>1. Start + i - 1 = t
      BY <1>2, <2>1
    <3>2. before[fds[i]] # Closed => tab[source] = before[fds[i]]
      BY <1>3, <1>8, <2>1 DEF FromSource
    <3> QED
      BY <1>1, <1>5, <3>1, <3>2 DEF FromSource
  <2>2. CASE i # moved + 1
    <3>1. i \in Nat /\ 1 <= i /\ i <= moved /\ moved <= MaxGiven
      <4>1. moved' = moved + 1 /\ moved \in Nat /\ moved < MaxGiven /\ MaxGiven \in Nat
        BY <1>1, <1>2
      <4> QED
        BY <2>2, <4>1
    <3>2. i \in 1..moved /\ Start + i - 1 # t /\ Start + i - 1 \in Start..(Start + MaxGiven - 1)
      BY <1>2, <3>1
    <3>3. Start + i - 1 \in Fds
      BY <3>2, ListenFdsAssumption
    <3> QED
      BY <1>1, <1>5, <3>2, <3>3 DEF InstallInv, InstallKeepsFiles, FromSource
  <2> QED
    BY <2>1, <2>2
<1>10. ASSUME NEW g \in Fds \ (Placed' \cup Range(scratch')) PROVE tab'[g] = before'[g]
  <2>1. t \in Placed' /\ Placed \subseteq Placed'
    <3>1. moved + 1 \in 1..moved' /\ 1..moved \subseteq 1..moved' /\ t = Start + (moved + 1) - 1
      <4>1. moved' = moved + 1 /\ moved \in Nat /\ Start \in Nat
        BY <1>1, <1>2
      <4> QED
        BY <4>1
    <3> QED
      BY <3>1, Zenon DEF Placed
  <2> QED
    BY <1>1, <1>5, <2>1 DEF InstallInv, InstallKeepsFiles
<1> QED
  BY <1>1, <1>6, <1>7, <1>8, <1>9, <1>10 DEF InstallInv, InstallKeepsFiles

\* A scratch copy took a number that was free, and leaves it so.
LEMMA InstallCloseScratch ==
  ASSUME InstallInv, CloseScratch
  PROVE  InstallInv'
<1> DEFINE h == Head(scratch)
<1>1. /\ pc \in {"close", "unwind"} /\ scratch # <<>> /\ scratch' = Tail(scratch)
      /\ tab' = [tab EXCEPT ![h] = Closed] /\ cloexec' = cloexec \cup {h}
      /\ UNCHANGED <<pc, fds, moved, before>>
  BY DEF CloseScratch
<1>2. /\ scratch \in Seq(Fds) /\ tab \in Tables /\ before \in Tables /\ fds \in Seq(Fds)
      /\ moved \in 0..Len(fds) /\ Len(fds) \in Nat /\ Len(fds) <= MaxGiven
      /\ MaxGiven \in Nat /\ Start \in Nat /\ Fds \subseteq Nat
  BY ListenFdsAssumption, DescriptorNamesAssumption DEF InstallInv, CallType
<1>3. /\ scratch' \in Seq(Fds) /\ 1 \in DOMAIN scratch /\ h = scratch[1] /\ h \in Fds
      /\ \A i \in DOMAIN scratch' :
           i + 1 \in DOMAIN scratch /\ scratch'[i] = scratch[i + 1] /\ i \in Nat \ {0}
  BY <1>1, <1>2
<1>4. \A i \in DOMAIN scratch : i # 1 => i - 1 \in DOMAIN scratch' /\ scratch'[i - 1] = scratch[i]
  <2>1. /\ DOMAIN scratch = 1..Len(scratch) /\ Len(scratch) \in Nat
        /\ DOMAIN scratch' = 1..(Len(scratch) - 1)
    BY <1>1, <1>2
  <2> TAKE i \in DOMAIN scratch
  <2>2. i \in Nat /\ 1 <= i /\ i <= Len(scratch)
    BY <2>1
  <2>3. i # 1 => i - 1 \in DOMAIN scratch' /\ (i - 1) + 1 = i
    BY <2>1, <2>2
  <2>4. i # 1 => scratch'[i - 1] = scratch[(i - 1) + 1]
    BY <1>3, <2>3
  <2> QED
    BY <2>2, <2>3, <2>4
<1>5. before[h] = Closed /\ h >= ScratchFrom
  BY <1>3 DEF InstallInv, ScratchApart
<1> HIDE DEF h
<1>6. tab' \in Tables /\ tab'[h] = Closed /\ \A g \in Fds \ {h} : tab'[g] = tab[g]
  BY <1>1, <1>2, <1>3 DEF Tables
<1>7. CallType' /\ Progress'
  BY <1>1, <1>2, <1>3, <1>6 DEF CallType, Progress
<1>8. ScratchApart'
  BY <1>1, <1>3 DEF ScratchApart, ScratchFrom, InstallInv
<1>9. ASSUME NEW i \in 1..moved
      PROVE  FromSource(Start + i - 1, i)' /\ Start + i - 1 \notin cloexec'
  <2>1. Start + i - 1 # h /\ Start + i - 1 \in Start..(Start + MaxGiven - 1)
    BY <1>2, <1>3, <1>5 DEF ScratchFrom
  <2>2. Start + i - 1 \in Fds
    BY <2>1, ListenFdsAssumption
  <2> QED
    BY <1>1, <1>6, <2>1, <2>2 DEF InstallInv, InstallKeepsFiles, FromSource
<1>10. ASSUME NEW g \in Fds \ (Placed' \cup Range(scratch')) PROVE tab'[g] = before'[g]
  <2>1. Placed' = Placed
    BY <1>1 DEF Placed
  <2>2. CASE g = h
    BY <1>1, <1>5, <1>6, <2>2
  <2>3. CASE g # h
    <3>1. g \notin Range(scratch)
      BY <1>3, <1>4, <2>3 DEF Range
    <3> QED
      BY <1>1, <1>6, <2>1, <2>3, <3>1 DEF InstallInv, InstallKeepsFiles
  <2> QED
    BY <2>2, <2>3
<1> QED
  BY <1>1, <1>7, <1>8, <1>9, <1>10 DEF InstallInv, InstallKeepsFiles

\* A target that was placed stays as it is.
LEMMA InstallClearCloexec ==
  ASSUME InstallInv, ClearCloexec
  PROVE  InstallInv'
<1>1. /\ pc = "clear_cloexec" /\ UNCHANGED <<tab, fds, scratch, moved, before>>
      /\ cloexec' \subseteq cloexec
      /\ pc' = IF moved = Len(fds) THEN "close" ELSE "dup2"
  BY DEF ClearCloexec
<1>2. CallType'
  BY <1>1 DEF InstallInv, CallType
<1>3. Progress'
  BY <1>1 DEF InstallInv, CallType, Progress
<1>4. ScratchApart'
  BY <1>1 DEF InstallInv, ScratchApart, ScratchFrom
<1>5. InstallKeepsFiles'
  BY <1>1 DEF InstallInv, InstallKeepsFiles, FromSource, Placed
<1> QED
  BY <1>2, <1>3, <1>4, <1>5 DEF InstallInv

LEMMA InstallStep == InstallInv /\ [Next]_vars => InstallInv'
<1> SUFFICES ASSUME InstallInv, [Next]_vars PROVE InstallInv'
  OBVIOUS
<1>1. CASE DupAboveFails \/ Raise \/ SetNames
  BY <1>1, InstallLeaves DEF DupAboveFails, Raise, SetNames
<1>2. ASSUME UNCHANGED <<tab, cloexec, fds, scratch, moved, before>>,
             \/ pc' = "unwind"
             \/ pc' \in {"set_pid", "set_fds", "set_names"} /\ scratch = <<>> /\ pc # "idle"
             \/ pc' = pc
             , pc' # "idle" => pc # "idle"
      PROVE  InstallInv'
  <2>1. CallType' /\ Progress' /\ ScratchApart'
    BY <1>2 DEF InstallInv, CallType, Progress, ScratchApart, ScratchFrom
  <2>2. InstallKeepsFiles'
    BY <1>2 DEF InstallInv, InstallKeepsFiles, FromSource, Placed
  <2> QED
    BY <2>1, <2>2 DEF InstallInv
<1>3. CASE PlacingFails
  BY <1>2, <1>3 DEF PlacingFails
<1>4. CASE SetPid
  BY <1>2, <1>4 DEF SetPid, InstallInv, Progress
<1>5. CASE SetFds
  BY <1>2, <1>5 DEF SetFds, InstallInv, Progress
<1>6. ASSUME pc = "idle", UNCHANGED <<tab, pc, fds, scratch, moved, before>> PROVE InstallInv'
  BY <1>6 DEF InstallInv, CallType, Progress, ScratchApart, ScratchFrom, InstallKeepsFiles
<1>7. ASSUME NEW unset \in BOOLEAN, NEW mark \in BOOLEAN, ListenFdNames(unset, mark) PROVE InstallInv'
  BY <1>6, <1>7 DEF ListenFdNames
<1>8. CASE UnsetListenEnvironment \/ Fork
  BY <1>6, <1>8 DEF UnsetListenEnvironment, Fork
<1>9. CASE UNCHANGED vars
  BY <1>2, <1>9 DEF vars
<1> QED
  BY <1>1, <1>3, <1>4, <1>5, <1>7, <1>8, <1>9, InstallCall, InstallDupAbove, InstallDup2,
     InstallClearCloexec, InstallCloseScratch DEF Next

\* Whatever overlap there is between the descriptors handed in, the targets and
\* the scratch copies, and wherever the call fails, each target that was placed
\* has the file its source had at the call and passes it on to a new program,
\* and every other number keeps its own.
THEOREM InstallAlwaysKeepsFiles == Spec => []InstallKeepsFiles
<1>1. InstallInv => InstallKeepsFiles
  BY DEF InstallInv
<1> QED
  BY <1>1, InstallInit, InstallStep, PTL DEF Spec

-----------------------------------------------------------------------------
(* The environment *)

\* What the call writes into the environment, beside what it does to files.
EnvironmentType ==
  /\ cloexec \subseteq Fds
  /\ pid \in {"me", "other", "unset"}
  /\ count \in Nat
  /\ names \in Seq(Words) \cup {Absent}
  /\ pc \in {"idle", "dup_above", "dup2", "clear_cloexec", "close", "unwind",
            "set_pid", "set_fds", "set_names"}
  /\ given \in Seq(FdNames \cup {<<Unnamed>>})

\* As long as the environment is the one a call wrote, LISTEN_FDS counts the
\* names given and LISTEN_FDNAMES strings them together, unless there were none.
InstalledNames ==
  /\ pc = "set_names" => count = Len(fds)
  /\ pc # "idle" => given = <<>>
  /\ given # <<>> /\ count # 0 =>
       /\ count = Len(given)
       /\ \/ names = FlattenSeq(given)
          \/ names = Absent /\ \A i \in DOMAIN given : given[i] = <<Unnamed>>

EnvironmentInv == EnvironmentType /\ InstalledNames

\* A name that is given is a sequence of words and not empty.
LEMMA GivenType ==
  ASSUME NEW ns \in Seq(FdNames \cup {<<Unnamed>>})
  PROVE  ns \in Seq(Seq(Words) \ {<<>>})
<1>1. <<Unnamed>> \in Seq(Words) /\ <<Unnamed>> # <<>>
  BY DescriptorNamesAssumption
<1>2. FdNames \cup {<<Unnamed>>} \subseteq Seq(Words) \ {<<>>}
  BY <1>1, DescriptorNamesAssumption
<1> QED
  BY <1>2, SeqMonotonic

LEMMA EnvironmentInit == Init => EnvironmentInv
<1> SUFFICES ASSUME Init PROVE EnvironmentInv
  OBVIOUS
<1>1. /\ cloexec = Fds /\ pid \in {"unset", "me"} /\ count \in 0..MaxGiven /\ names = Absent
      /\ pc = "idle" /\ given = <<>>
  BY DEF Init
<1>2. given \in Seq(FdNames \cup {<<Unnamed>>})
  BY <1>1, EmptySeq
<1> QED
  BY <1>1, <1>2, DescriptorNamesAssumption DEF EnvironmentInv, EnvironmentType, InstalledNames

\* Only here is the environment written that a service is told its names by.
LEMMA EnvironmentSetNames ==
  ASSUME InstallInv, EnvironmentInv, SetNames
  PROVE  EnvironmentInv'
<1>1. PICK ns \in {Absent} \cup NameLists :
        /\ NamesAccepted(ns)
        /\ names' = Joined(ns)
        /\ given' = IF ns = Absent THEN NoNames ELSE ns
  BY DEF SetNames
<1>2. /\ pc = "set_names" /\ pc' = "idle" /\ UNCHANGED <<cloexec, pid, count>>
      /\ count = Len(fds) /\ fds \in Seq(Fds)
  BY DEF SetNames, Leave, EnvironmentInv, InstalledNames, InstallInv, CallType
<1>3. Len(fds) \in Nat /\ DOMAIN fds = 1..Len(fds)
  BY <1>2
<1>4. CASE ns = Absent
  <2>1. names' = Absent /\ given' = [i \in 1..Len(fds) |-> <<Unnamed>>]
    <3>1. Absent # <<>>
      BY EmptySeq, DescriptorNamesAssumption
    <3> QED
      BY <1>1, <1>3, <1>4, <3>1 DEF Joined, NoNames
  <2>2. /\ given' \in Seq(FdNames \cup {<<Unnamed>>}) /\ Len(given') = Len(fds)
        /\ \A i \in DOMAIN given' : given'[i] = <<Unnamed>>
    BY <1>3, <2>1
  <2> QED
    BY <1>2, <2>1, <2>2 DEF EnvironmentInv, EnvironmentType, InstalledNames
<1>5. CASE ns # Absent
  <2>1. ns \in [1..Len(fds) -> FdNames] /\ given' = ns
    <3>1. PICK n \in 0..MaxGiven : ns \in [1..n -> FdNames]
      BY <1>1, <1>5 DEF NameLists
    <3>2. n \in Nat /\ Len(ns) = n
      BY <3>1, ListenFdsAssumption
    <3> QED
      BY <1>1, <1>5, <3>1, <3>2 DEF NamesAccepted
  <2>2. ns \in Seq(FdNames \cup {<<Unnamed>>}) /\ Len(ns) = Len(fds)
    BY <1>3, <2>1
  <2>3. ns \in Seq(Seq(Words))
    BY <2>2, GivenType, SeqMonotonic
  <2>4. CASE ns = <<>>
    <3>1. names' = <<Empty>>
      BY <1>1, <1>5, <2>4 DEF Joined
    <3>2. <<Empty>> \in Seq(Words)
      BY DescriptorNamesAssumption
    <3> QED
      BY <1>2, <2>1, <2>2, <2>4, <3>1, <3>2 DEF EnvironmentInv, EnvironmentType, InstalledNames
  <2>5. CASE ns # <<>>
    <3>1. names' = FlattenSeq(ns)
      BY <1>1, <1>5, <2>5 DEF Joined
    <3>2. FlattenSeq(ns) \in Seq(Words)
      BY <2>3, FlattenType
    <3> QED
      BY <1>2, <2>1, <2>2, <3>1, <3>2 DEF EnvironmentInv, EnvironmentType, InstalledNames
  <2> QED
    BY <2>4, <2>5
<1> QED
  BY <1>4, <1>5

LEMMA EnvironmentStep == InstallInv /\ EnvironmentInv /\ [Next]_vars => EnvironmentInv'
<1> SUFFICES ASSUME InstallInv, EnvironmentInv, [Next]_vars PROVE EnvironmentInv'
  OBVIOUS
<1> USE DEF EnvironmentInv, EnvironmentType, InstalledNames, env
<1>1. <<>> \in Seq(FdNames \cup {<<Unnamed>>})
  BY EmptySeq
<1>2. CASE Call
  BY <1>1, <1>2 DEF Call
<1>3. CASE DupAbove
  BY <1>3 DEF DupAbove
<1>4. CASE DupAboveFails
  BY <1>4 DEF DupAboveFails, Leave
<1>5. CASE Dup2 \/ ClearCloexec
  BY <1>5 DEF Dup2, ClearCloexec
<1>6. CASE PlacingFails
  BY <1>6 DEF PlacingFails
<1>7. CASE CloseScratch
  <2>1. Head(scratch) \in Fds
    BY <1>7, HeadTailProperties DEF CloseScratch, InstallInv, CallType
  <2> QED
    BY <1>7, <2>1 DEF CloseScratch
<1>8. CASE Raise
  BY <1>8 DEF Raise, Leave
<1>9. CASE SetPid
  BY <1>9 DEF SetPid
<1>10. CASE SetFds
  <2>1. Len(fds) \in Nat
    BY DEF InstallInv, CallType
  <2> QED
    BY <1>10, <2>1 DEF SetFds
<1>11. CASE SetNames
  BY <1>11, EnvironmentSetNames
<1>12. ASSUME NEW unset \in BOOLEAN, NEW mark \in BOOLEAN, ListenFdNames(unset, mark)
       PROVE  EnvironmentInv'
  <2>1. cloexec' \subseteq Fds
    <3>1. Marked \subseteq Fds
      <4> SUFFICES ASSUME NEW f \in Marked PROVE f \in Fds
        OBVIOUS
      <4>1. PICK i \in 1..Count : f = Start + i - 1
        BY DEF Marked, Passed
      <4>2. f \in Int /\ f <= f
        BY <4>1, DescriptorNamesAssumption DEF Count
      <4> QED
        BY <4>2 DEF Marked
    <3> QED
      BY <1>12, <3>1 DEF ListenFdNames
  <2>2. pc = "idle" /\ UNCHANGED <<pc, fds, given>> /\ TakeEnvironment(unset)
    BY <1>12 DEF ListenFdNames
  <2> QED
    BY <2>1, <2>2 DEF TakeEnvironment
<1>13. CASE UnsetListenEnvironment
  BY <1>13 DEF UnsetListenEnvironment, TakeEnvironment
<1>14. CASE Fork
  BY <1>14 DEF Fork
<1>15. CASE UNCHANGED vars
  BY <1>15 DEF vars
<1> QED
  BY <1>2, <1>3, <1>4, <1>5, <1>6, <1>7, <1>8, <1>9, <1>10, <1>11, <1>12, <1>13, <1>14, <1>15 DEF Next

LEMMA NamesType ==
  ASSUME EnvironmentType
  PROVE  Names \in Seq(Words \ {Empty}) /\ Count \in Nat
<1>1. Count \in Nat
  BY DEF EnvironmentType, Count
<1>2. Unnamed \in Words \ {Empty}
  BY DescriptorNamesAssumption
<1>3. CASE names \in {Absent, <<Empty>>}
  <2>1. Names = [i \in 1..Count |-> Unnamed]
    BY <1>3 DEF Names, NamesFound
  <2> QED
    BY <1>1, <1>2, <2>1
<1>4. CASE names \notin {Absent, <<Empty>>}
  <2>1. names \in Seq(Words) /\ Names = [i \in DOMAIN names |-> Reported(names[i])]
    BY <1>4 DEF Names, NamesFound, EnvironmentType
  <2>2. Len(names) \in Nat /\ DOMAIN names = 1..Len(names)
    BY <2>1
  <2>3. \A i \in DOMAIN names : Reported(names[i]) \in Words \ {Empty}
    BY <1>2, <2>1, <2>2, ElementOfSeq DEF Reported
  <2> QED
    BY <1>1, <2>1, <2>2, <2>3
<1> QED
  BY <1>3, <1>4

\* Whatever is handed to install_listen_fds and whatever it is read with, the
\* variables keep their types, and no descriptor is reported under an empty name.
THEOREM TypeAlwaysOK == Spec => []TypeOK
<1>1. InstallInv /\ EnvironmentInv => TypeOK
  BY NamesType DEF InstallInv, CallType, Tables, EnvironmentInv, EnvironmentType, TypeOK
<1> QED
  BY <1>1, InstallInit, InstallStep, EnvironmentInit, EnvironmentStep, PTL DEF Spec

\* A service is told the name each descriptor was installed under, or gets an
\* error when one of them holds a colon: for any number of descriptors and any
\* names, never a list that is shifted.
THEOREM NamesAlwaysLineUp == Spec => []NamesLineUp
<1>1. EnvironmentInv => NamesLineUp
  <2> SUFFICES ASSUME EnvironmentInv, given # <<>>, Count # 0
               PROVE  /\ Count = Len(given)
                      /\ NamesFit <=> \A i \in DOMAIN given : Len(given[i]) = 1
                      /\ NamesFit => \A i \in DOMAIN given : FitsName(Names[i], given[i])
    BY DEF NamesLineUp
  <2>1. /\ given \in Seq(Seq(Words) \ {<<>>}) /\ Count = Len(given)
        /\ DOMAIN given = 1..Len(given) /\ Len(given) \in Nat \ {0}
        /\ \A i \in DOMAIN given : given[i] \in Seq(Words) \ {<<>>}
    <3>1. given \in Seq(Seq(Words) \ {<<>>})
      BY GivenType DEF EnvironmentInv, EnvironmentType
    <3>2. Count = Len(given)
      BY DEF Count, EnvironmentInv, InstalledNames
    <3> QED
      BY <3>1, <3>2, ElementOfSeq, LenProperties, EmptySeq
  <2>2. CASE names = Absent
    <3>1. Names = [i \in 1..Len(given) |-> Unnamed]
      BY <2>1, <2>2 DEF Names, NamesFound
    <3>2. \A i \in DOMAIN given : given[i] = <<Unnamed>>
      <4>1. FlattenSeq(given) \in Seq(Words)
        BY <2>1, FlattenType, SeqMonotonic
      <4>2. names # FlattenSeq(given)
        BY <2>2, <4>1, DescriptorNamesAssumption
      <4> QED
        BY <4>2 DEF EnvironmentInv, InstalledNames, Count
    <3>3. NamesFit
      BY <2>1, <3>1 DEF NamesFit, AsMany, Names
    <3>4. \A i \in DOMAIN given : Names[i] = Unnamed
      BY <2>1, <3>1
    <3>5. Len(<<Unnamed>>) = 1 /\ <<Unnamed>> # <<Empty>>
      BY DescriptorNamesAssumption
    <3>6. FitsName(Unnamed, <<Unnamed>>)
      BY <3>5 DEF FitsName
    <3>7. \A i \in DOMAIN given : FitsName(Names[i], given[i]) /\ Len(given[i]) = 1
      BY <3>2, <3>4, <3>5, <3>6, Zenon
    <3> QED
      BY <2>1, <3>3, <3>7, Zenon
  <2>3. CASE names # Absent
    <3> DEFINE flat == FlattenSeq(given)
    <3>1. names = flat
      BY <2>3 DEF EnvironmentInv, InstalledNames, Count
    <3>2. /\ Len(flat) = Len(given) <=> \A i \in 1..Len(given) : Len(given[i]) = 1
          /\ (\A i \in 1..Len(given) : Len(given[i]) = 1)
               => \A i \in 1..Len(given) : flat[i] = given[i][1]
          /\ Len(given) <= Len(flat)
      BY <2>1, FlattenSingles
    <3>3. flat \in Seq(Words) /\ Len(flat) \in Nat /\ DOMAIN flat = 1..Len(flat)
      <4>1. flat \in Seq(Words)
        BY <2>1, FlattenType, SeqMonotonic
      <4> HIDE DEF flat
      <4> QED
        BY <4>1, LenProperties
    <3> HIDE DEF flat
    <3>4. \A i \in DOMAIN given : Len(given[i]) = 1 => given[i] = <<given[i][1]>>
      BY <2>1
    <3>5. CASE names = <<Empty>>
      <4>1. Len(given) = 1 /\ Len(flat) = 1 /\ flat[1] = Empty
        BY <2>1, <3>1, <3>2, <3>5
      <4>2. Len(given[1]) = 1 /\ given[1] = <<Empty>>
        BY <2>1, <3>2, <3>4, <4>1
      <4>3. Names = [i \in 1..1 |-> Unnamed]
        BY <2>1, <3>5, <4>1 DEF Names, NamesFound
      <4>4. NamesFit /\ Names[1] = Unnamed
        BY <2>1, <4>1, <4>3 DEF NamesFit, AsMany, Names
      <4>5. DOMAIN given = {1}
        BY <2>1, <4>1
      <4> QED
        BY <2>1, <4>2, <4>4, <4>5 DEF FitsName
    <3>6. CASE names # <<Empty>>
      <4>1. Names = [i \in 1..Len(flat) |-> Reported(flat[i])]
        BY <2>3, <3>1, <3>3, <3>6 DEF Names, NamesFound
      <4>2. Len(Names) = Len(flat)
        BY <3>3, <4>1
      <4>3. NamesFit <=> Len(flat) = Len(given)
        BY <2>1, <4>2 DEF NamesFit, AsMany, Names
      <4>4. ASSUME Len(flat) = Len(given), NEW i \in DOMAIN given
            PROVE  FitsName(Names[i], given[i])
        <5>1. given[i] = <<flat[i]>> /\ Names[i] = Reported(flat[i])
          BY <2>1, <3>2, <3>4, <4>1, <4>4
        <5> QED
          BY <5>1, DescriptorNamesAssumption DEF FitsName, Reported
      <4> QED
        BY <2>1, <3>2, <4>3, <4>4
    <3> QED
      BY <3>5, <3>6
  <2> QED
    BY <2>2, <2>3
<1> QED
  BY <1>1, InstallInit, InstallStep, EnvironmentInit, EnvironmentStep, PTL DEF Spec

-----------------------------------------------------------------------------
(* Numbers by name *)

\* The function by which the numbers under a word are collected
Collects(f, n, ns, word) ==
  f = [i \in 0..n |-> IF i = 0 THEN <<>>
                      ELSE IF ns[i] = word THEN Append(f[i - 1], Start + i - 1)
                      ELSE f[i - 1]]

LEMMA CollectExists ==
  ASSUME NEW n \in Nat, NEW ns, NEW word
  PROVE  \E f : Collects(f, n, ns, word)
<1> DEFINE Val(f, i) == IF i = 0 THEN <<>>
                        ELSE IF ns[i] = word THEN Append(f[i - 1], Start + i - 1)
                        ELSE f[i - 1]
           Up(f, m) == f = [i \in 0..m |-> Val(f, i)]
           T == {m \in Nat : \E f : Up(f, m)}
<1>1. 0 \in T
  <2>1. Up([i \in 0..0 |-> <<>>], 0)
    OBVIOUS
  <2> QED
    BY <2>1
<1>2. ASSUME NEW m \in Nat, m \in T PROVE m + 1 \in T
  <2> HIDE DEF Up
  <2>1. PICK f : Up(f, m)
    BY <1>2
  <2> DEFINE g == [i \in 0..(m + 1) |-> IF i = m + 1 THEN Val(f, i) ELSE f[i]]
  <2>2. ASSUME NEW i \in 0..(m + 1) PROVE g[i] = Val(g, i)
    <3>1. i # 0 => g[i - 1] = f[i - 1]
      OBVIOUS
    <3>2. Val(g, i) = Val(f, i)
      <4> HIDE DEF g
      <4> QED
        BY <3>1
    <3>3. i # m + 1 => f[i] = Val(f, i)
      <4>1. i # m + 1 => i \in 0..m
        OBVIOUS
      <4> HIDE DEF Val, g
      <4> QED
        BY <2>1, <4>1 DEF Up
    <3> HIDE DEF Val
    <3> QED
      BY <3>2, <3>3
  <2>3. g = [i \in 0..(m + 1) |-> g[i]]
    OBVIOUS
  <2> HIDE DEF g, Val
  <2>4. Up(g, m + 1)
    BY <2>2, <2>3 DEF Up
  <2> QED
    BY <2>4
<1> HIDE DEF T
<1>3. n \in T
  BY <1>1, <1>2, Induct
<1>4. PICK f : Up(f, n)
  BY <1>3 DEF T
<1> QED
  BY <1>4 DEF Collects

\* The numbers of the descriptors with that name
NumbersUnder(word, n, ns) == {k \in Nat : \E i \in 1..n : ns[i] = word /\ k = Start + i - 1}

\* It finds the numbers whose name the word is.
LEMMA CollectFinds ==
  ASSUME NEW n \in Nat, NEW ns, NEW word,
         NEW f, Collects(f, n, ns, word)
  PROVE  f[n] \in Seq(Nat) /\ Range(f[n]) = NumbersUnder(word, n, ns)
<1> DEFINE P(m) == /\ f[m] \in Seq(Nat)
                   /\ \A k : k \in Range(f[m]) <=> \E i \in 1..m : ns[i] = word /\ k = Start + i - 1
           T == {m \in Nat : m <= n => P(m)}
<1>2. /\ f[0] = <<>>
      /\ \A m \in Nat : m + 1 <= n =>
           f[m + 1] = IF ns[m + 1] = word THEN Append(f[m], Start + m) ELSE f[m]
  <2>1. f[0] = <<>>
    BY DEF Collects
  <2>2. ASSUME NEW m \in Nat, m + 1 <= n
        PROVE  f[m + 1] = IF ns[m + 1] = word THEN Append(f[m], Start + m) ELSE f[m]
    <3> DEFINE i == m + 1
    <3>1. i \in 0..n /\ i # 0 /\ i - 1 = m /\ Start + i - 1 = Start + m
      BY <2>2, DescriptorNamesAssumption
    <3> HIDE DEF i
    <3>2. f[i] = IF ns[i] = word THEN Append(f[i - 1], Start + i - 1) ELSE f[i - 1]
      BY <3>1 DEF Collects
    <3>3. f[i] = IF ns[i] = word THEN Append(f[m], Start + m) ELSE f[m]
      BY <3>1, <3>2
    <3> QED
      BY <3>3 DEF i
  <2> QED
    BY <2>1, <2>2
<1>3. 0 \in T
  <2>1. P(0)
    BY <1>2, EmptySeq DEF Range
  <2> HIDE DEF P
  <2> QED
    BY <2>1
<1>4. ASSUME NEW m \in Nat, m \in T PROVE m + 1 \in T
  <2> HIDE DEF P
  <2> SUFFICES ASSUME m + 1 <= n PROVE P(m + 1)
    OBVIOUS
  <2>1. P(m)
    BY <1>4
  <2>2. 1..(m + 1) = 1..m \cup {m + 1} /\ Start + (m + 1) - 1 = Start + m /\ Start + m \in Nat
    BY DescriptorNamesAssumption
  <2>3. f[m + 1] = IF ns[m + 1] = word THEN Append(f[m], Start + m) ELSE f[m]
    BY <1>2
  <2>4. CASE ns[m + 1] # word
    <3>1. f[m + 1] = f[m]
      BY <2>3, <2>4
    <3> QED
      BY <2>1, <2>2, <2>4, <3>1, Zenon DEF P
  <2>5. CASE ns[m + 1] = word
    <3>1. f[m] \in Seq(Nat) /\ f[m + 1] = Append(f[m], Start + m)
      BY <2>1, <2>3, <2>5 DEF P
    <3>2. f[m + 1] \in Seq(Nat) /\ Range(f[m + 1]) = Range(f[m]) \cup {Start + m}
      <4> DEFINE s == f[m]
                 x == Start + m
      <4>1. s \in Seq(Nat) /\ x \in Nat
        BY <2>2, <3>1
      <4> HIDE DEF s, x
      <4>2. /\ Append(s, x) \in Seq(Nat) /\ DOMAIN s = 1..Len(s) /\ Len(s) \in Nat
            /\ DOMAIN Append(s, x) = 1..(Len(s) + 1)
            /\ \A i \in 1..Len(s) : Append(s, x)[i] = s[i]
            /\ Append(s, x)[Len(s) + 1] = x
        BY <4>1
      <4>3. 1..(Len(s) + 1) = 1..Len(s) \cup {Len(s) + 1}
        BY <4>2
      <4>4. Range(Append(s, x)) = Range(s) \cup {x}
        <5>1. \A y : y \in Range(Append(s, x))
                      <=> \E i \in 1..Len(s) \cup {Len(s) + 1} : Append(s, x)[i] = y
          BY <4>2, <4>3, Zenon DEF Range
        <5>2. \A y : y \in Range(s) <=> \E i \in 1..Len(s) : s[i] = y
          BY <4>2, Zenon DEF Range
        <5> QED
          BY <4>2, <5>1, <5>2
      <4> QED
        BY <3>1, <4>2, <4>4 DEF s, x
    <3> QED
      BY <2>1, <2>2, <2>5, <3>2, Zenon DEF P
  <2> QED
    BY <2>4, <2>5
<1>5. P(n)
  <2> HIDE DEF T
  <2>1. n \in T
    BY <1>3, <1>4, Induct
  <2> HIDE DEF P
  <2> QED
    BY <2>1 DEF T
<1>6. \A i \in 1..n : Start + i - 1 \in Nat
  BY DescriptorNamesAssumption
<1> QED
  BY <1>5, <1>6, Zenon DEF NumbersUnder

-----------------------------------------------------------------------------
(* The descriptor store: types *)

\* What the assumptions say of names and files, in the form the steps need
LEMMA StoreConstants ==
  /\ IsFiniteSet(Files) /\ Absent \notin FdNames
  /\ ManagerNames \subseteq Seq(Words \ {Empty}) \ {<<>>}
<1>1. ASSUME NEW n \in ManagerNames PROVE n \in Seq(Words \ {Empty}) \ {<<>>}
  <2>1. n \in Seq(Words \ ({Empty} \cup Improper)) /\ Len(n) = 1
    BY RestartAssumption
  <2>2. Words \ ({Empty} \cup Improper) \subseteq Words \ {Empty}
    OBVIOUS
  <2>3. n \in Seq(Words \ {Empty})
    BY <2>1, <2>2, SeqMonotonic
  <2>4. Len(n) # 0
    BY <2>1
  <2>5. n # <<>>
    BY <2>4, EmptySeq
  <2> QED
    BY <2>3, <2>5
<1> QED
  BY <1>1, RestartAssumption, DescriptorNamesAssumption

Messages == [kind : {"store", "remove", "barrier"}, name : FdNames \cup {Absent},
             files : SUBSET Files, poll : Polls \cup {Absent}, life : Nat]

Proper(m) ==
  /\ m.life <= lives
  /\ m.kind = "store" => m.poll \in Polls
  /\ m.name # Absent => Len(m.name) = 1

\* The log, and the queue as its end
LogOK ==
  /\ log \in Seq(Messages) /\ queue \in Seq(Messages)
  /\ Len(queue) <= Len(log)
  /\ \A i \in 1..Len(queue) : queue[i] = log[Handled + i]
  /\ \A i \in DOMAIN log : Proper(log[i])
  /\ acked \subseteq 1..Handled
  /\ lives \in 1..MaxLives

\* No file is kept twice, and each is kept as a message said that was handled.
StoreOK ==
  /\ \A e \in store : e.file \in Files /\ e.name \in ManagerNames /\ e.poll \in Polls
  /\ \A d, e \in store : d.file = e.file => d = e
  /\ \A e \in store : \E i \in StoresOf(e.file) \cap (1..Handled) :
       NameOf(log[i].name) = e.name /\ log[i].poll = e.poll

Passable == Files \cup {Sockets[i].file : i \in DOMAIN Sockets}

\* What a service is started with
PassedOK ==
  /\ passed \in Seq(Passable)
  /\ fdnames \in Seq(Words \ {Empty}) \cup {Absent}
  /\ passed # <<>> => fdnames # Absent /\ Len(fdnames) = Len(passed)

ServiceOK ==
  /\ service \in {"starting", "up", "barrier", "down"}
  /\ open \subseteq Files /\ hungup \subseteq Files
  /\ \A word \in DOMAIN found : word \in Words /\ found[word] \in Seq(Nat)

Base == LogOK /\ StoreOK /\ PassedOK /\ ServiceOK

LEMMA BaseIsTyped == Base => StoreTypeOK
<1> SUFFICES ASSUME Base PROVE StoreTypeOK
  OBVIOUS
<1>1. Range(passed) \subseteq Passable
  BY RangeOfSeq DEF Base, PassedOK, Range
<1>2. fdnames \in Seq(Words) \cup {Absent}
  <2>1. fdnames \in Seq(Words \ {Empty}) => fdnames \in Seq(Words)
    BY SeqMonotonic
  <2> QED
    BY <2>1 DEF Base, PassedOK
<1>3. queue = SubSeq(log, Handled + 1, Len(log))
  <2> DEFINE n == Len(queue)
             l == Len(log)
             h == l - n
             s == SubSeq(log, h + 1, l)
  <2>1. log \in Seq(Messages) /\ queue \in Seq(Messages) /\ n \in Nat /\ l \in Nat /\ n <= l
    BY DEF Base, LogOK
  <2>2. Handled = h /\ \A i \in 1..n : queue[i] = log[h + i]
    BY DEF Base, LogOK, Handled
  <2> HIDE DEF n, l
  <2>3. h + 1 \in Int /\ l \in Int /\ \A i \in (h + 1)..l : i \in DOMAIN log
    BY <2>1 DEF l
  <2>4. s \in Seq(Messages) /\ Len(s) = n /\ \A i \in 1..n : s[i] = log[h + i]
    <3> HIDE DEF s
    <3>1. \A i \in (h + 1)..l : log[i] \in Messages
      BY <2>1, <2>3, ElementOfSeq, LenProperties
    <3>2. /\ s \in Seq(Messages)
          /\ Len(s) = IF h + 1 <= l THEN l - (h + 1) + 1 ELSE 0
          /\ \A i \in 1..(l - (h + 1) + 1) : s[i] = log[h + 1 + i - 1]
      <4> DEFINE a == h + 1
      <4>1. a \in Int /\ l \in Int /\ \A i \in a..l : log[i] \in Messages
        BY <2>3, <3>1
      <4> HIDE DEF a
      <4>2. /\ SubSeq(log, a, l) \in Seq(Messages)
            /\ Len(SubSeq(log, a, l)) = IF a <= l THEN l - a + 1 ELSE 0
            /\ \A i \in 1..(l - a + 1) : SubSeq(log, a, l)[i] = log[a + i - 1]
        BY <4>1, SubSeqProperties
      <4> QED
        BY <4>2 DEF a, s
    <3>3. l - (h + 1) + 1 = n /\ (h + 1 <= l => n # 0) /\ (~(h + 1 <= l) => n = 0)
      BY <2>1
    <3>4. \A i \in 1..n : h + 1 + i - 1 = h + i
      BY <2>1
    <3>5. Len(s) = n
      BY <3>2, <3>3
    <3> QED
      BY <3>2, <3>3, <3>4, <3>5
  <2> HIDE DEF s
  <2>5. queue = s
    BY <2>1, <2>2, <2>4, SeqEqual DEF n
  <2> QED
    BY <2>2, <2>5 DEF s, l
<1>4. \A i \in DOMAIN log : /\ log[i].kind \in {"store", "remove", "barrier"}
                            /\ log[i].name # Absent => Len(log[i].name) = 1
  <2> TAKE i \in DOMAIN log
  <2>1. log[i] \in Messages
    BY ElementOfSeq, LenProperties DEF Base, LogOK
  <2> QED
    BY <2>1 DEF Base, LogOK, Proper, Messages
<1> QED
  BY <1>1, <1>2, <1>3, <1>4 DEF StoreTypeOK, Base, LogOK, StoreOK, ServiceOK, Passable

LEMMA BaseInit == StoreInit => Base
<1> SUFFICES ASSUME StoreInit PROVE Base
  OBVIOUS
<1>1. /\ service = "up" /\ lives = 1 /\ passed = <<>> /\ fdnames = Absent /\ found = <<>>
      /\ open = Files /\ hungup = {} /\ queue = <<>> /\ store = {} /\ log = <<>> /\ acked = {}
  BY DEF StoreInit
<1>2. \A S : <<>> \in Seq(S)
  BY EmptySeq
<1>3. LogOK
  BY <1>1, <1>2, RestartAssumption DEF LogOK
<1>4. StoreOK /\ PassedOK /\ ServiceOK
  BY <1>1, <1>2 DEF StoreOK, PassedOK, ServiceOK
<1> QED
  BY <1>3, <1>4 DEF Base

\* The messages the manager has handled, that stored f or removed a name
StoredBy(f) == StoresOf(f) \cap (1..Handled)
RemovedBy(name) == RemovalsOf(name) \cap (1..Handled)

\* Nothing is handled, and what has been handled stays as it is.
PastKept ==
  /\ Handled' = Handled
  /\ \A i \in 1..Handled : i \in DOMAIN log /\ i \in DOMAIN log' /\ log'[i] = log[i]

LEMMA PastIsKept ==
  ASSUME PastKept
  PROVE  /\ 1..Handled' = 1..Handled
         /\ \A f : StoredBy(f)' = StoredBy(f)
         /\ \A name : RemovedBy(name)' = RemovedBy(name)
  BY DEF PastKept, StoredBy, RemovedBy, StoresOf, RemovalsOf

LEMMA QueueTypes ==
  ASSUME LogOK
  PROVE  /\ Len(log) \in Nat /\ Len(queue) \in Nat /\ Handled \in Nat
         /\ Handled + Len(queue) = Len(log)
         /\ DOMAIN log = 1..Len(log) /\ DOMAIN queue = 1..Len(queue)
         /\ \A i \in 1..Handled : i \in DOMAIN log
<1>1. log \in Seq(Messages) /\ queue \in Seq(Messages) /\ Len(queue) <= Len(log)
  BY DEF LogOK
<1>2. Len(log) \in Nat /\ Len(queue) \in Nat /\ DOMAIN log = 1..Len(log) /\ DOMAIN queue = 1..Len(queue)
  BY <1>1, LenProperties
<1> QED
  BY <1>1, <1>2 DEF Handled

LEMMA LogUnchanged ==
  ASSUME LogOK, UNCHANGED <<log, queue>>
  PROVE  PastKept
  BY QueueTypes DEF PastKept, Handled

LEMMA SendKeepsLog ==
  ASSUME LogOK, NEW m \in Messages, Proper(m), UNCHANGED <<lives, acked>>,
         queue' = Append(queue, m), log' = Append(log, m)
  PROVE  LogOK' /\ PastKept
<1> DEFINE n == Len(queue)
           l == Len(log)
           h == Handled
<1>1. /\ log \in Seq(Messages) /\ queue \in Seq(Messages)
      /\ n \in Nat /\ l \in Nat /\ h \in Nat /\ h + n = l
      /\ DOMAIN log = 1..l /\ DOMAIN queue = 1..n
  BY QueueTypes DEF LogOK
<1>2. /\ log' \in Seq(Messages) /\ Len(log') = l + 1 /\ DOMAIN log' = 1..(l + 1)
      /\ log'[l + 1] = m /\ \A i \in 1..l : log'[i] = log[i]
  BY <1>1
<1>3. /\ queue' \in Seq(Messages) /\ Len(queue') = n + 1 /\ DOMAIN queue' = 1..(n + 1)
      /\ queue'[n + 1] = m /\ \A i \in 1..n : queue'[i] = queue[i]
  BY <1>1
<1>4. Handled' = Len(log') - Len(queue')
  BY DEF Handled
<1> HIDE DEF n, l, h
<1>5. Handled' = h /\ h + (n + 1) = l + 1
  BY <1>1, <1>2, <1>3, <1>4
<1>6. PastKept
  BY <1>1, <1>2, <1>5 DEF PastKept, h
<1>7. \A i \in 1..(n + 1) : queue'[i] = log'[h + i]
  <2> TAKE i \in 1..(n + 1)
  <2>1. CASE i = n + 1
    BY <1>2, <1>3, <1>5, <2>1
  <2>2. CASE i # n + 1
    <3>1. i \in 1..n /\ h + i \in 1..l
      BY <1>1, <2>2
    <3>2. queue[i] = log[h + i]
      BY <3>1 DEF LogOK, h, n
    <3> QED
      BY <1>2, <1>3, <3>1, <3>2
  <2> QED
    BY <2>1, <2>2
<1>8. \A i \in 1..(l + 1) : Proper(log[i])'
  <2> TAKE i \in 1..(l + 1)
  <2>1. i = l + 1 \/ i \in 1..l
    BY <1>1
  <2>2. i \in 1..l => Proper(log[i])
    BY <1>1 DEF LogOK
  <2> QED
    BY <1>2, <2>1, <2>2 DEF Proper
<1>9. Len(queue') <= Len(log')
  BY <1>1, <1>2, <1>3
<1>10. acked' \subseteq 1..Handled' /\ lives' \in 1..MaxLives
  BY <1>5 DEF LogOK, h
<1> QED
  BY <1>2, <1>3, <1>5, <1>6, <1>7, <1>8, <1>9, <1>10 DEF LogOK

\* Handled or lost, the oldest message leaves the queue.
LEMMA TakeKeepsLog ==
  ASSUME LogOK, queue # <<>>, queue' = Tail(queue), UNCHANGED <<log, lives, acked>>
  PROVE  /\ LogOK' /\ Handled \in Nat
         /\ Handled' = Handled + 1 /\ Handled + 1 \in DOMAIN log
         /\ Head(queue) = log[Handled + 1] /\ Head(queue) \in Messages
<1> DEFINE n == Len(queue)
           l == Len(log)
           h == Handled
<1>1. /\ log \in Seq(Messages) /\ queue \in Seq(Messages)
      /\ n \in Nat /\ l \in Nat /\ h \in Nat /\ h + n = l
      /\ DOMAIN log = 1..l /\ DOMAIN queue = 1..n
  BY QueueTypes DEF LogOK
<1>2. n # 0
  BY <1>1, EmptySeq
<1>3. /\ queue' \in Seq(Messages) /\ Len(queue') = n - 1 /\ Head(queue) = queue[1]
      /\ \A i \in 1..(n - 1) : queue'[i] = queue[i + 1]
  BY <1>1, HeadTailProperties
<1>4. Handled' = Len(log') - Len(queue')
  BY DEF Handled
<1> HIDE DEF n, l, h
<1>5. Handled' = h + 1 /\ h + 1 \in 1..l /\ 1 \in 1..n
  BY <1>1, <1>2, <1>3, <1>4 DEF l
<1>6. queue[1] = log[h + 1] /\ queue[1] \in Messages
  BY <1>1, <1>5, ElementOfSeq DEF LogOK, h, n
<1>7. \A i \in 1..(n - 1) : queue'[i] = log[(h + 1) + i]
  <2> TAKE i \in 1..(n - 1)
  <2>1. i + 1 \in 1..n /\ h + (i + 1) = (h + 1) + i
    BY <1>1
  <2>2. queue[i + 1] = log[h + (i + 1)]
    BY <2>1 DEF LogOK, h, n
  <2> QED
    BY <1>3, <2>1, <2>2
<1>8. acked' \subseteq 1..(h + 1)
  <2>1. 1..h \subseteq 1..(h + 1)
    BY <1>1
  <2> QED
    BY <2>1 DEF LogOK, h
<1>9. n - 1 <= l
  BY <1>1
<1>10. LogOK'
  BY <1>1, <1>3, <1>5, <1>7, <1>8, <1>9 DEF LogOK, Proper, l
<1> QED
  BY <1>1, <1>3, <1>5, <1>6, <1>10 DEF h

-----------------------------------------------------------------------------
(* The descriptor store: the log and the queue *)

\* What was said of a file is still there when nothing is handled.
LEMMA StoreUnchanged ==
  ASSUME StoreOK, PastKept, UNCHANGED store
  PROVE  StoreOK'
<1>1. /\ \A i \in 1..Handled : log'[i] = log[i]
      /\ \A f : StoredBy(f)' = StoredBy(f)
  BY PastIsKept DEF PastKept
<1>2. \A e \in store : \E i \in StoredBy(e.file)' :
        NameOf(log'[i].name) = e.name /\ log'[i].poll = e.poll
  <2> TAKE e \in store
  <2>1. PICK i \in StoredBy(e.file) : NameOf(log[i].name) = e.name /\ log[i].poll = e.poll
    BY DEF StoreOK, StoredBy
  <2>2. i \in 1..Handled
    BY <2>1 DEF StoredBy
  <2> QED
    BY <1>1, <2>1, <2>2
<1> QED
  BY <1>2 DEF StoreOK, StoredBy, NameOf

\* A message is sent: it joins the queue and the log, and changes nothing else.
LEMMA SendKeepsBase ==
  ASSUME Base, NEW m \in Messages, Proper(m), Send(m),
         service' \in {"up", "barrier"}, UNCHANGED acked
  PROVE  Base' /\ PastKept
<1>1. /\ queue' = Append(queue, m) /\ log' = Append(log, m) /\ UNCHANGED store
      /\ UNCHANGED <<passed, fdnames>> /\ UNCHANGED <<open, hungup, found>> /\ lives' = lives
  BY DEF Send, world
<1>2. LogOK' /\ PastKept
  BY <1>1, SendKeepsLog DEF Base
<1>3. StoreOK'
  BY <1>1, <1>2, StoreUnchanged DEF Base
<1>4. PassedOK' /\ ServiceOK'
  BY <1>1 DEF Base, PassedOK, ServiceOK
<1> QED
  BY <1>2, <1>3, <1>4 DEF Base

Sends ==
  \/ \E files \in SUBSET Files, name \in FdNames \cup {Absent}, poll \in Polls :
       FdStore(files, name, poll)
  \/ \E name \in FdNames : FdStoreRemove(name)
  \/ BarrierBegin

LEMMA SendsKeepBase ==
  ASSUME Base, Sends
  PROVE  /\ Base' /\ PastKept
         /\ service = "up" /\ service' \in {"up", "barrier"}
         /\ UNCHANGED <<lives, acked, store, hungup>>
<1>0. lives \in Nat
  BY DEF Base, LogOK
<1>1. ASSUME NEW files \in SUBSET Files, NEW name \in FdNames \cup {Absent}, NEW poll \in Polls,
             FdStore(files, name, poll)
      PROVE  \E m \in Messages : Proper(m) /\ Send(m) /\ service' = service /\ acked' = acked
  <2> DEFINE m == [kind |-> "store", name |-> name, files |-> files, poll |-> poll, life |-> lives]
  <2>1. m \in Messages
    BY <1>0 DEF Messages
  <2>2. Proper(m)
    <3>1. name # Absent => Len(name) = 1
      BY <1>1 DEF FdStore, CheckFdname
    <3> QED
      BY <1>0, <3>1 DEF Proper
  <2>3. Send(m) /\ service' = service /\ acked' = acked
    BY <1>1 DEF FdStore, Message
  <2> QED
    BY <2>1, <2>2, <2>3
<1>2. ASSUME NEW name \in FdNames, FdStoreRemove(name)
      PROVE  \E m \in Messages : Proper(m) /\ Send(m) /\ service' = service /\ acked' = acked
  <2> DEFINE m == [kind |-> "remove", name |-> name, files |-> {}, poll |-> Absent, life |-> lives]
  <2>1. m \in Messages
    BY <1>0 DEF Messages
  <2>2. Proper(m)
    <3>1. Len(name) = 1
      BY <1>2 DEF FdStoreRemove, CheckFdname
    <3> QED
      BY <1>0, <3>1 DEF Proper
  <2>3. Send(m) /\ service' = service /\ acked' = acked
    BY <1>2 DEF FdStoreRemove, Message
  <2> QED
    BY <2>1, <2>2, <2>3
<1>3. ASSUME BarrierBegin
      PROVE  \E m \in Messages : Proper(m) /\ Send(m) /\ service' = "barrier" /\ acked' = acked
  <2> DEFINE m == [kind |-> "barrier", name |-> Absent, files |-> {}, poll |-> Absent, life |-> lives]
  <2>1. m \in Messages
    BY <1>0 DEF Messages
  <2>2. Proper(m)
    BY <1>0 DEF Proper
  <2>3. Send(m) /\ service' = "barrier" /\ acked' = acked
    BY <1>3 DEF BarrierBegin, Message
  <2> QED
    BY <2>1, <2>2, <2>3
<1>4. PICK m \in Messages : Proper(m) /\ Send(m) /\ service' \in {service, "barrier"} /\ acked' = acked
  BY <1>1, <1>2, <1>3 DEF Sends
<1>5. service = "up" /\ UNCHANGED <<lives, store, hungup>>
  BY <1>4 DEF Send, world
<1>6. service' \in {"up", "barrier"}
  BY <1>4, <1>5
<1> QED
  BY <1>4, <1>5, <1>6, SendKeepsBase

\* What the manager has handled grows by the oldest message.
LEMMA PastGrows ==
  ASSUME LogOK, UNCHANGED log, Handled \in Nat, Handled' = Handled + 1,
         Handled + 1 \in DOMAIN log
  PROVE  LET h == Handled
             m == log[h + 1]
         IN  /\ 1..Handled' = 1..h \cup {h + 1} /\ \A i \in 1..h : i < h + 1 /\ ~(h + 1 < i)
             /\ \A f : StoredBy(f)' = StoredBy(f) \cup
                         {i \in {h + 1} : m.kind = "store" /\ f \in m.files}
             /\ \A name : RemovedBy(name)' = RemovedBy(name) \cup
                            {i \in {h + 1} : m.kind = "remove" /\ m.name = name}
<1> DEFINE h == Handled
           m == log[h + 1]
<1>1. /\ Handled' = h + 1 /\ 1..(h + 1) = 1..h \cup {h + 1}
      /\ \A i \in 1..h : i < h + 1 /\ ~(h + 1 < i)
  OBVIOUS
<1>2. /\ h + 1 \in DOMAIN log /\ log' = log
      /\ \A f : StoredBy(f)' = StoresOf(f)' \cap (1..h \cup {h + 1})
      /\ \A name : RemovedBy(name)' = RemovalsOf(name)' \cap (1..h \cup {h + 1})
  BY <1>1, Zenon DEF StoredBy, RemovedBy
<1> HIDE DEF h
<1>3. ASSUME NEW f PROVE StoredBy(f)' = StoredBy(f) \cup
                           {i \in {h + 1} : m.kind = "store" /\ f \in m.files}
  <2>1. StoresOf(f)' = StoresOf(f)
    BY <1>2 DEF StoresOf
  <2>2. h + 1 \in StoresOf(f) <=> m.kind = "store" /\ f \in m.files
    BY <1>2, Zenon DEF StoresOf
  <2> QED
    BY <1>2, <2>1, <2>2 DEF StoredBy, h
<1>4. ASSUME NEW name PROVE RemovedBy(name)' = RemovedBy(name) \cup
                              {i \in {h + 1} : m.kind = "remove" /\ m.name = name}
  <2>1. RemovalsOf(name)' = RemovalsOf(name)
    BY <1>2 DEF RemovalsOf
  <2>2. h + 1 \in RemovalsOf(name) <=> m.kind = "remove" /\ m.name = name
    BY <1>2, Zenon DEF RemovalsOf
  <2> QED
    BY <1>2, <2>1, <2>2 DEF RemovedBy, h
<1> QED
  BY <1>1, <1>3, <1>4 DEF h

\* What is new in the store carries the name and the wish of the message.
LEMMA HandleKeepsBase ==
  ASSUME Base, Handle
  PROVE  Base'
<1> DEFINE h == Handled
           m == log[h + 1]
<1>1. /\ queue # <<>> /\ queue' = Tail(queue) /\ store' = AfterMessage(Head(queue))
      /\ UNCHANGED <<service, open, log, acked>> /\ UNCHANGED <<passed, fdnames, found, hungup, lives>>
  BY DEF Handle, world
<1>2. /\ LogOK' /\ h \in Nat /\ Handled' = h + 1 /\ h + 1 \in DOMAIN log
      /\ Head(queue) = m /\ m \in Messages
  BY <1>1, TakeKeepsLog DEF Base
<1>3. /\ \A f : StoredBy(f) \subseteq StoredBy(f)'
      /\ m.kind = "store" => \A f \in m.files : h + 1 \in StoredBy(f)'
  BY <1>1, <1>2, PastGrows, Zenon DEF Base
<1>4. Proper(m)
  BY <1>2 DEF Base, LogOK
<1> HIDE DEF h, m
<1>5. ASSUME NEW e \in store'
      PROVE  \/ e \in store
             \/ /\ m.kind = "store"
                /\ \E f \in New(m.files) : e = [file |-> f, name |-> NameOf(m.name), poll |-> m.poll]
  <2>1. m.kind \in {"store", "remove", "barrier"}
    BY <1>2 DEF Messages
  <2> QED
    BY <1>1, <1>2, <1>5, <2>1 DEF AfterMessage
<1>6. ASSUME m.kind = "store", NEW f \in New(m.files)
      PROVE  /\ f \in Files /\ f \in m.files /\ NameOf(m.name) \in ManagerNames
             /\ m.poll \in Polls /\ \A e \in store : e.file # f
  <2>1. f \in m.files /\ \A e \in store : e.file # f
    BY <1>6 DEF New
  <2>2. f \in Files
    BY <1>2, <2>1 DEF Messages
  <2>3. NameOf(m.name) \in ManagerNames
    BY RestartAssumption DEF NameOf
  <2> QED
    BY <1>4, <1>6, <2>1, <2>2, <2>3 DEF Proper
<1>7. \A e \in store' : e.file \in Files /\ e.name \in ManagerNames /\ e.poll \in Polls
  BY <1>5, <1>6 DEF Base, StoreOK
<1>8. \A d, e \in store' : d.file = e.file => d = e
  BY <1>5, <1>6 DEF Base, StoreOK
<1>9. ASSUME NEW e \in store'
      PROVE  \E i \in StoredBy(e.file)' : NameOf(log[i].name) = e.name /\ log[i].poll = e.poll
  <2>1. CASE e \in store
    <3>1. PICK i \in StoredBy(e.file) : NameOf(log[i].name) = e.name /\ log[i].poll = e.poll
      BY <2>1 DEF Base, StoreOK, StoredBy
    <3> QED
      BY <1>3, <3>1
  <2>2. CASE e \notin store
    <3>1. PICK f \in New(m.files) : e = [file |-> f, name |-> NameOf(m.name), poll |-> m.poll]
      BY <1>5, <2>2
    <3>2. m.kind = "store" /\ f \in m.files
      BY <1>5, <1>6, <2>2
    <3>3. h + 1 \in StoredBy(e.file)'
      BY <1>3, <3>1, <3>2
    <3> QED
      BY <3>1, <3>3 DEF m
  <2> QED
    BY <2>1, <2>2
<1>10. \A e \in store' : \E i \in StoredBy(e.file)' :
         NameOf(log[i].name)' = e.name /\ log'[i].poll = e.poll
  BY <1>1, <1>9 DEF NameOf
<1>11. StoreOK'
  BY <1>7, <1>8, <1>10 DEF StoreOK, StoredBy
<1>12. PassedOK' /\ ServiceOK'
  BY <1>1 DEF Base, PassedOK, ServiceOK
<1> QED
  BY <1>2, <1>11, <1>12 DEF Base

-----------------------------------------------------------------------------
(* The descriptor store: what a service is started with *)

\* A file and its name, as a service is started with them
GivenAs(f, name) == \E i \in DOMAIN passed : passed[i] = f /\ <<fdnames[i]>> = name

\* The manager keeps the file under the name.
Keeps(f, name) == \E e \in store : e.file = f /\ e.name = name

\* It is that of a .socket unit.
OfSocket(f, name) == \E i \in DOMAIN Sockets : Sockets[i].file = f /\ Sockets[i].name = name

LEMMA StoreIsFinite ==
  ASSUME StoreOK
  PROVE  IsFiniteSet(store)
<1> DEFINE file == [e \in store |-> e.file]
<1>1. file \in Injection(store, Files)
  BY DEF StoreOK, Injection, IsInjective
<1> QED
  BY <1>1, StoreConstants, FS_Injection

\* Whichever order the store comes in, all of it comes.
LEMMA StoreInOrder ==
  ASSUME StoreOK, NEW s \in SetToSeqs(store)
  PROVE  s \in Seq(store) /\ Range(s) = store
<1> DEFINE n == Cardinality(store)
<1>1. IsFiniteSet(store) /\ n \in Nat
  BY StoreIsFinite, FS_CardinalityType
<1>2. Cardinality(store) = n
  OBVIOUS
<1> HIDE DEF n
<1>3. s \in [1..n -> store] /\ \A i, j \in 1..n : i # j => s[i] # s[j]
  BY <1>2 DEF SetToSeqs
<1>4. s \in Injection(1..n, store)
  BY <1>3 DEF Injection, IsInjective
<1>5. IsFiniteSet(1..n) /\ Cardinality(1..n) = n
  <2>1. n \in Int /\ 1 \in Int
    BY <1>1
  <2>2. IsFiniteSet(1..n) /\ Cardinality(1..n) = IF 1 > n THEN 0 ELSE n - 1 + 1
    BY <2>1, FS_Interval
  <2> QED
    BY <1>1, <2>2
<1>6. s \in Surjection(1..n, store)
  BY <1>1, <1>4, <1>5, FS_Injection DEF n
<1>7. s \in Seq(store)
  BY <1>1, <1>3
<1>8. Range(s) = store
  <2>1. DOMAIN s = 1..n /\ \A i \in 1..n : s[i] \in store
    BY <1>3
  <2>2. \A e \in store : \E i \in 1..n : s[i] = e
    BY <1>6, Zenon DEF Surjection
  <2> QED
    BY <2>1, <2>2, Zenon DEF Range
<1> QED
  BY <1>7, <1>8

\* A service that is started again gets its sockets and all the manager keeps,
\* each under its name.
LEMMA RestartPasses ==
  ASSUME Base, Restart
  PROVE  /\ PassedOK'
         /\ \A f, name : GivenAs(f, name)' <=> OfSocket(f, name) \/ Keeps(f, name)
<1>1. PICK s \in SetToSeqs(store) :
        /\ passed' = [i \in DOMAIN (Sockets \o s) |-> (Sockets \o s)[i].file]
        /\ fdnames' = IF Sockets \o s = <<>> THEN Absent
                      ELSE FlattenSeq([i \in DOMAIN (Sockets \o s) |-> (Sockets \o s)[i].name])
  BY DEF Restart
<1> DEFINE E == Range(Sockets) \cup store
           all == Sockets \o s
           n == Len(all)
           ns == [i \in DOMAIN all |-> all[i].name]
<1>2. s \in Seq(store) /\ Range(s) = store
  BY StoreInOrder DEF Base
<1>3. Sockets \in Seq(E) /\ s \in Seq(E)
  BY <1>2, RestartAssumption, SeqMonotonic
<1>4. /\ all \in Seq(E) /\ n = Len(Sockets) + Len(s)
      /\ \A i \in 1..(Len(Sockets) + Len(s)) :
           all[i] = IF i <= Len(Sockets) THEN Sockets[i] ELSE s[i - Len(Sockets)]
  BY <1>3, ConcatProperties
<1>5. /\ Len(Sockets) \in Nat /\ DOMAIN Sockets = 1..Len(Sockets)
      /\ Len(s) \in Nat /\ DOMAIN s = 1..Len(s)
  BY <1>3, LenProperties
<1>6. /\ passed' = [i \in DOMAIN all |-> all[i].file]
      /\ fdnames' = IF all = <<>> THEN Absent ELSE FlattenSeq(ns)
  BY <1>1
<1> HIDE DEF all, n, ns, E
<1>7. n \in Nat /\ DOMAIN all = 1..n /\ \A i \in 1..n : all[i] \in E
  BY <1>4, LenProperties, ElementOfSeq DEF n
<1>8. \A x \in E : /\ x.file \in Passable /\ x.name \in ManagerNames
                   /\ x.name \in Seq(Words \ {Empty}) \ {<<>>} /\ Len(x.name) = 1
   <2> TAKE x \in E
  <2>1. x.name \in ManagerNames
    BY RestartAssumption DEF E, Base, StoreOK
  <2>2. x.file \in Passable
    BY DEF E, Base, StoreOK, Passable, Range
  <2> QED
    BY <2>1, <2>2, RestartAssumption, StoreConstants
<1>9. /\ passed' \in [1..n -> Passable] /\ \A i \in 1..n : passed'[i] = all[i].file
      /\ ns \in [1..n -> Seq(Words \ {Empty}) \ {<<>>}] /\ \A i \in 1..n : ns[i] = all[i].name
  <2>1. \A i \in 1..n : /\ all[i].file \in Passable
                        /\ all[i].name \in Seq(Words \ {Empty}) \ {<<>>}
    BY <1>7, <1>8
  <2> QED
    BY <1>6, <1>7, <2>1 DEF ns
<1>10. passed' \in Seq(Passable) /\ Len(passed') = n /\ DOMAIN passed' = 1..n
  BY <1>7, <1>9
<1>11. ns \in Seq(Seq(Words \ {Empty}) \ {<<>>}) /\ Len(ns) = n
  <2> DEFINE S == Seq(Words \ {Empty}) \ {<<>>}
  <2> HIDE DEF S
  <2>1. ns \in [1..n -> S]
    BY <1>9 DEF S
  <2>2. ns \in Seq(S) /\ Len(ns) = n
    BY <1>7, <2>1
  <2> QED
    BY <2>2 DEF S
<1>12. CASE n = 0
  <2>1. all = <<>>
    BY <1>4, <1>12, EmptySeq DEF n
  <2>2. fdnames' = Absent /\ passed' = <<>>
    <3>1. passed' = <<>>
      BY <1>10, <1>12, EmptySeq
    <3> QED
      BY <1>6, <2>1, <3>1
  <2>3. PassedOK'
    BY <1>10, <2>2 DEF PassedOK, Passable
  <2>4. DOMAIN Sockets = {} /\ store = {}
    <3>1. Len(Sockets) = 0 /\ Len(s) = 0
      BY <1>4, <1>5, <1>12
    <3>2. DOMAIN s = {} /\ DOMAIN Sockets = {}
      BY <1>5, <3>1
    <3> QED
      BY <1>2, <3>2 DEF Range
  <2>5. DOMAIN passed' = {}
    BY <1>10, <1>12
  <2> QED
    BY <2>3, <2>4, <2>5 DEF GivenAs, OfSocket, Keeps
<1>13. CASE n # 0
  <2>1. all # <<>> /\ ns # <<>>
    BY <1>11, <1>13, EmptySeq DEF n
  <2>2. fdnames' = FlattenSeq(ns)
    BY <1>6, <2>1
  <2>3. \A i \in 1..n : Len(ns[i]) = 1
    BY <1>7, <1>8, <1>9
  <2>4. Len(fdnames') = n /\ \A i \in 1..n : fdnames'[i] = ns[i][1]
    BY <1>11, <2>1, <2>2, <2>3, FlattenSingles
  <2>5. fdnames' \in Seq(Words \ {Empty})
    <3>1. ns \in Seq(Seq(Words \ {Empty}))
      BY <1>11, SeqMonotonic
    <3> QED
      BY <2>2, <3>1, FlattenType
  <2>6. fdnames' # Absent
    <3>1. fdnames' \in Seq(Words)
      BY <2>5, SeqMonotonic
    <3> QED
      BY <3>1, DescriptorNamesAssumption
  <2>7. PassedOK'
    BY <1>10, <2>4, <2>5, <2>6 DEF PassedOK, Passable
  <2>8. \A i \in 1..n : <<fdnames'[i]>> = all[i].name
    <3> TAKE i \in 1..n
    <3>1. all[i].name \in Seq(Words \ {Empty}) /\ Len(all[i].name) = 1
      BY <1>7, <1>8
    <3>2. fdnames'[i] = all[i].name[1]
      BY <1>9, <2>4
    <3> QED
      BY <3>1, <3>2
  <2>9. ASSUME NEW f, NEW name
        PROVE  GivenAs(f, name)' <=> \E i \in 1..n : all[i].file = f /\ all[i].name = name
    <3>1. GivenAs(f, name)' <=> \E i \in 1..n : passed'[i] = f /\ <<fdnames'[i]>> = name
      BY <1>10 DEF GivenAs
    <3> QED
      BY <1>9, <2>8, <3>1, Zenon
  <2>10. ASSUME NEW f, NEW name
         PROVE  (\E i \in 1..n : all[i].file = f /\ all[i].name = name)
                  <=> OfSocket(f, name) \/ Keeps(f, name)
    <3>1. ASSUME NEW i \in 1..n, all[i].file = f, all[i].name = name
          PROVE  OfSocket(f, name) \/ Keeps(f, name)
      <4>1. CASE i <= Len(Sockets)
        <5>1. i \in DOMAIN Sockets /\ all[i] = Sockets[i]
          BY <1>4, <1>5, <4>1
        <5> QED
          BY <3>1, <5>1 DEF OfSocket
      <4>2. CASE ~(i <= Len(Sockets))
        <5>1. i - Len(Sockets) \in DOMAIN s /\ all[i] = s[i - Len(Sockets)]
          <6>1. i \in 1..(Len(Sockets) + Len(s)) /\ i \in Nat
            BY <1>4, <1>7
          <6>2. i - Len(Sockets) \in 1..Len(s)
            BY <1>5, <4>2, <6>1
          <6> QED
            BY <1>4, <1>5, <4>2, <6>1, <6>2
        <5>2. all[i] \in store
          BY <1>2, <5>1 DEF Range
        <5> QED
          BY <3>1, <5>2 DEF Keeps
      <4> QED
        BY <4>1, <4>2
    <3>2. ASSUME NEW i \in DOMAIN Sockets, Sockets[i].file = f, Sockets[i].name = name
          PROVE  \E j \in 1..n : all[j].file = f /\ all[j].name = name
      <4>1. i \in 1..n /\ all[i] = Sockets[i]
        BY <1>4, <1>5
      <4> QED
        BY <3>2, <4>1
    <3>3. ASSUME NEW e \in store, e.file = f, e.name = name
          PROVE  \E j \in 1..n : all[j].file = f /\ all[j].name = name
      <4>1. PICK k \in DOMAIN s : s[k] = e
        BY <1>2 DEF Range
      <4> DEFINE j == Len(Sockets) + k
      <4>2. j \in 1..n /\ ~(j <= Len(Sockets)) /\ j - Len(Sockets) = k
        BY <1>4, <1>5
      <4> HIDE DEF j
      <4>3. all[j] = e
        BY <1>4, <4>1, <4>2
      <4> QED
        BY <3>3, <4>2, <4>3
    <3> QED
      BY <3>1, <3>2, <3>3 DEF OfSocket, Keeps
  <2> QED
    BY <2>7, <2>9, <2>10
<1> QED
  BY <1>7, <1>12, <1>13

-----------------------------------------------------------------------------
(* The descriptor store: what it finds *)

\* What listen_fds_with_names finds: as many names as there are descriptors, and
\* under each the numbers that carry it.
LEMMA FindFinds ==
  ASSUME PassedOK, Find
  PROVE  /\ \A word \in DOMAIN found' : word \in Words /\ found'[word] \in Seq(Nat)
         /\ \A f, name : name \in ManagerNames => (FoundUnder(f, name)' <=> GivenAs(f, name))
<1> DEFINE n == Len(passed)
           ns == FdNamesFound
<1>1. /\ found' = IF AsMany(fdnames, Len(passed))
                  THEN [word \in Range(ns) |-> NumbersOf(word)] ELSE <<>>
      /\ passed' = passed
  BY DEF Find, ListenFdsWithNames
<1>2. /\ n \in Nat /\ DOMAIN passed = 1..n
      /\ fdnames \in Seq(Words \ {Empty}) \cup {Absent}
      /\ n # 0 => fdnames # Absent /\ Len(fdnames) = n
  <2>1. n \in Nat /\ DOMAIN passed = 1..n
    BY LenProperties DEF PassedOK
  <2>2. n # 0 => passed # <<>>
    BY EmptySeq
  <2> QED
    BY <2>1, <2>2 DEF PassedOK
<1>4. fdnames # Absent => fdnames \in Seq(Words \ {Empty}) /\ fdnames # <<Empty>>
                         /\ DOMAIN fdnames = 1..Len(fdnames) /\ Len(fdnames) \in Nat
                         /\ \A i \in DOMAIN fdnames : fdnames[i] \in Words \ {Empty}
  <2> SUFFICES ASSUME fdnames # Absent
               PROVE  /\ fdnames \in Seq(Words \ {Empty}) /\ fdnames # <<Empty>>
                      /\ DOMAIN fdnames = 1..Len(fdnames) /\ Len(fdnames) \in Nat
                      /\ \A i \in DOMAIN fdnames : fdnames[i] \in Words \ {Empty}
    OBVIOUS
  <2>1. fdnames \in Seq(Words \ {Empty})
    BY <1>2
  <2>2. DOMAIN fdnames = 1..Len(fdnames) /\ Len(fdnames) \in Nat
    BY <2>1, LenProperties
  <2>3. \A i \in DOMAIN fdnames : fdnames[i] \in Words \ {Empty}
    BY <2>1, <2>2, ElementOfSeq
  <2>4. fdnames # <<Empty>>
    <3> SUFFICES ASSUME fdnames = <<Empty>> PROVE FALSE
      OBVIOUS
    <3>1. 1 \in DOMAIN fdnames /\ fdnames[1] = Empty
      OBVIOUS
    <3> QED
      BY <2>3, <3>1
  <2> QED
    BY <2>1, <2>2, <2>3, <2>4
<1>5. /\ n # 0 => ns = fdnames
      /\ Range(ns) \subseteq Words
  <2>1. CASE fdnames = Absent
    <3>1. ns = [i \in 1..n |-> Unnamed]
      BY <2>1 DEF FdNamesFound, NamesFound
    <3>2. Range(ns) \subseteq {Unnamed}
      <4> HIDE DEF ns, n
      <4> QED
        BY <3>1 DEF Range
    <3> QED
      BY <1>2, <2>1, <3>2, DescriptorNamesAssumption
  <2>2. CASE fdnames # Absent
    <3>1. ns = [i \in DOMAIN fdnames |-> Reported(fdnames[i])]
      BY <1>4, <2>2 DEF FdNamesFound, NamesFound
    <3>2. \A i \in DOMAIN fdnames : Reported(fdnames[i]) = fdnames[i]
      BY <1>4, <2>2 DEF Reported
    <3> HIDE DEF ns
    <3>3. ns = [i \in DOMAIN fdnames |-> fdnames[i]]
      BY <3>1, <3>2
    <3>4. ns = fdnames
      BY <1>4, <2>2, <3>3
    <3>5. Range(ns) \subseteq Words
      BY <1>4, <2>2, <3>4 DEF Range
    <3> QED
      BY <3>4, <3>5
  <2> QED
    BY <2>1, <2>2
<1>6. AsMany(fdnames, Len(passed))
  BY <1>2, <1>5 DEF AsMany, FdNamesFound
<1>7. ASSUME NEW word
      PROVE  /\ NumbersOf(word) \in Seq(Nat)
             /\ Range(NumbersOf(word)) = NumbersUnder(word, n, ns)
  <2> DEFINE f == CHOOSE f : Collects(f, n, ns, word)
  <2>1. NumbersOf(word) = f[n]
    BY DEF NumbersOf, Collects
  <2> HIDE DEF ns, n
  <2>3. n \in Nat
    BY <1>2
  <2>4. Collects(f, n, ns, word)
    BY <2>3, CollectExists
  <2> HIDE DEF f
  <2>2. f[n] \in Seq(Nat) /\ Range(f[n]) = NumbersUnder(word, n, ns)
    BY <2>3, <2>4, CollectFinds
  <2> QED
    BY <2>1, <2>2
<1>8. found' = [word \in Range(ns) |-> NumbersOf(word)]
  BY <1>1, <1>6
<1>9. \A word \in DOMAIN found' : word \in Words /\ found'[word] \in Seq(Nat)
  BY <1>5, <1>7, <1>8
<1>10. ASSUME NEW f, NEW name \in ManagerNames
       PROVE  FoundUnder(f, name)' <=> GivenAs(f, name)
  <2> HIDE DEF ns, n
  <2>1. FoundUnder(f, name)'
          <=> name[1] \in Range(ns)
              /\ \E k \in Range(NumbersOf(name[1])) : passed[k - Start + 1] = f
    BY <1>1, <1>8 DEF FoundUnder, Range
  <2>2. (\E k \in Range(NumbersOf(name[1])) : passed[k - Start + 1] = f)
          <=> \E i \in 1..n : ns[i] = name[1] /\ passed[i] = f
    <3> DEFINE ks == Range(NumbersOf(name[1]))
    <3>1. \A i \in 1..n : (Start + i - 1) - Start + 1 = i /\ Start + i - 1 \in Nat
      BY <1>2, DescriptorNamesAssumption
    <3>2. \A k : k \in ks <=> \E i \in 1..n : ns[i] = name[1] /\ k = Start + i - 1
      <4>1. ks = NumbersUnder(name[1], n, ns)
        BY <1>7
      <4> HIDE DEF ks
      <4> QED
        BY <3>1, <4>1 DEF NumbersUnder
    <3> HIDE DEF ks
    <3>3. (\E k \in ks : passed[k - Start + 1] = f)
            <=> \E i \in 1..n : ns[i] = name[1] /\ passed[(Start + i - 1) - Start + 1] = f
      <4>1. ASSUME NEW k \in ks, passed[k - Start + 1] = f
            PROVE  \E i \in 1..n : ns[i] = name[1] /\ passed[(Start + i - 1) - Start + 1] = f
        <5>1. PICK i \in 1..n : ns[i] = name[1] /\ k = Start + i - 1
          BY <3>2
        <5> QED
          BY <4>1, <5>1
      <4>2. ASSUME NEW i \in 1..n, ns[i] = name[1], passed[(Start + i - 1) - Start + 1] = f
            PROVE  \E k \in ks : passed[k - Start + 1] = f
        <5>1. Start + i - 1 \in ks
          BY <3>2, <4>2
        <5> QED
          BY <4>2, <5>1
      <4> QED
        BY <4>1, <4>2
    <3> QED
      BY <3>1, <3>3 DEF ks
  <2>3. n # 0 => ns = fdnames /\ DOMAIN fdnames = 1..n
    BY <1>2, <1>4, <1>5
  <2>4. \A i \in 1..n : ns[i] = fdnames[i] /\ ns[i] \in Range(ns)
    BY <1>2, <2>3 DEF Range
  <2>5. FoundUnder(f, name)' <=> \E i \in 1..n : fdnames[i] = name[1] /\ passed[i] = f
    BY <2>1, <2>2, <2>4
  <2>6. \A word : <<word>> = name <=> word = name[1]
    <3>1. name \in Seq(Words \ {Empty}) /\ Len(name) = 1
      BY RestartAssumption, StoreConstants
    <3>2. name = <<name[1]>>
      BY <3>1
    <3> QED
      BY <3>2
  <2> QED
    BY <1>2, <2>5, <2>6 DEF GivenAs
<1> QED
  BY <1>9, <1>10

\* The service's other steps, and those of the kernel
LEMMA OthersKeepBase ==
  ASSUME Base,
         \/ BarrierFinish \/ BarrierTimesOut \/ Crash \/ Find
         \/ \E f \in Files : HangUp(f)
         \/ UNCHANGED storeVars
  PROVE  Base' /\ PastKept
<1>1. UNCHANGED <<log, queue>> /\ UNCHANGED <<store, passed, fdnames>> /\ lives' = lives
  BY DEF BarrierFinish, BarrierTimesOut, Crash, Find, HangUp, storeVars, world
<1>2. PastKept
  BY <1>1, LogUnchanged DEF Base
<1>3. StoreOK' /\ PassedOK'
  BY <1>1, <1>2, StoreUnchanged DEF Base, PassedOK
<1>4. acked' \subseteq 1..Handled
  <2>1. BarrierFinish => acked' \subseteq 1..Handled
    <3> SUFFICES ASSUME BarrierFinish PROVE acked' \subseteq 1..Handled
      OBVIOUS
    <3>1. Handled = Len(log) /\ acked' \subseteq acked \cup DOMAIN log
      BY DEF BarrierFinish, BarrierAnswers
    <3> QED
      BY <3>1, QueueTypes DEF Base, LogOK
  <2>2. ~BarrierFinish => acked' = acked
    BY DEF BarrierTimesOut, Crash, Find, HangUp, storeVars
  <2> QED
    BY <2>1, <2>2 DEF Base, LogOK
<1>5. LogOK'
  <2>1. Handled' = Handled
    BY <1>2 DEF PastKept
  <2> QED
    BY <1>1, <1>4, <2>1 DEF Base, LogOK, Proper
<1>6. ServiceOK'
  <2>1. CASE BarrierFinish \/ BarrierTimesOut
    BY <2>1 DEF Base, ServiceOK, BarrierFinish, BarrierTimesOut, world
  <2>2. CASE Crash
    BY <2>2 DEF Base, ServiceOK, Crash, world
  <2>3. CASE Find
    <3>1. \A word \in DOMAIN found' : word \in Words /\ found'[word] \in Seq(Nat)
      BY <2>3, FindFinds DEF Base
    <3> QED
      BY <2>3, <3>1 DEF Base, ServiceOK, Find
  <2>4. CASE \E f \in Files : HangUp(f)
    BY <2>4 DEF Base, ServiceOK, HangUp
  <2>5. CASE UNCHANGED storeVars
    BY <2>5 DEF Base, ServiceOK, storeVars, world
  <2> QED
    BY <2>1, <2>2, <2>3, <2>4, <2>5
<1> QED
  BY <1>2, <1>3, <1>5, <1>6 DEF Base

-----------------------------------------------------------------------------
(* The descriptor store: the other steps *)

\* The manager lets go of a file that hung up.
LEMMA DropKeepsBase ==
  ASSUME Base, DropHungUp
  PROVE  Base' /\ PastKept
<1>1. PICK e \in store : e.file \in hungup /\ e.poll # FALSE /\ store' = store \ {e}
  BY DEF DropHungUp
<1>2. UNCHANGED <<service, open, queue, log, acked>> /\ UNCHANGED <<passed, fdnames, found, hungup, lives>>
  BY DEF DropHungUp, world
<1>3. PastKept
  BY <1>2, LogUnchanged DEF Base
<1>4. Handled' = Handled
  BY <1>3 DEF PastKept
<1>5. LogOK' /\ PassedOK' /\ ServiceOK'
  BY <1>2, <1>4 DEF Base, LogOK, Proper, PassedOK, ServiceOK
<1>6. ASSUME NEW d \in store
      PROVE  \E i \in StoredBy(d.file)' : NameOf(log[i].name)' = d.name /\ log'[i].poll = d.poll
  <2>1. PICK i \in StoredBy(d.file) : NameOf(log[i].name) = d.name /\ log[i].poll = d.poll
    BY DEF Base, StoreOK, StoredBy
  <2>2. i \in StoredBy(d.file)'
    BY <1>3, <2>1, PastIsKept
  <2> QED
    BY <1>2, <2>1, <2>2 DEF NameOf
<1>7. StoreOK'
  BY <1>1, <1>6 DEF Base, StoreOK, StoredBy
<1> QED
  BY <1>3, <1>5, <1>7 DEF Base

\* The manager takes the oldest message: it counts, or it is lost.
LEMMA LossKeepsBase ==
  ASSUME Base, LoseMessage
  PROVE  Base'
<1>1. /\ queue # <<>> /\ queue' = Tail(queue) /\ UNCHANGED <<service, open, store, log, acked>>
      /\ UNCHANGED <<passed, fdnames, found, hungup, lives>>
  BY DEF LoseMessage, world
<1>2. LogOK' /\ Handled \in Nat /\ Handled' = Handled + 1 /\ Handled + 1 \in DOMAIN log
  BY <1>1, TakeKeepsLog DEF Base
<1>3. \A f : StoredBy(f) \subseteq StoredBy(f)'
  BY <1>1, <1>2, PastGrows, Zenon DEF Base
<1>4. ASSUME NEW d \in store
      PROVE  \E i \in StoredBy(d.file)' : NameOf(log[i].name)' = d.name /\ log'[i].poll = d.poll
  <2>1. PICK i \in StoredBy(d.file) : NameOf(log[i].name) = d.name /\ log[i].poll = d.poll
    BY DEF Base, StoreOK, StoredBy
  <2> QED
    BY <1>1, <1>3, <2>1 DEF NameOf
<1>5. StoreOK'
  BY <1>1, <1>4 DEF Base, StoreOK, StoredBy
<1>6. PassedOK' /\ ServiceOK'
  BY <1>1 DEF Base, PassedOK, ServiceOK
<1> QED
  BY <1>2, <1>5, <1>6 DEF Base

LEMMA RestartKeepsBase ==
  ASSUME Base, Restart
  PROVE  Base' /\ PastKept
<1>1. /\ UNCHANGED <<open, hungup, queue, store, log, acked>> /\ found' = <<>> /\ service' = "starting"
      /\ lives' = lives + 1 /\ lives < MaxLives
  BY DEF Restart
<1>2. PastKept
  BY <1>1, LogUnchanged DEF Base
<1>3. StoreOK'
  BY <1>1, <1>2, StoreUnchanged DEF Base
<1>4. LogOK'
  <2>1. MaxLives \in Nat /\ lives \in Nat /\ lives' \in 1..MaxLives
    BY <1>1, RestartAssumption DEF Base, LogOK
  <2>2. Handled' = Handled
    BY <1>2 DEF PastKept
  <2>3. \A i \in DOMAIN log : Proper(log[i])'
    <3> TAKE i \in DOMAIN log
    <3>1. log[i] \in Messages /\ Proper(log[i])
      BY ElementOfSeq, LenProperties DEF Base, LogOK
    <3>2. log[i].life \in Nat /\ log[i].life <= lives
      BY <3>1 DEF Messages, Proper
    <3>3. log[i].life <= lives'
      BY <1>1, <2>1, <3>2
    <3> QED
      BY <1>1, <3>1, <3>3 DEF Proper
  <2> QED
    BY <1>1, <2>1, <2>2, <2>3 DEF Base, LogOK
<1>5. ServiceOK'
  BY <1>1 DEF Base, ServiceOK
<1> QED
  BY <1>2, <1>3, <1>4, <1>5, RestartPasses DEF Base

LEMMA BaseStep == Base /\ [StoreNext]_storeVars => Base'
<1> SUFFICES ASSUME Base, [StoreNext]_storeVars PROVE Base'
  OBVIOUS
<1>1. CASE Sends
  BY <1>1, SendsKeepBase
<1>2. CASE Handle
  BY <1>2, HandleKeepsBase
<1>3. CASE LoseMessage
  BY <1>3, LossKeepsBase
<1>4. CASE DropHungUp
  BY <1>4, DropKeepsBase
<1>5. CASE Restart
  BY <1>5, RestartKeepsBase
<1>6. CASE \/ BarrierFinish \/ BarrierTimesOut \/ Crash \/ Find
           \/ \E f \in Files : HangUp(f)
           \/ UNCHANGED storeVars
  BY <1>6, OthersKeepBase
<1> QED
  BY <1>1, <1>2, <1>3, <1>4, <1>5, <1>6 DEF StoreNext, Sends

\* Whatever is sent, handled, lost or dropped, and wherever the service dies, the
\* variables keep their types: the queue is the end of the log, no file is kept
\* twice, and each is kept under a proper name and with a wish that was sent.
THEOREM StoreTypeCorrect == StoreSpec => []StoreTypeOK
<1>1. StoreInit => Base
  BY BaseInit
<1>2. Base /\ [StoreNext]_storeVars => Base'
  BY BaseStep
<1>3. Base => StoreTypeOK
  BY BaseIsTyped
<1> QED
  BY <1>1, <1>2, <1>3, PTL DEF StoreSpec

-----------------------------------------------------------------------------
(* The descriptor store: what is kept *)

\* A message that has counted, or will have when the service gets the answer of
\* a barrier: it was sent in this life, and was handled before it could be lost.
Certain(i) == i \in acked \/ (log[i].life = lives /\ service # "down")

\* Message i stored f under the name, and nothing that was handled tells against it.
KeptBy(i, f, name) ==
  /\ i \in StoredBy(f)
  /\ \A j \in RemovedBy(name) : j < i
  /\ \A j \in StoredBy(f) : /\ NameOf(log[j].name) = name
                            /\ f \in hungup => log[j].poll = FALSE

\* Message i removed the name, and nothing that was handled stored f again.
GoneBy(i, f, name) == i \in RemovedBy(name) /\ \A j \in StoredBy(f) : j < i

\* What a certain message says is so.
ContentOf(f, name) ==
  \A i \in 1..Handled : Certain(i) =>
    /\ KeptBy(i, f, name) => Keeps(f, name)
    /\ GoneBy(i, f, name) => ~Keeps(f, name)

Content == \A f \in Files, name \in ManagerNames : ContentOf(f, name)

\* Where the manager neither handles nor loses a message
LEMMA ContentKept ==
  ASSUME Content, PastKept, UNCHANGED store, hungup \subseteq hungup',
         \A i \in 1..Handled : Certain(i)' => Certain(i)
  PROVE  Content'
<1> SUFFICES ASSUME NEW f \in Files, NEW name \in ManagerNames PROVE ContentOf(f, name)'
  BY DEF Content
<1>1. /\ 1..Handled' = 1..Handled
      /\ StoredBy(f)' = StoredBy(f) /\ RemovedBy(name)' = RemovedBy(name)
      /\ Keeps(f, name)' = Keeps(f, name)
  BY PastIsKept DEF Keeps
<1>2. ContentOf(f, name)
  BY DEF Content
<1>3. ASSUME NEW i \in 1..Handled
      PROVE  /\ KeptBy(i, f, name)' => KeptBy(i, f, name)
             /\ GoneBy(i, f, name)' => GoneBy(i, f, name)
  <2>1. \A j \in StoredBy(f) : log'[j] = log[j]
    BY DEF PastKept, StoredBy
  <2>2. \A j \in StoredBy(f) : NameOf(log[j].name)' = NameOf(log[j].name)
    BY <2>1 DEF NameOf
  <2>3. KeptBy(i, f, name)' => KeptBy(i, f, name)
    BY <1>1, <2>1, <2>2 DEF KeptBy
  <2> QED
    BY <1>1, <2>3 DEF GoneBy
<1> QED
  BY <1>1, <1>2, <1>3 DEF ContentOf

\* Where it does, without reading more into an earlier message
LEMMA MessageTaken ==
  ASSUME LogOK, Content, UNCHANGED <<log, acked, lives, service, hungup>>,
         Handled \in Nat, Handled' = Handled + 1, Handled + 1 \in DOMAIN log,
         NEW f \in Files, NEW name \in ManagerNames, NEW i \in 1..Handled
  PROVE  LET h == Handled
             m == log[h + 1]
         IN  /\ KeptBy(i, f, name)' => KeptBy(i, f, name) /\ ~(m.kind = "remove" /\ m.name = name)
             /\ GoneBy(i, f, name)' => GoneBy(i, f, name) /\ ~(m.kind = "store" /\ f \in m.files)
             /\ Certain(i)' = Certain(i)
<1> DEFINE h == Handled
           m == log[h + 1]
<1>1. /\ ~(h + 1 < i)
      /\ StoredBy(f)' = StoredBy(f) \cup {j \in {h + 1} : m.kind = "store" /\ f \in m.files}
      /\ RemovedBy(name)' = RemovedBy(name) \cup {j \in {h + 1} : m.kind = "remove" /\ m.name = name}
  BY PastGrows, Zenon
<1>2. i # h + 1
  OBVIOUS
<1> HIDE DEF h, m
<1>3. Certain(i)' = Certain(i)
  BY DEF Certain
<1>4. KeptBy(i, f, name)' => KeptBy(i, f, name) /\ ~(m.kind = "remove" /\ m.name = name)
  BY <1>1, <1>2 DEF KeptBy, NameOf
<1>5. GoneBy(i, f, name)' => GoneBy(i, f, name) /\ ~(m.kind = "store" /\ f \in m.files)
  BY <1>1, <1>2 DEF GoneBy
<1> QED
  BY <1>3, <1>4, <1>5 DEF h, m

\* A message is lost only after the death of the service: nobody relies on it.
LEMMA LossKeepsContent ==
  ASSUME Base, Content, LoseMessage
  PROVE  Content'
<1>1. /\ service = "down" /\ queue # <<>> /\ queue' = Tail(queue)
      /\ UNCHANGED <<service, store, log, acked>> /\ UNCHANGED <<hungup, lives>>
  BY DEF LoseMessage, world
<1>2. Handled \in Nat /\ Handled' = Handled + 1 /\ Handled + 1 \in DOMAIN log
  BY <1>1, TakeKeepsLog DEF Base
<1> SUFFICES ASSUME NEW f \in Files, NEW name \in ManagerNames PROVE ContentOf(f, name)'
  BY DEF Content
<1>3. ContentOf(f, name) /\ Keeps(f, name)' = Keeps(f, name)
  BY <1>1 DEF Content, Keeps
<1>4. ASSUME NEW i \in 1..Handled
      PROVE  /\ KeptBy(i, f, name)' => KeptBy(i, f, name)
             /\ GoneBy(i, f, name)' => GoneBy(i, f, name)
             /\ Certain(i)' = Certain(i)
  BY <1>1, <1>2, MessageTaken DEF Base
<1>5. PICK k \in Nat : k = Handled + 1
  BY <1>2
<1>6. ~Certain(k)'
  <2>1. k \notin acked
    BY <1>2, <1>5 DEF Base, LogOK
  <2> QED
    BY <1>1, <2>1 DEF Certain
<1>7. 1..Handled' = 1..Handled \cup {k}
  BY <1>2, <1>5
<1> QED
  BY <1>3, <1>4, <1>6, <1>7 DEF ContentOf

\* What a certain message told the manager to keep it does not drop.
LEMMA DropKeepsContent ==
  ASSUME Base, Content, DropHungUp
  PROVE  Content'
<1>1. PICK d \in store : d.file \in hungup /\ d.poll # FALSE /\ store' = store \ {d}
  BY DEF DropHungUp
<1>2. UNCHANGED <<service, log, acked, hungup, lives, queue>>
  BY DEF DropHungUp, world
<1>3. PastKept
  BY <1>2, LogUnchanged DEF Base
<1> SUFFICES ASSUME NEW f \in Files, NEW name \in ManagerNames PROVE ContentOf(f, name)'
  BY DEF Content
<1>4. /\ 1..Handled' = 1..Handled
      /\ StoredBy(f)' = StoredBy(f) /\ RemovedBy(name)' = RemovedBy(name)
  BY <1>3, PastIsKept
<1>5. ContentOf(f, name)
  BY DEF Content
<1>6. ASSUME NEW i \in 1..Handled
      PROVE  /\ KeptBy(i, f, name)' = KeptBy(i, f, name)
             /\ GoneBy(i, f, name)' = GoneBy(i, f, name)
             /\ Certain(i)' = Certain(i)
  BY <1>2, <1>4 DEF KeptBy, GoneBy, Certain, NameOf
<1>7. Keeps(f, name)' => Keeps(f, name)
  BY <1>1 DEF Keeps
<1>8. ASSUME NEW i \in 1..Handled, KeptBy(i, f, name), Keeps(f, name)
      PROVE  Keeps(f, name)'
  <2>1. PICK e \in store : e.file = f /\ e.name = name
    BY <1>8 DEF Keeps
  <2>2. PICK j \in StoredBy(d.file) : log[j].poll = d.poll
    BY DEF Base, StoreOK, StoredBy
  <2>3. d.file # f
    BY <1>1, <1>8, <2>2 DEF KeptBy
  <2>4. e \in store'
    BY <1>1, <2>1, <2>3
  <2> QED
    BY <2>1, <2>4 DEF Keeps
<1> QED
  BY <1>4, <1>5, <1>6, <1>7, <1>8 DEF ContentOf

\* What the manager has already, it has under the name it was stored with.
LEMMA HandleKeepsContent ==
  ASSUME Base, Content, Handle
  PROVE  Content'
<1> DEFINE h == Handled
           m == log[h + 1]
<1>1. /\ queue # <<>> /\ queue' = Tail(queue) /\ store' = AfterMessage(Head(queue))
      /\ UNCHANGED <<service, log, acked>> /\ UNCHANGED <<hungup, lives>>
  BY DEF Handle, world
<1>2. /\ h \in Nat /\ Handled' = h + 1 /\ h + 1 \in DOMAIN log
      /\ Head(queue) = m /\ m \in Messages
  BY <1>1, TakeKeepsLog DEF Base
<1> SUFFICES ASSUME NEW f \in Files, NEW name \in ManagerNames PROVE ContentOf(f, name)'
  BY DEF Content
<1>3. ContentOf(f, name)
  BY DEF Content
<1>4. ASSUME NEW i \in 1..h
      PROVE  /\ KeptBy(i, f, name)' => KeptBy(i, f, name) /\ ~(m.kind = "remove" /\ m.name = name)
             /\ GoneBy(i, f, name)' => GoneBy(i, f, name) /\ ~(m.kind = "store" /\ f \in m.files)
             /\ Certain(i)' = Certain(i)
  BY <1>1, <1>2, MessageTaken DEF Base
<1>k. PICK k \in Nat : k = h + 1
  BY <1>2
<1>5. /\ StoredBy(f)' = StoredBy(f) \cup {j \in {k} : m.kind = "store" /\ f \in m.files}
      /\ RemovedBy(name)' = RemovedBy(name) \cup {j \in {k} : m.kind = "remove" /\ m.name = name}
      /\ 1..Handled' = 1..h \cup {k} /\ k \notin 1..h
  <2>1. k \notin 1..h
    BY <1>2, <1>k
  <2> QED
    BY <1>1, <1>2, <1>k, <2>1, PastGrows, Zenon DEF Base
<1>6. m.kind \in {"store", "remove", "barrier"} /\ m.files \subseteq Files
  BY <1>2 DEF Messages
<1>7. \A e \in store : \E i \in StoredBy(e.file) : NameOf(log[i].name) = e.name
  BY DEF Base, StoreOK, StoredBy
<1>8. store' = AfterMessage(m) /\ log' = log /\ m = log[k]
  BY <1>1, <1>2, <1>k
<1>9. k \notin StoredBy(f) /\ k \notin RemovedBy(name)
  BY <1>5 DEF StoredBy, RemovedBy
<1> HIDE DEF h, m
<1>10. CASE m.kind = "store"
  <2>1. store' = store \cup {[file |-> g, name |-> NameOf(m.name), poll |-> m.poll] : g \in New(m.files)}
    BY <1>8, <1>10 DEF AfterMessage
  <2>2. Keeps(f, name)' <=> Keeps(f, name) \/ (f \in New(m.files) /\ NameOf(m.name) = name)
    <3> DEFINE added == {[file |-> g, name |-> NameOf(m.name), poll |-> m.poll] : g \in New(m.files)}
    <3>1. \A e \in added : e.file \in New(m.files) /\ e.name = NameOf(m.name)
      OBVIOUS
    <3>2. f \in New(m.files) => \E e \in added : e.file = f /\ e.name = NameOf(m.name)
      <4> SUFFICES ASSUME f \in New(m.files)
                   PROVE  \E e \in added : e.file = f /\ e.name = NameOf(m.name)
        OBVIOUS
      <4> WITNESS [file |-> f, name |-> NameOf(m.name), poll |-> m.poll] \in added
      <4> QED
        OBVIOUS
    <3> HIDE DEF added
    <3>3. Keeps(f, name)' <=> Keeps(f, name) \/ \E e \in added : e.file = f /\ e.name = name
      BY <2>1, Zenon DEF Keeps, added
    <3> QED
      BY <3>1, <3>2, <3>3
  <2>3. f \notin m.files => (Keeps(f, name)' <=> Keeps(f, name))
    <3>1. f \notin m.files => f \notin New(m.files)
      BY DEF New
    <3> QED
      BY <2>2, <3>1
  <2>4. ~GoneBy(k, f, name)'
    BY <1>5, <1>9, <1>10 DEF GoneBy
  <2>5. KeptBy(k, f, name)' => Keeps(f, name)'
    <3> SUFFICES ASSUME KeptBy(k, f, name)' PROVE Keeps(f, name)'
      OBVIOUS
    <3>1. f \in m.files
      BY <1>5, <1>9 DEF KeptBy
    <3>2. NameOf(m.name) = name
      <4>1. NameOf(log[k].name)' = name
        BY DEF KeptBy
      <4> QED
        BY <1>8, <4>1 DEF NameOf
    <3>3. CASE f \in New(m.files)
      BY <2>2, <3>2, <3>3
    <3>4. CASE f \notin New(m.files)
      <4>1. PICK e \in store : e.file = f
        BY <3>1, <3>4 DEF New
      <4>2. PICK i \in StoredBy(f) : NameOf(log[i].name) = e.name
        BY <1>7, <4>1
      <4>3. NameOf(log[i].name)' = name
        BY <1>5, <4>2 DEF KeptBy
      <4>4. e.name = name
        BY <1>8, <4>2, <4>3 DEF NameOf
      <4> QED
        BY <2>2, <4>1, <4>4 DEF Keeps
    <3> QED
      BY <3>3, <3>4
  <2> QED
    BY <1>3, <1>4, <1>5, <1>10, <2>2, <2>3, <2>4, <2>5 DEF ContentOf, h
<1>11. CASE m.kind = "remove"
  <2>1. store' = {e \in store : e.name # m.name}
    BY <1>8, <1>11 DEF AfterMessage
  <2>2. Keeps(f, name)' <=> Keeps(f, name) /\ name # m.name
    BY <2>1 DEF Keeps
  <2>3. ~KeptBy(k, f, name)'
    BY <1>5, <1>9, <1>11 DEF KeptBy
  <2>4. GoneBy(k, f, name)' => ~Keeps(f, name)'
    BY <1>5, <1>9, <2>2 DEF GoneBy
  <2> QED
    BY <1>3, <1>4, <1>5, <1>11, <2>2, <2>3, <2>4 DEF ContentOf, h
<1>12. CASE m.kind = "barrier"
  <2>1. store' = store
    BY <1>8, <1>12 DEF AfterMessage
  <2>2. Keeps(f, name)' = Keeps(f, name)
    BY <2>1 DEF Keeps
  <2>3. ~KeptBy(k, f, name)' /\ ~GoneBy(k, f, name)'
    BY <1>5, <1>9, <1>12 DEF KeptBy, GoneBy
  <2> QED
    BY <1>3, <1>4, <1>5, <2>2, <2>3 DEF ContentOf, h
<1> QED
  BY <1>6, <1>10, <1>11, <1>12

-----------------------------------------------------------------------------
(* The descriptor store: across a restart *)

\* What a service that starts is owed, it has been started with.
StartOK ==
  service = "starting" =>
    /\ \A i \in DOMAIN Sockets : GivenAs(Sockets[i].file, Sockets[i].name)
    /\ \A f \in Files, name \in ManagerNames :
         /\ MustBeKept(f, name) => GivenAs(f, name)
         /\ MustBeGone(f, name) => ~GivenAs(f, name)

StoreInv == Base /\ Content /\ StartOK

LEMMA StoreInvInit == StoreInit => StoreInv
<1> SUFFICES ASSUME StoreInit PROVE StoreInv
  OBVIOUS
<1>1. service = "up" /\ 1..Handled = {}
  BY EmptySeq DEF StoreInit, Handled
<1> QED
  BY <1>1, BaseInit DEF StoreInv, Content, ContentOf, StartOK

LEMMA OthersKeepContent ==
  ASSUME Base, Content,
         \/ BarrierFinish \/ BarrierTimesOut \/ Crash \/ Find
         \/ \E f \in Files : HangUp(f)
         \/ UNCHANGED storeVars
  PROVE  Content'
<1>1. PastKept
  BY OthersKeepBase
<1>2. UNCHANGED <<store, log, lives>> /\ hungup \subseteq hungup'
  BY DEF BarrierFinish, BarrierTimesOut, Crash, Find, HangUp, storeVars, world
<1>3. /\ acked' \subseteq acked \/ (service # "down" /\ acked' \subseteq acked \cup {i \in DOMAIN log : log[i].life = lives})
      /\ service' # "down" => service # "down"
  <2>1. BarrierFinish => /\ service # "down"
                         /\ acked' = acked \cup {i \in DOMAIN log : log[i].life = lives}
    BY DEF BarrierFinish
  <2>2. ~BarrierFinish => acked' = acked /\ (service' # "down" => service # "down")
    BY DEF BarrierTimesOut, Crash, Find, HangUp, storeVars
  <2> QED
    BY <2>1, <2>2
<1>4. \A i \in 1..Handled : Certain(i)' => Certain(i)
  BY <1>2, <1>3 DEF Certain
<1> QED
  BY <1>1, <1>2, <1>4, ContentKept

LEMMA SendsKeepContent ==
  ASSUME Base, Content, Sends
  PROVE  Content'
<1>1. PastKept /\ service = "up" /\ UNCHANGED <<lives, acked, store, hungup>>
  BY SendsKeepBase
<1>2. \A i \in 1..Handled : log'[i] = log[i]
  BY <1>1 DEF PastKept
<1>3. \A i \in 1..Handled : Certain(i)' => Certain(i)
  BY <1>1, <1>2 DEF Certain
<1> QED
  BY <1>1, <1>3, ContentKept

\* Nothing has been sent yet in the new life.
LEMMA RestartKeepsContent ==
  ASSUME Base, Content, Restart
  PROVE  Content'
<1>1. PastKept
  BY RestartKeepsBase
<1>2. UNCHANGED <<hungup, store, log, acked>> /\ lives' = lives + 1
  BY DEF Restart
<1>3. \A i \in 1..Handled : log[i].life # lives'
  <2> TAKE i \in 1..Handled
  <2>1. i \in DOMAIN log
    BY <1>1 DEF PastKept
  <2>2. log[i] \in Messages /\ Proper(log[i])
    BY <2>1, ElementOfSeq, LenProperties DEF Base, LogOK
  <2>3. log[i].life \in Nat /\ log[i].life <= lives /\ lives \in Nat
    BY <2>2, StoreConstants DEF Messages, Proper, Base, LogOK
  <2> QED
    BY <1>2, <2>3
<1>4. \A i \in 1..Handled : Certain(i)' => Certain(i)
  BY <1>2, <1>3 DEF Certain
<1> QED
  BY <1>1, <1>2, <1>4, ContentKept

\* A message a barrier vouches for is certain.
LEMMA RestartGivesWhatIsOwed ==
  ASSUME Base, Content, Restart
  PROVE  StartOK'
<1>1. \A f, name : GivenAs(f, name)' <=> OfSocket(f, name) \/ Keeps(f, name)
  BY RestartPasses
<1>2. \A i \in DOMAIN Sockets : GivenAs(Sockets[i].file, Sockets[i].name)'
  BY <1>1 DEF OfSocket
<1>3. UNCHANGED <<log, acked, hungup>>
  BY DEF Restart
<1> SUFFICES ASSUME NEW f \in Files, NEW name \in ManagerNames
             PROVE  /\ MustBeKept(f, name)' => GivenAs(f, name)'
                    /\ MustBeGone(f, name)' => ~GivenAs(f, name)'
  BY <1>2 DEF StartOK
<1>4. /\ StoredBy(f) \subseteq StoresOf(f) /\ RemovedBy(name) \subseteq RemovalsOf(name)
      /\ \A i \in acked : i \in 1..Handled
      /\ \A i \in acked \cap StoresOf(f) : i \in StoredBy(f)
      /\ \A i \in acked \cap RemovalsOf(name) : i \in RemovedBy(name)
  BY DEF StoredBy, RemovedBy, Base, LogOK
<1>5. /\ StoresOf(f)' = StoresOf(f) /\ RemovalsOf(name)' = RemovalsOf(name)
      /\ \A i : NameOf(log[i].name)' = NameOf(log[i].name)
  BY <1>3 DEF StoresOf, RemovalsOf, NameOf
<1>6. ContentOf(f, name)
  BY DEF Content
<1>7. ASSUME MustBeKept(f, name)' PROVE Keeps(f, name)
  <2>1. PICK i \in StoresOf(f) \cap acked : \A j \in RemovalsOf(name) : j < i
    BY <1>3, <1>5, <1>7 DEF MustBeKept
  <2>2. \A j \in StoresOf(f) : /\ NameOf(log[j].name) = name
                               /\ f \in hungup => log[j].poll = FALSE
    BY <1>3, <1>5, <1>7 DEF MustBeKept
  <2>3. KeptBy(i, f, name)
    BY <1>4, <2>1, <2>2 DEF KeptBy
  <2> QED
    BY <1>4, <1>6, <2>1, <2>3 DEF ContentOf, Certain
<1>8. ASSUME MustBeGone(f, name)' PROVE ~Keeps(f, name)
  <2>1. PICK i \in RemovalsOf(name) \cap acked : \A j \in StoresOf(f) : j < i
    BY <1>3, <1>5, <1>8 DEF MustBeGone
  <2>2. GoneBy(i, f, name)
    BY <1>4, <2>1 DEF GoneBy
  <2> QED
    BY <1>4, <1>6, <2>1, <2>2 DEF ContentOf, Certain
<1>9. ~OfSocket(f, name)
  BY RestartAssumption DEF OfSocket, Range
<1> QED
  BY <1>1, <1>7, <1>8, <1>9

\* A service that is starting sends nothing and hears of no barrier.
LEMMA StartKept ==
  ASSUME StartOK, service' = service, UNCHANGED <<passed, fdnames, log, acked>>, hungup \subseteq hungup'
  PROVE  StartOK'
<1>1. ASSUME NEW f, NEW name
      PROVE  /\ MustBeKept(f, name)' => MustBeKept(f, name)
             /\ MustBeGone(f, name)' => MustBeGone(f, name)
             /\ GivenAs(f, name)' = GivenAs(f, name)
  <2>1. /\ StoresOf(f)' = StoresOf(f) /\ RemovalsOf(name)' = RemovalsOf(name)
        /\ \A i : NameOf(log[i].name)' = NameOf(log[i].name)
    BY DEF StoresOf, RemovalsOf, NameOf
  <2>2. MustBeKept(f, name)' => MustBeKept(f, name)
    BY <2>1 DEF MustBeKept
  <2>3. MustBeGone(f, name)' => MustBeGone(f, name)
    BY <2>1 DEF MustBeGone
  <2> QED
    BY <2>2, <2>3 DEF GivenAs
<1> QED
  BY <1>1 DEF StartOK

\* It is inductive.
LEMMA StoreInvStep == StoreInv /\ [StoreNext]_storeVars => StoreInv'
<1> SUFFICES ASSUME StoreInv, [StoreNext]_storeVars PROVE StoreInv'
  OBVIOUS
<1>0. Base'
  BY BaseStep DEF StoreInv
<1>1. CASE Sends
  <2>1. service' # "starting"
    BY <1>1, SendsKeepBase DEF StoreInv
  <2> QED
    BY <1>0, <1>1, <2>1, SendsKeepContent DEF StoreInv, StartOK
<1>2. CASE Handle \/ LoseMessage \/ DropHungUp
  <2>1. service' = service /\ UNCHANGED <<passed, fdnames, log, acked>> /\ hungup \subseteq hungup'
    BY <1>2 DEF Handle, LoseMessage, DropHungUp, world
  <2>2. Content'
    BY <1>2, HandleKeepsContent, LossKeepsContent, DropKeepsContent DEF StoreInv
  <2> QED
    BY <1>0, <2>1, <2>2, StartKept DEF StoreInv
<1>3. CASE Restart
  BY <1>0, <1>3, RestartKeepsContent, RestartGivesWhatIsOwed DEF StoreInv
<1>4. CASE \/ BarrierFinish \/ BarrierTimesOut \/ Crash \/ Find
           \/ \E f \in Files : HangUp(f)
           \/ UNCHANGED storeVars
  <2>1. Content'
    BY <1>4, OthersKeepContent DEF StoreInv
  <2>2. CASE BarrierFinish \/ BarrierTimesOut \/ Crash \/ Find
    <3>1. service' # "starting"
      BY <2>2 DEF BarrierFinish, BarrierTimesOut, Crash, Find
    <3> QED
      BY <1>0, <2>1, <3>1 DEF StoreInv, StartOK
  <2>3. CASE (\E f \in Files : HangUp(f)) \/ UNCHANGED storeVars
    <3>1. service' = service /\ UNCHANGED <<passed, fdnames, log, acked>> /\ hungup \subseteq hungup'
      BY <2>3 DEF HangUp, storeVars, world
    <3> QED
      BY <1>0, <2>1, <3>1, StartKept DEF StoreInv
  <2> QED
    BY <1>4, <2>2, <2>3
<1> QED
  BY <1>1, <1>2, <1>3, <1>4 DEF StoreNext, Sends

\* What an answered barrier vouches for survives the service: for any number of
\* files, names, sockets, messages and lives, and wherever the service dies, a
\* file that was stored is found again under its name unless a later message
\* removed the name, one that was removed is not, and no socket is lost.
THEOREM StoreKeepsUntilRemoved == StoreSpec => KeptUntilRemoved
<1>1. StoreInit => StoreInv
  BY StoreInvInit
<1>2. StoreInv /\ [StoreNext]_storeVars => StoreInv'
  BY StoreInvStep
<1>3. StoreInv /\ [StoreNext]_storeVars =>
        [ service = "starting" /\ service' = "up" =>
            /\ \A f \in Files, name \in ManagerNames :
                 /\ MustBeKept(f, name) => FoundUnder(f, name)'
                 /\ MustBeGone(f, name) => ~FoundUnder(f, name)'
            /\ \A i \in DOMAIN Sockets : FoundUnder(Sockets[i].file, Sockets[i].name)' ]_storeVars
  <2> SUFFICES ASSUME StoreInv, StoreNext, service = "starting", service' = "up"
               PROVE  /\ \A f \in Files, name \in ManagerNames :
                           /\ MustBeKept(f, name) => FoundUnder(f, name)'
                           /\ MustBeGone(f, name) => ~FoundUnder(f, name)'
                      /\ \A i \in DOMAIN Sockets : FoundUnder(Sockets[i].file, Sockets[i].name)'
    OBVIOUS
  <2>1. Find
    <3>1. ~Sends
      BY SendsKeepBase DEF StoreInv
    <3>2. ~(BarrierFinish \/ BarrierTimesOut \/ Crash \/ Restart)
      BY DEF BarrierFinish, BarrierTimesOut, Crash, Restart
    <3>3. ~(Handle \/ LoseMessage \/ DropHungUp \/ \E f \in Files : HangUp(f))
      BY DEF Handle, LoseMessage, DropHungUp, HangUp
    <3> QED
      BY <3>1, <3>2, <3>3 DEF StoreNext, Sends
  <2>2. \A f, name : name \in ManagerNames => (FoundUnder(f, name)' <=> GivenAs(f, name))
    BY <2>1, FindFinds DEF StoreInv, Base
  <2>3. \A i \in DOMAIN Sockets : Sockets[i].name \in ManagerNames
    BY RestartAssumption DEF Range
  <2> QED
    BY <2>2, <2>3 DEF StoreInv, StartOK
<1> QED
  BY <1>1, <1>2, <1>3, PTL DEF StoreSpec, KeptUntilRemoved
=============================================================================
