----------------------------- MODULE CodecProofs -----------------------------
(* What holds of the codecs for inputs of any size.                        *)
EXTENDS Codec, SequenceTheorems, WellFoundedInduction, TLAPS

(***************************************************************************)
(* Descriptors in a message                                                *)
(***************************************************************************)

\* Aligning to a word gives the size or the next multiple of the word.
LEMMA AlignSound ==
  ASSUME NEW word \in {4, 8}, NEW size \in Nat
  PROVE  /\ CmsgAlign(word, size) \in Nat
         /\ size <= CmsgAlign(word, size)
BY DEF CmsgAlign

\* _CMSG_HDR_SIZE is the kernel's header size on both ABIs.
LEMMA HeaderSize ==
  ASSUME NEW word \in {4, 8}
  PROVE  /\ CmsgHdrSize(word) = KernelHdr(word)
         /\ KernelHdr(word) \in Nat
<1>1. CASE word = 4
  BY <1>1 DEF CmsgHdrSize, CmsgAlign, KernelHdr, IntSize
<1>2. CASE word = 8
  BY <1>2 DEF CmsgHdrSize, CmsgAlign, KernelHdr, IntSize
<1> QED BY <1>1, <1>2

\* The receiver's buffer has room for what it asked for.
LEMMA RoomForAll ==
  ASSUME NEW word \in {4, 8}, NEW n \in Nat
  PROVE  /\ ControlSize(word, n) \in Nat
         /\ KernelHdr(word) + 4 * n <= ControlSize(word, n)
         /\ KernelRoom(word, ControlSize(word, n)) \in Nat
         /\ n <= KernelRoom(word, ControlSize(word, n))
<1> DEFINE area == CmsgAlign(word, 4 * n)
<1>1. area \in Nat /\ 4 * n <= area
  BY AlignSound, 4 * n \in Nat
<1>2. ControlSize(word, n) = KernelHdr(word) + area /\ KernelHdr(word) \in Nat
  BY HeaderSize DEF ControlSize, IntSize
<1> HIDE DEF area
<1>3. KernelRoom(word, ControlSize(word, n)) = area \div 4
  BY <1>1, <1>2 DEF KernelRoom, IntSize
<1> QED BY <1>1, <1>2, <1>3

\* The kernel finds as many descriptors in the sender's buffer as were put there.
LEMMA KernelFindsAll ==
  ASSUME NEW word \in {4, 8}, NEW n \in Nat, ~TooMany(n)
  PROVE  /\ KernelAccepts(word, CmsgLen(word, n), ControlSize(word, n))
         /\ KernelReads(word, CmsgLen(word, n)) = n
         /\ ScmRights(word, n) = Offsets(KernelHdr(word), n)
<1>1. CmsgLen(word, n) = KernelHdr(word) + 4 * n /\ KernelHdr(word) \in Nat
  BY HeaderSize DEF CmsgLen, IntSize
<1>2. KernelReads(word, CmsgLen(word, n)) = n
  BY <1>1 DEF KernelReads, IntSize
<1>3. KernelAccepts(word, CmsgLen(word, n), ControlSize(word, n))
  <2>1. KernelHdr(word) <= CmsgLen(word, n)
    BY <1>1
  <2>2. CmsgLen(word, n) <= ControlSize(word, n)
    BY <1>1, RoomForAll
  <2>3. n <= KernelMaxFds
    BY DEF TooMany, MaxFdsPerMessage, KernelMaxFds
  <2> QED
    BY <1>2, <2>1, <2>2, <2>3 DEF KernelAccepts
<1>4. ScmRights(word, n) = Offsets(KernelHdr(word), n)
  BY HeaderSize DEF ScmRights
<1> QED BY <1>2, <1>3, <1>4

\* What the kernel installed, and no more, is parsed out of a buffer of any size.
LEMMA ParsesInstalled ==
  ASSUME NEW word \in {4, 8}, NEW size \in Nat, NEW n \in Nat,
         n <= KernelRoom(word, size)
  PROVE  /\ ParseScmRights(word, KernelRights(n), KernelLen(word, n), KernelControlLen(word, size, n))
              = Offsets(KernelHdr(word), n)
         /\ n > 0 => KernelHdr(word) + 4 * n <= size
<1> DEFINE hdr == KernelHdr(word)
           len == KernelLen(word, n)
           controllen == KernelControlLen(word, size, n)
<1>1. hdr \in Nat /\ CmsgHdrSize(word) = hdr /\ hdr >= 12
  BY HeaderSize DEF KernelHdr
<1>2. CASE n = 0
  <2>1. controllen = 0
    BY <1>2 DEF KernelControlLen
  <2>2. ParseScmRights(word, KernelRights(n), len, controllen) = {}
    BY <1>1, <2>1 DEF ParseScmRights
  <2>3. Offsets(hdr, n) = {}
    BY <1>2 DEF Offsets
  <2> QED BY <1>2, <2>2, <2>3
<1>3. CASE n > 0
  <2>1. hdr + 4 * n <= size
    <3>1. n <= (size - hdr) \div 4
      BY DEF KernelRoom, IntSize
    <3> HIDE DEF hdr
    <3> QED BY <1>1, <3>1
  <2>2. len = hdr + 4 * n
    BY <1>3 DEF KernelLen, IntSize
  <2>3. controllen \in Nat /\ len <= controllen
    <3>1. KernelSpace(word, n) \in Nat /\ len <= KernelSpace(word, n)
      BY <1>1, <2>2, AlignSound, 4 * n \in Nat DEF KernelSpace, IntSize
    <3>2. controllen = Smaller(KernelSpace(word, n), size)
      BY <1>3 DEF KernelControlLen
    <3> QED BY <2>1, <2>2, <3>1, <3>2 DEF Smaller
  <2>4. ScmCount(word, len, controllen) = n
    <3>1. Smaller(len, controllen) = hdr + 4 * n
      BY <2>2, <2>3 DEF Smaller
    <3> HIDE DEF hdr, len, controllen
    <3> QED BY <1>1, <3>1 DEF ScmCount, IntSize
  <2>5. ~(controllen < CmsgHdrSize(word) \/ ~KernelRights(n) \/ ScmCount(word, len, controllen) <= 0)
    <3> HIDE DEF hdr, len, controllen
    <3> QED BY <1>1, <1>3, <2>2, <2>3, <2>4 DEF KernelRights
  <2>6. ParseScmRights(word, KernelRights(n), len, controllen) = Offsets(hdr, n)
    BY <1>1, <2>4, <2>5 DEF ParseScmRights
  <2> QED BY <2>1, <2>6
<1> QED BY <1>2, <1>3

\* The invariant: an outcome of Pass is what the kernel and recv make of an input
\* that is not refused.
PassOutcome ==
  /\ job = "pass" => input \in Passings
  /\ (job = "pass" /\ outcome \notin {Pending, ValueError}) =>
       LET size == ControlSize(input.word, input.room)
       IN  /\ ~TooMany(input.sent)
           /\ outcome.most = Smaller(input.sent, KernelRoom(input.word, size))
           /\ outcome.installed \in 0..outcome.most
           /\ outcome.returned =
                ParseScmRights(input.word, KernelRights(outcome.installed),
                               KernelLen(input.word, outcome.installed),
                               KernelControlLen(input.word, size, outcome.installed))

\* Pass keeps it, and no other action touches a job of this kind.
THEOREM PassOutcomeInvariant == Spec => []PassOutcome
<1>1. Init => PassOutcome
  BY DEF Init, PassOutcome
<1>2. PassOutcome /\ [Next]_vars => PassOutcome'
  <2> SUFFICES ASSUME PassOutcome, [Next]_vars PROVE PassOutcome'
    OBVIOUS
  <2>1. CASE Pass
    <3> DEFINE size == ControlSize(input.word, input.room)
               most == Smaller(input.sent, KernelRoom(input.word, size))
    <3>1. job = "pass" /\ input' = input /\ job' = job
      BY <2>1 DEF Pass, Ends
    <3>2. CASE TooMany(input.sent)
      <4>1. outcome' = ValueError
        BY <2>1, <3>2 DEF Pass
      <4> QED BY <3>1, <4>1 DEF PassOutcome
    <3>3. CASE ~TooMany(input.sent)
      <4>1. PICK n \in 0..most :
              outcome' = [installed |-> n, most |-> most,
                          returned |-> ParseScmRights(input.word, KernelRights(n),
                                                      KernelLen(input.word, n),
                                                      KernelControlLen(input.word, size, n))]
        BY <2>1, <3>3 DEF Pass
      <4>2. /\ outcome'.most = most /\ outcome'.installed = n
            /\ outcome'.returned = ParseScmRights(input.word, KernelRights(n),
                                                  KernelLen(input.word, n),
                                                  KernelControlLen(input.word, size, n))
        BY <4>1
      <4> QED BY <3>1, <3>3, <4>2 DEF PassOutcome
    <3> QED BY <3>2, <3>3
  <2>2. CASE Notify \/ Log \/ Address
    BY <2>2 DEF Notify, Log, Address, Ends, PassOutcome
  <2>3. CASE UNCHANGED vars
    BY <2>3 DEF vars, PassOutcome
  <2> QED BY <2>1, <2>2, <2>3 DEF Next
<1> QED BY <1>1, <1>2, PTL DEF Spec

\* For any number of descriptors sent, asked for and installed, and on both ABIs,
\* the kernel takes what send_with_fds does not refuse, and recv returns exactly the
\* descriptors that were installed (_impl_mp.py).
THEOREM RightsAlwaysArrive == Spec => []RightsArrive
<1>1. PassOutcome => RightsArrive
  <2> SUFFICES ASSUME PassOutcome, job = "pass", outcome \notin {Pending, ValueError}
               PROVE  RightsArrive
    BY DEF RightsArrive
  <2> DEFINE word == input.word
             size == ControlSize(word, input.room)
             n == outcome.installed
  <2>1. word \in {4, 8} /\ input.sent \in Nat \ {0} /\ input.room \in Nat \ {0}
    BY CodecAssumption DEF PassOutcome
  <2>2. /\ size \in Nat
        /\ KernelRoom(word, size) \in Nat /\ input.room <= KernelRoom(word, size)
    BY <2>1, RoomForAll
  <2>3. /\ outcome.most = Smaller(input.sent, KernelRoom(word, size))
        /\ n \in 0..outcome.most /\ ~TooMany(input.sent)
        /\ outcome.returned = ParseScmRights(word, KernelRights(n), KernelLen(word, n),
                                             KernelControlLen(word, size, n))
    BY DEF PassOutcome
  <2>4. n \in Nat /\ n <= KernelRoom(word, size) /\ Smaller(input.sent, input.room) <= outcome.most
    BY <2>1, <2>2, <2>3 DEF Smaller
  <2>5. /\ outcome.returned = Offsets(KernelHdr(word), n)
        /\ n > 0 => KernelHdr(word) + 4 * n <= size
    BY <2>1, <2>2, <2>3, <2>4, ParsesInstalled
  <2>6. \A o \in outcome.returned : o + IntSize <= size
    <3> SUFFICES ASSUME NEW o \in Offsets(KernelHdr(word), n) PROVE o + IntSize <= size
      BY <2>5
    <3>1. PICK k \in 0..n - 1 : o = KernelHdr(word) + 4 * k
      BY DEF Offsets, IntSize
    <3>2. KernelHdr(word) \in Nat
      BY <2>1, HeaderSize
    <3> HIDE DEF word, size, n
    <3> QED BY <2>2, <2>4, <2>5, <3>1, <3>2 DEF IntSize
  <2>7. /\ KernelAccepts(word, CmsgLen(word, input.sent), ControlSize(word, input.sent))
        /\ KernelReads(word, CmsgLen(word, input.sent)) = input.sent
        /\ ScmRights(word, input.sent) = Offsets(KernelHdr(word), input.sent)
    BY <2>1, <2>3, KernelFindsAll
  <2> QED BY <2>4, <2>5, <2>6, <2>7 DEF RightsArrive
<1> QED BY <1>1, PassOutcomeInvariant, PTL

(***************************************************************************)
(* Addresses                                                               *)
(***************************************************************************)

\* The kernel, reading a path with the NUL after it, finds the path again.
LEMMA PathFound ==
  ASSUME NEW B, NEW path \in Seq(B), \A i \in DOMAIN path : path[i] # Nul
  PROVE  CString(Append(path, Nul)) = path
<1> DEFINE bytes == Append(path, Nul)
           EndsAt(n) == /\ \A i \in 1..n : bytes[i] # Nul
                        /\ n < Len(bytes) => bytes[n + 1] = Nul
<1>1. /\ Len(path) \in Nat /\ Len(bytes) = Len(path) + 1
      /\ \A i \in 1..Len(path) : bytes[i] = path[i]
      /\ bytes[Len(path) + 1] = Nul
  OBVIOUS
<1>2. EndsAt(Len(path)) /\ Len(path) \in 0..Len(bytes)
  BY <1>1
<1>3. ASSUME NEW n \in 0..Len(bytes), EndsAt(n) PROVE n = Len(path)
  <2>1. n <= Len(path)
    BY <1>1, <1>3
  <2>2. ~ n < Len(path)
    <3> SUFFICES ASSUME n < Len(path) PROVE FALSE
      OBVIOUS
    <3>1. n + 1 \in 1..Len(path) /\ n < Len(bytes)
      BY <1>1
    <3> QED BY <1>1, <1>3, <3>1
  <2> QED BY <1>1, <2>1, <2>2
<1>4. CString(bytes) = SubSeq(bytes, 1, Len(path))
  <2>1. (CHOOSE n \in 0..Len(bytes) : EndsAt(n)) = Len(path)
    BY <1>2, <1>3
  <2> QED BY <2>1 DEF CString
<1>5. SubSeq(bytes, 1, Len(path)) = path
  BY <1>1
<1> QED BY <1>4, <1>5

\* Putting another byte first changes nothing else.
LEMMA OtherFirst ==
  ASSUME NEW B, NEW a \in Seq(B), a # <<>>, NEW b \in B
  PROVE  /\ <<b>> \o Tail(a) \in Seq(B) /\ <<b>> \o Tail(a) # <<>>
         /\ Len(<<b>> \o Tail(a)) = Len(a)
         /\ (<<b>> \o Tail(a))[1] = b
         /\ Tail(<<b>> \o Tail(a)) = Tail(a)
<1> DEFINE t == Tail(a)
           s == <<b>> \o t
<1>1. t \in Seq(B) /\ Len(t) = Len(a) - 1 /\ Len(a) \in Nat \ {0}
  BY HeadTailProperties, EmptySeq
<1>2. <<b>> \in Seq(B) /\ Len(<<b>>) = 1 /\ <<b>>[1] = b
  OBVIOUS
<1> HIDE DEF t
<1>3. /\ s \in Seq(B) /\ Len(s) = Len(t) + 1
      /\ \A i \in 1..Len(t) + 1 : s[i] = IF i <= 1 THEN b ELSE t[i - 1]
  BY <1>1, <1>2, ConcatProperties
<1> HIDE DEF s
<1>4. Len(s) = Len(a) /\ s[1] = b /\ s # <<>>
  BY <1>1, <1>3
<1>5. /\ Tail(s) \in Seq(B) /\ Len(Tail(s)) = Len(t)
      /\ \A i \in 1..Len(t) : Tail(s)[i] = t[i]
  BY <1>1, <1>3, <1>4, HeadTailProperties
<1>6. Tail(s) = t
  BY <1>1, <1>5, SeqEqual
<1> QED BY <1>3, <1>4, <1>6 DEF s, t

\* Whatever SUN_PATH_SIZE is, the outcome of encode_unix_address fits into it and
\* names the socket its argument means.
LEMMA EncodedAddress ==
  ASSUME NEW a \in AddressStrings, EncodeUnixAddress(a) # AddressError
  PROVE  LET p == EncodeUnixAddress(a)
         IN  /\ Len(p) <= SunPathSize
             /\ ~IsAbstract(p) => Len(SockaddrUn(p).name) <= SunPathSize
             /\ KernelSocket(SockaddrUn(p)) = MeantSocket(a)
             /\ EncodeUnixAddress(Describe(p)) = p
<1> DEFINE p == WithNul(a)
<1>1. /\ a \in Seq(0..255) /\ a # <<>> /\ p[1] \in {Nul, Slash} /\ Len(a) <= Limit(p)
      /\ EncodeUnixAddress(a) = p
  <2>1. a \in Seq(0..255)
    BY CodecAssumption
  <2>2. ~(a = <<>> \/ p[1] \notin {Nul, Slash} \/ Len(a) > Limit(p))
    <3> HIDE DEF p
    <3> QED BY DEF EncodeUnixAddress, p
  <2>3. EncodeUnixAddress(a) = p
    BY <2>2 DEF EncodeUnixAddress
  <2>4. Len(a) <= Limit(p)
    <3> HIDE DEF p
    <3>1. Limit(p) \in Int /\ Len(a) \in Nat
      BY <2>1, AddressesAssumption DEF Limit
    <3> QED BY <2>2, <3>1
  <2> QED BY <2>1, <2>2, <2>3, <2>4
<1>2. /\ Len(a) \in Nat /\ Len(a) >= 1 /\ a[1] \in 0..255
      /\ Tail(a) \in Seq(0..255) /\ Len(Tail(a)) = Len(a) - 1
  <2> HIDE DEF p
  <2>1. a \in Seq(0..255) /\ a # <<>>
    BY <1>1
  <2>2. Len(a) \in Nat \ {0}
    BY <2>1, EmptySeq
  <2> QED BY <2>1, <2>2, ElementOfSeq, HeadTailProperties
<1>3. SunPathSize \in Nat /\ At \in 0..255 /\ Nul \in 0..255 /\ At # Nul /\ Nul # Slash /\ At # Slash
  BY AddressesAssumption
<1>4. CASE a[1] \in {At, Nul}
  <2>1. p = <<Nul>> \o Tail(a)
    BY <1>2, <1>4 DEF WithNul
  <2>2. p \in Seq(0..255) /\ Len(p) = Len(a) /\ p[1] = Nul /\ Tail(p) = Tail(a)
    <3> HIDE DEF p
    <3> QED BY <1>1, <1>3, <2>1, OtherFirst
  <2>3. IsAbstract(p) /\ Len(p) <= SunPathSize
    BY <1>1, <2>2 DEF IsAbstract, Limit
  <2>4. KernelSocket(SockaddrUn(p)) = MeantSocket(a)
    <3>1. SubSeq(Append(p, Nul), 2, Len(p)) = Tail(p)
      BY <1>2, <1>3, <2>2
    <3>2. Append(p, Nul)[1] = Nul
      BY <1>2, <1>3, <2>2
    <3>3. a[1] # Slash
      BY <1>3, <1>4
    <3> HIDE DEF p
    <3> QED BY <1>4, <2>2, <3>1, <3>2, <3>3 DEF KernelSocket, SockaddrUn, MeantSocket
  <2>5. EncodeUnixAddress(Describe(p)) = p
    <3> DEFINE d == <<At>> \o Tail(p)
    <3>1. Describe(p) = d
      BY <2>3 DEF Describe
    <3>2. d \in Seq(0..255) /\ d # <<>> /\ d[1] = At /\ Tail(d) = Tail(a) /\ Len(d) = Len(a)
      <4> HIDE DEF p
      <4> QED BY <1>1, <1>3, <2>2, OtherFirst
    <3>3. WithNul(d) = p
      BY <2>1, <3>2 DEF WithNul
    <3> HIDE DEF p, d
    <3> QED BY <1>1, <3>1, <3>2, <3>3 DEF EncodeUnixAddress
  <2> QED BY <1>1, <2>3, <2>4, <2>5
<1>5. CASE a[1] \notin {At, Nul}
  <2>1. p = a /\ a[1] = Slash
    BY <1>1, <1>5 DEF WithNul
  <2>2. ~IsAbstract(p) /\ Len(p) <= SunPathSize - 1
    BY <1>1, <1>3, <2>1 DEF IsAbstract, Limit
  <2>3. Len(Append(a, Nul)) = Len(a) + 1 /\ Append(a, Nul)[1] # Nul
    BY <1>2, <1>3, <2>1
  <2>4. \A i \in DOMAIN a : a[i] # Nul
    BY <1>1, <2>1, CodecAssumption
  <2>5. CString(Append(a, Nul)) = a
    BY <1>1, <2>4, PathFound
  <2>6. KernelSocket(SockaddrUn(p)) = MeantSocket(a)
    <3>1. MeantSocket(a) = [abstract |-> FALSE, name |-> a]
      BY <2>1 DEF MeantSocket
    <3>2. KernelSocket([name |-> Append(a, Nul), len |-> Len(a)]) = [abstract |-> FALSE, name |-> a]
      BY <2>3, <2>5 DEF KernelSocket
    <3> QED BY <2>1, <3>1, <3>2 DEF SockaddrUn
  <2>7. EncodeUnixAddress(Describe(p)) = p
    BY <1>1, <2>1, <2>2 DEF Describe
  <2>8. Len(SockaddrUn(p).name) <= SunPathSize /\ Len(p) <= SunPathSize
    <3>1. SockaddrUn(p).name = Append(a, Nul)
      BY <2>1 DEF SockaddrUn
    <3> HIDE DEF p
    <3> QED BY <1>2, <1>3, <2>1, <2>2, <2>3, <3>1
  <2> QED BY <1>1, <2>6, <2>7, <2>8
<1> QED BY <1>4, <1>5

\* The invariant: an outcome of Address is the address encoded.
AddressOutcome ==
  /\ job = "address" => input \in AddressStrings
  /\ (job = "address" /\ outcome # Pending) => outcome = EncodeUnixAddress(input)

\* Every accepted address fits and reaches the socket it means (_address.py), for
\* addresses and a SUN_PATH_SIZE of any length.
THEOREM AddressesReachTheirSockets == Spec => []AddressReachesItsSocket
<1>1. Init => AddressOutcome
  BY DEF Init, AddressOutcome
<1>2. AddressOutcome /\ [Next]_vars => AddressOutcome'
  BY DEF AddressOutcome, Next, Notify, Log, Pass, Address, Ends, vars
<1>3. AddressOutcome => AddressReachesItsSocket
  BY EncodedAddress DEF AddressOutcome, AddressReachesItsSocket
<1> QED BY <1>1, <1>2, <1>3, PTL DEF Spec

(***************************************************************************)
(* Journal entries                                                         *)
(***************************************************************************)

\* A set of numbers has a least one.
LEMMA Least ==
  ASSUME NEW T, T \subseteq Nat, T # {}
  PROVE  \E x \in T : \A y \in T : x <= y
<1>1. PICK x \in T : \A y \in T : ~(<<y, x>> \in OpToRel(<, Nat))
  BY NatLessThanWellFounded, WFMin, Zenon
<1>2. \A y \in T : ~(y < x)
  BY <1>1, Zenon DEF OpToRel
<1> QED
  BY <1>2

\* Induction, with a set for the statement
LEMMA Induct ==
  ASSUME NEW T, 0 \in T, \A n \in Nat : n \in T => n + 1 \in T
  PROVE  Nat \subseteq T
<1> SUFFICES ASSUME NEW m \in Nat, m \notin T PROVE FALSE
  OBVIOUS
<1> DEFINE U == {n \in Nat : n \notin T}
<1>1. PICK x \in U : \A y \in U : x <= y
  <2>1. U \subseteq Nat /\ U # {}
    OBVIOUS
  <2> HIDE DEF U
  <2> QED
    BY <2>1, Least
<1> QED
  BY <1>1

-----------------------------------------------------------------------------
(* The length of a value *)

\* Division by a base
LEMMA QuotientType ==
  ASSUME NEW a \in Nat, NEW b \in Nat \ {0}
  PROVE  /\ a \div b \in Nat /\ a % b \in 0..(b - 1)
         /\ (a \div b) * b + (a % b) = a
OBVIOUS

\* What a function of the number of steps is that starts with a number and goes
\* on by steps
Iterates(f, start, step, last) ==
  /\ f[0] = start
  /\ \A d \in 1..last : f[d] = step[<<d, f[d - 1]>>]

LEMMA Iteration ==
  ASSUME NEW last \in Nat, NEW start \in Nat, NEW step \in [(1..last) \X Nat -> Nat]
  PROVE  \E f \in [0..last -> Nat] : Iterates(f, start, step, last)
<1> DEFINE T == {n \in Nat : n <= last => \E f \in [0..n -> Nat] : Iterates(f, start, step, n)}
<1>1. 0 \in T
  <2>1. [d \in 0..0 |-> start] \in [0..0 -> Nat]
    OBVIOUS
  <2>2. Iterates([d \in 0..0 |-> start], start, step, 0)
    BY DEF Iterates
  <2> QED
    BY <2>1, <2>2
<1>2. ASSUME NEW n \in Nat, n \in T PROVE n + 1 \in T
  <2> SUFFICES ASSUME n + 1 <= last
               PROVE  \E f \in [0..(n + 1) -> Nat] : Iterates(f, start, step, n + 1)
    OBVIOUS
  <2>1. PICK f \in [0..n -> Nat] : Iterates(f, start, step, n)
    BY <1>2
  <2> DEFINE g == [d \in 0..(n + 1) |-> IF d = n + 1 THEN step[<<n + 1, f[n]>>] ELSE f[d]]
  <2>2. step[<<n + 1, f[n]>>] \in Nat
    <3>1. <<n + 1, f[n]>> \in (1..last) \X Nat
      OBVIOUS
    <3> QED
      BY <3>1
  <2>3. g \in [0..(n + 1) -> Nat]
    BY <2>2
  <2>4. ASSUME NEW d \in 1..(n + 1) PROVE g[d] = step[<<d, g[d - 1]>>]
    <3>1. g[d - 1] = f[d - 1]
      OBVIOUS
    <3>2. CASE d = n + 1
      <4>1. d - 1 = n /\ g[d] = step[<<n + 1, f[n]>>]
        BY <3>2
      <4> QED
        BY <3>1, <3>2, <4>1
    <3>3. CASE d # n + 1
      <4>1. d \in 1..n /\ g[d] = f[d]
        BY <3>3
      <4> QED
        BY <2>1, <3>1, <4>1 DEF Iterates
    <3> QED
      BY <3>2, <3>3
  <2>5. g[0] = start
    BY <2>1 DEF Iterates
  <2> HIDE DEF g
  <2>6. Iterates(g, start, step, n + 1)
    BY <2>4, <2>5 DEF Iterates
  <2> QED
    BY <2>3, <2>6
<1>3. last \in T
  <2> HIDE DEF T
  <2> QED
    BY <1>1, <1>2, Induct
<1> QED
  BY <1>3

\* What the quotients of a number are
LEMMA QuotientsUnfold ==
  ASSUME NEW n \in Nat
  PROVE  /\ Quotients(n) \in [0..LengthDigits -> Nat]
         /\ Quotients(n)[0] = n
         /\ \A d \in 1..LengthDigits : Quotients(n)[d] = Quotients(n)[d - 1] \div Base
<1> DEFINE F(f) == f = [d \in 0..LengthDigits |-> IF d = 0 THEN n ELSE f[d - 1] \div Base]
           step == [p \in (1..LengthDigits) \X Nat |-> p[2] \div Base]
<1>0. Base \in Nat \ {0} /\ LengthDigits \in Nat
  BY JournalFieldsAssumption
<1>1. step \in [(1..LengthDigits) \X Nat -> Nat]
  <2>1. \A q \in Nat : q \div Base \in Nat
    BY <1>0, QuotientType
  <2> QED
    BY <2>1
<1>2. PICK f \in [0..LengthDigits -> Nat] : Iterates(f, n, step, LengthDigits)
  <2> HIDE DEF step
  <2> QED
    BY <1>0, <1>1, Iteration
<1>3. \A d \in 1..LengthDigits : f[d] = f[d - 1] \div Base
  <2> TAKE d \in 1..LengthDigits
  <2>1. f[d - 1] \in Nat
    BY <1>0
  <2>2. f[d] = step[<<d, f[d - 1]>>]
    BY <1>2 DEF Iterates
  <2> QED
    BY <2>1, <2>2
<1>4. F(f)
  <2>1. \A d \in 0..LengthDigits : f[d] = IF d = 0 THEN n ELSE f[d - 1] \div Base
    BY <1>0, <1>2, <1>3 DEF Iterates
  <2> QED
    BY <2>1
<1>5. Quotients(n) = CHOOSE g : F(g)
  BY DEF Quotients
<1>6. F(Quotients(n))
  <2> HIDE DEF F
  <2> QED
    BY <1>4, <1>5
<1>7. ASSUME NEW g, F(g) PROVE g[0] = n /\ \A d \in 1..LengthDigits : g[d] = g[d - 1] \div Base
  <2>1. \A d \in 0..LengthDigits : g[d] = IF d = 0 THEN n ELSE g[d - 1] \div Base
    BY <1>7
  <2> QED
    BY <1>0, <2>1
<1> DEFINE q == Quotients(n)
           T == {d \in Nat : d <= LengthDigits => q[d] \in Nat}
<1> HIDE DEF q
<1>8. q[0] = n /\ \A d \in 1..LengthDigits : q[d] = q[d - 1] \div Base
  BY <1>6, <1>7 DEF q
<1>9. ASSUME NEW d \in Nat, d \in T PROVE d + 1 \in T
  <2> SUFFICES ASSUME d + 1 <= LengthDigits PROVE q[d + 1] \in Nat
    OBVIOUS
  <2>1. q[d] \in Nat /\ q[d + 1] = q[d] \div Base
    BY <1>0, <1>8, <1>9
  <2> QED
    BY <1>0, <2>1, QuotientType
<1>10. Nat \subseteq T
  <2>1. 0 \in T
    BY <1>8
  <2> HIDE DEF T
  <2> QED
    BY <1>9, <2>1, Induct
<1>11. \A d \in 0..LengthDigits : q[d] \in Nat
  BY <1>0, <1>10
<1>12. q = [d \in 0..LengthDigits |-> q[d]]
  BY <1>6 DEF q
<1> QED
  BY <1>8, <1>11, <1>12 DEF q

\* How a length is read, digit by digit from the most significant
Reads(f, body, i) ==
  /\ f[0] = 0
  /\ \A d \in 1..LengthDigits : f[d] = f[d - 1] * Base + body[i + LengthDigits - d]

LEMMA LengthUnfolds ==
  ASSUME NEW body, NEW i \in Nat, \A d \in 1..LengthDigits : body[i + LengthDigits - d] \in Nat
  PROVE  \E f \in [0..LengthDigits -> Nat] :
           LengthAt(body, i) = f[LengthDigits] /\ Reads(f, body, i)
<1> DEFINE digit(d) == body[i + LengthDigits - d]
           F(f) == f = [d \in 0..LengthDigits |-> IF d = 0 THEN 0 ELSE f[d - 1] * Base + digit(d)]
           G(f) == f[0] = 0 /\ \A d \in 1..LengthDigits : f[d] = f[d - 1] * Base + digit(d)
           step == [p \in (1..LengthDigits) \X Nat |-> p[2] * Base + digit(p[1])]
<1>0. Base \in Nat \ {0} /\ LengthDigits \in Nat /\ \A d \in 1..LengthDigits : digit(d) \in Nat
  BY JournalFieldsAssumption
<1>1. LengthAt(body, i) = (CHOOSE f : F(f))[LengthDigits]
  BY DEF LengthAt
<1> HIDE DEF digit
<1>2. step \in [(1..LengthDigits) \X Nat -> Nat]
  <2>1. \A d \in 1..LengthDigits, q \in Nat : q * Base + digit(d) \in Nat
    BY <1>0
  <2> QED
    BY <2>1
<1>3. PICK f \in [0..LengthDigits -> Nat] : Iterates(f, 0, step, LengthDigits)
  <2> HIDE DEF step
  <2> QED
    BY <1>0, <1>2, Iteration
<1>4. \A d \in 1..LengthDigits : f[d] = f[d - 1] * Base + digit(d)
  <2> TAKE d \in 1..LengthDigits
  <2>1. f[d - 1] \in Nat
    BY <1>0
  <2>2. f[d] = step[<<d, f[d - 1]>>]
    BY <1>3 DEF Iterates
  <2> QED
    BY <2>1, <2>2
<1>5. F(f)
  <2>1. \A d \in 0..LengthDigits : f[d] = IF d = 0 THEN 0 ELSE f[d - 1] * Base + digit(d)
    BY <1>0, <1>3, <1>4 DEF Iterates
  <2> QED
    BY <2>1
<1> DEFINE h == CHOOSE g : F(g)
<1>6. F(h)
  <2> HIDE DEF F
  <2> QED
    BY <1>5
<1> HIDE DEF h
<1>7. G(h)
  <2>1. \A d \in 0..LengthDigits : h[d] = IF d = 0 THEN 0 ELSE h[d - 1] * Base + digit(d)
    BY <1>6
  <2> QED
    BY <1>0, <2>1
<1> DEFINE T == {d \in Nat : d <= LengthDigits => h[d] \in Nat}
<1>8. ASSUME NEW d \in Nat, d \in T PROVE d + 1 \in T
  <2> SUFFICES ASSUME d + 1 <= LengthDigits PROVE h[d + 1] \in Nat
    OBVIOUS
  <2>1. h[d] \in Nat /\ digit(d + 1) \in Nat /\ h[d + 1] = h[d] * Base + digit(d + 1)
    <3>1. d + 1 \in 1..LengthDigits /\ (d + 1) - 1 = d /\ h[d] \in Nat
      BY <1>0, <1>8
    <3> QED
      BY <1>0, <1>7, <3>1
  <2>2. \A x, y, z \in Nat : x * y + z \in Nat
    OBVIOUS
  <2>3. d + 1 \in 1..LengthDigits /\ Base \in Nat
    BY <1>0
  <2>4. h[d] * Base + digit(d + 1) \in Nat
    BY <2>1, <2>2, <2>3
  <2> QED
    BY <2>1, <2>4
<1>9. Nat \subseteq T
  <2>1. 0 \in T
    BY <1>7
  <2> HIDE DEF T
  <2> QED
    BY <1>8, <2>1, Induct
<1>10. h \in [0..LengthDigits -> Nat]
  <2>1. \A d \in 0..LengthDigits : h[d] \in Nat
    BY <1>0, <1>9
  <2>2. h = [d \in 0..LengthDigits |-> h[d]]
    BY <1>6
  <2> QED
    BY <2>1, <2>2
<1> QED
  BY <1>1, <1>7, <1>10 DEF h, digit, Reads

\* A length that its digits can say is read as it was written.
LEMMA LengthReadsBack ==
  ASSUME NEW n \in Nat, Quotients(n)[LengthDigits] = 0,
         NEW body, NEW i \in Nat, \A d \in 1..LengthDigits : body[i + d - 1] = LittleEndian(n)[d]
  PROVE  LengthAt(body, i) = n
<1> DEFINE q == Quotients(n)
<1>0. Base \in Nat \ {0} /\ LengthDigits \in Nat
  BY JournalFieldsAssumption
<1>1. /\ q \in [0..LengthDigits -> Nat] /\ q[0] = n /\ q[LengthDigits] = 0
      /\ \A d \in 1..LengthDigits : q[d] = q[d - 1] \div Base
  BY QuotientsUnfold
<1>2. \A d \in 1..LengthDigits : body[i + d - 1] = q[d - 1] % Base
  BY DEF LittleEndian
<1> HIDE DEF q
<1>3. ASSUME NEW d \in 1..LengthDigits
      PROVE  /\ body[i + LengthDigits - d] = q[LengthDigits - d] % Base
             /\ body[i + LengthDigits - d] \in Nat
             /\ q[LengthDigits - (d - 1)] * Base + body[i + LengthDigits - d] = q[LengthDigits - d]
  <2> DEFINE e == LengthDigits - d + 1
  <2>1. /\ e \in 1..LengthDigits /\ i + e - 1 = i + LengthDigits - d
        /\ e - 1 = LengthDigits - d /\ LengthDigits - (d - 1) = e
    BY <1>0
  <2> HIDE DEF e
  <2>2. body[i + LengthDigits - d] = q[e - 1] % Base /\ q[e] = q[e - 1] \div Base
    BY <1>1, <1>2, <2>1
  <2>3. q[e - 1] \in Nat
    BY <1>0, <1>1, <2>1
  <2>4. (q[e - 1] \div Base) * Base + (q[e - 1] % Base) = q[e - 1] /\ q[e - 1] % Base \in Nat
    <3> DEFINE a == q[e - 1]
    <3>1. a \in Nat
      BY <2>3
    <3> HIDE DEF a
    <3>2. a % Base \in 0..(Base - 1) /\ (a \div Base) * Base + (a % Base) = a
      BY <1>0, <3>1, QuotientType
    <3> QED
      BY <1>0, <3>2 DEF a
  <2> QED
    BY <2>1, <2>2, <2>4
<1>4. PICK f \in [0..LengthDigits -> Nat] :
        LengthAt(body, i) = f[LengthDigits] /\ Reads(f, body, i)
  <2>1. \A d \in 1..LengthDigits : body[i + LengthDigits - d] \in Nat
    BY <1>3
  <2> QED
    BY <2>1, LengthUnfolds
<1> DEFINE T == {d \in Nat : d <= LengthDigits => f[d] = q[LengthDigits - d]}
<1>5. 0 \in T
  BY <1>0, <1>1, <1>4 DEF Reads
<1>6. ASSUME NEW d \in Nat, d \in T PROVE d + 1 \in T
  <2> SUFFICES ASSUME d + 1 <= LengthDigits PROVE f[d + 1] = q[LengthDigits - (d + 1)]
    OBVIOUS
  <2> DEFINE e == d + 1
  <2>1. e \in 1..LengthDigits /\ f[e - 1] = q[LengthDigits - (e - 1)]
    BY <1>0, <1>6
  <2> HIDE DEF e
  <2>2. f[e] = q[LengthDigits - e]
    BY <1>3, <1>4, <2>1 DEF Reads
  <2> QED
    BY <2>2 DEF e
<1>7. LengthDigits \in T
  <2> HIDE DEF T
  <2> QED
    BY <1>0, <1>5, <1>6, Induct
<1> QED
  BY <1>0, <1>1, <1>4, <1>7

-----------------------------------------------------------------------------
(* Sequences one after another *)

\* Where the parts of a concatenation lie
Joins(c, a, b) ==
  /\ Len(c) = Len(a) + Len(b) /\ Len(a) \in Nat /\ Len(b) \in Nat
  /\ \A j \in 1..Len(a) : c[j] = a[j]
  /\ \A j \in 1..Len(b) : c[Len(a) + j] = b[j]

LEMMA Join ==
  ASSUME NEW S, NEW a \in Seq(S), NEW b \in Seq(S)
  PROVE  a \o b \in Seq(S) /\ Joins(a \o b, a, b)
<1>1. /\ a \o b \in Seq(S) /\ Len(a \o b) = Len(a) + Len(b) /\ Len(a) \in Nat /\ Len(b) \in Nat
      /\ \A j \in 1..(Len(a) + Len(b)) : (a \o b)[j] = IF j <= Len(a) THEN a[j] ELSE b[j - Len(a)]
  BY ConcatProperties, LenProperties
<1>2. \A j \in 1..Len(a) : (a \o b)[j] = a[j]
  BY <1>1
<1>3. ASSUME NEW j \in 1..Len(b) PROVE (a \o b)[Len(a) + j] = b[j]
  <2>1. Len(a) + j \in 1..(Len(a) + Len(b)) /\ ~(Len(a) + j <= Len(a)) /\ (Len(a) + j) - Len(a) = j
    BY <1>1
  <2> QED
    BY <1>1, <2>1
<1> QED
  BY <1>1, <1>2, <1>3 DEF Joins

\* Three parts may be joined from either end.
Associates(a, b, c) == (a \o b) \o c = a \o (b \o c)

LEMMA Associative ==
  ASSUME NEW S, NEW a \in Seq(S), NEW b \in Seq(S), NEW c \in Seq(S)
  PROVE  Associates(a, b, c)
BY ConcatAssociative DEF Associates

\* The function by which FlattenSeq is defined
Flattens(f, seqs) == f = [i \in 1..Len(seqs) |-> IF i = 1 THEN seqs[i] ELSE f[i - 1] \o seqs[i]]

\* There is such a function.
LEMMA FlattenExists ==
  ASSUME NEW S, NEW seqs \in Seq(Seq(S))
  PROVE  \E f : Flattens(f, seqs)
<1> DEFINE Up(f, n) == /\ f \in [1..n -> Seq(S)]
                       /\ \A i \in 1..n : f[i] = IF i = 1 THEN seqs[i] ELSE f[i - 1] \o seqs[i]
           T == {n \in Nat : n <= Len(seqs) => \E f : Up(f, n)}
<1>0. Len(seqs) \in Nat /\ \A i \in 1..Len(seqs) : seqs[i] \in Seq(S)
  BY ElementOfSeq, LenProperties
<1>1. 0 \in T
  <2>1. Up([i \in {} |-> <<>>], 0)
    OBVIOUS
  <2> QED
    BY <2>1
<1>2. ASSUME NEW n \in Nat, n \in T PROVE n + 1 \in T
  <2> HIDE DEF Up
  <2> SUFFICES ASSUME n + 1 <= Len(seqs) PROVE \E f : Up(f, n + 1)
    OBVIOUS
  <2>1. PICK f : Up(f, n)
    BY <1>0, <1>2
  <2> USE DEF Up
  <2> DEFINE x == IF n + 1 = 1 THEN seqs[n + 1] ELSE f[n] \o seqs[n + 1]
             g == [i \in 1..(n + 1) |-> IF i = n + 1 THEN x ELSE f[i]]
  <2>2. x \in Seq(S)
    <3>1. seqs[n + 1] \in Seq(S)
      BY <1>0
    <3>2. n # 0 => f[n] \in Seq(S)
      BY <2>1
    <3> QED
      BY <3>1, <3>2, ConcatProperties
  <2> HIDE DEF x
  <2>3. g \in [1..(n + 1) -> Seq(S)]
    BY <2>1, <2>2
  <2>4. \A i \in 1..(n + 1) : g[i] = IF i = 1 THEN seqs[i] ELSE g[i - 1] \o seqs[i]
    <3> TAKE i \in 1..(n + 1)
    <3>1. CASE i = n + 1
      BY <3>1 DEF x
    <3>2. CASE i # n + 1
      <4>1. i \in 1..n /\ g[i] = f[i] /\ (i # 1 => g[i - 1] = f[i - 1])
        BY <3>2
      <4> QED
        BY <2>1, <4>1
    <3> QED
      BY <3>1, <3>2
  <2> QED
    BY <2>3, <2>4
<1> HIDE DEF T
<1>3. Len(seqs) \in T
  BY <1>0, <1>1, <1>2, Induct
<1>4. PICK f : Up(f, Len(seqs))
  BY <1>0, <1>3 DEF T
<1> QED
  BY <1>4 DEF Flattens

\* What it is when there are sequences, one after another
LEMMA FlattenUnfolds ==
  ASSUME NEW S, NEW seqs \in Seq(Seq(S)), seqs # <<>>
  PROVE  \E f \in [1..Len(seqs) -> Seq(S)] :
           /\ FlattenSeq(seqs) = f[Len(seqs)]
           /\ f[1] = seqs[1]
           /\ \A i \in 1..Len(seqs) : i # 1 => f[i] = f[i - 1] \o seqs[i]
<1> DEFINE h == CHOOSE f : Flattens(f, seqs)
           T == {n \in Nat : n < Len(seqs) => h[n + 1] \in Seq(S)}
<1>0. Len(seqs) \in Nat \ {0} /\ \A i \in 1..Len(seqs) : seqs[i] \in Seq(S)
  BY ElementOfSeq, LenProperties, EmptySeq
<1>1. Flattens(h, seqs)
  BY FlattenExists
<1>2. FlattenSeq(seqs) = h[Len(seqs)]
  BY <1>0 DEF FlattenSeq, Flattens
<1> HIDE DEF h
<1>3. h[1] = seqs[1] /\ \A i \in 1..Len(seqs) : i # 1 => h[i] = h[i - 1] \o seqs[i]
  <2>1. 1 \in 1..Len(seqs)
    BY <1>0
  <2> QED
    BY <1>1, <2>1 DEF Flattens
<1>4. 0 \in T
  BY <1>0, <1>3
<1>5. ASSUME NEW n \in Nat, n \in T PROVE n + 1 \in T
  <2> SUFFICES ASSUME n + 1 < Len(seqs) PROVE h[n + 2] \in Seq(S)
    OBVIOUS
  <2> DEFINE m == n + 2
  <2>1. m \in 1..Len(seqs) /\ m # 1 /\ m - 1 = n + 1
    BY <1>0
  <2>2. h[n + 1] \in Seq(S)
    BY <1>0, <1>5
  <2> HIDE DEF m
  <2>3. h[m] = h[n + 1] \o seqs[m] /\ seqs[m] \in Seq(S)
    BY <1>0, <1>3, <2>1
  <2>4. h[m] \in Seq(S)
    BY <2>2, <2>3, ConcatProperties
  <2> QED
    BY <2>4 DEF m
<1>6. \A n \in Nat : n < Len(seqs) => h[n + 1] \in Seq(S)
  <2> HIDE DEF T
  <2>1. Nat \subseteq T
    BY <1>4, <1>5, Induct
  <2> QED
    BY <2>1 DEF T
<1>7. h \in [1..Len(seqs) -> Seq(S)]
  <2>1. \A i \in 1..Len(seqs) : h[i] \in Seq(S)
    <3> TAKE i \in 1..Len(seqs)
    <3>1. i - 1 \in Nat /\ i - 1 < Len(seqs) /\ (i - 1) + 1 = i
      BY <1>0
    <3> QED
      BY <1>6, <3>1
  <2> QED
    BY <1>1, <2>1 DEF Flattens
<1> QED
  BY <1>2, <1>3, <1>7

\* It is a sequence of the same things.
LEMMA FlattenType ==
  ASSUME NEW S, NEW seqs \in Seq(Seq(S))
  PROVE  FlattenSeq(seqs) \in Seq(S) /\ (seqs = <<>> => FlattenSeq(seqs) = <<>>)
<1>1. CASE seqs = <<>>
  BY <1>1, EmptySeq DEF FlattenSeq
<1>2. CASE seqs # <<>>
  <2>1. Len(seqs) \in 1..Len(seqs)
    BY <1>2, EmptySeq
  <2>2. PICK f \in [1..Len(seqs) -> Seq(S)] : FlattenSeq(seqs) = f[Len(seqs)]
    BY <1>2, FlattenUnfolds
  <2> QED
    BY <1>2, <2>1, <2>2
<1> QED
  BY <1>1, <1>2

\* Where each of the sequences lies in the whole
LiesAt(off, seqs, whole) ==
  /\ off[0] = 0 /\ off[Len(seqs)] = Len(whole)
  /\ \A k \in 1..Len(seqs) :
       /\ off[k] = off[k - 1] + Len(seqs[k]) /\ off[k] <= Len(whole)
       /\ \A j \in 1..Len(seqs[k]) : whole[off[k - 1] + j] = seqs[k][j]

LEMMA FlattenParts ==
  ASSUME NEW S, NEW seqs \in Seq(Seq(S)), seqs # <<>>
  PROVE  \E off \in [0..Len(seqs) -> Nat] : LiesAt(off, seqs, FlattenSeq(seqs))
<1>0. Len(seqs) \in Nat \ {0} /\ \A i \in 1..Len(seqs) : seqs[i] \in Seq(S)
  BY ElementOfSeq, LenProperties, EmptySeq
<1>1. PICK f \in [1..Len(seqs) -> Seq(S)] :
        /\ FlattenSeq(seqs) = f[Len(seqs)]
        /\ f[1] = seqs[1]
        /\ \A i \in 1..Len(seqs) : i # 1 => f[i] = f[i - 1] \o seqs[i]
  BY FlattenUnfolds
<1> DEFINE off == [k \in 0..Len(seqs) |-> IF k = 0 THEN 0 ELSE Len(f[k])]
           Lies(m, k) ==
             /\ off[k] = off[k - 1] + Len(seqs[k]) /\ off[k] <= off[m]
             /\ \A j \in 1..Len(seqs[k]) : f[m][off[k - 1] + j] = seqs[k][j]
           T == {n \in Nat : n < Len(seqs) => \A k \in 1..(n + 1) : Lies(n + 1, k)}
<1>2. off \in [0..Len(seqs) -> Nat] /\ off[0] = 0 /\ \A k \in 1..Len(seqs) : off[k] = Len(f[k])
  <2>1. \A k \in 1..Len(seqs) : Len(f[k]) \in Nat
    BY <1>1, LenProperties
  <2> QED
    BY <1>0, <2>1
<1> HIDE DEF off
<1>8. ASSUME NEW k \in 1..Len(seqs)
      PROVE  off[k] \in Nat /\ off[k - 1] \in Nat /\ Len(seqs[k]) \in Nat
  <2>1. k \in 0..Len(seqs) /\ k - 1 \in 0..Len(seqs)
    BY <1>0
  <2>2. Len(seqs[k]) \in Nat
    BY <1>0, LenProperties
  <2> QED
    BY <1>2, <2>1, <2>2
<1>3. 0 \in T
  <2>1. \A k \in 1..(0 + 1) : Lies(0 + 1, k)
    <3>1. Len(seqs[1]) \in Nat /\ 1 \in 1..Len(seqs)
      BY <1>0, LenProperties
    <3>2. Lies(1, 1)
      BY <1>1, <1>2, <3>1
    <3> QED
      BY <3>2
  <2> QED
    BY <2>1
<1>4. ASSUME NEW n \in Nat, n \in T PROVE n + 1 \in T
  <2> SUFFICES ASSUME n + 1 < Len(seqs), NEW k \in 1..((n + 1) + 1) PROVE Lies((n + 1) + 1, k)
    OBVIOUS
  <2> DEFINE m == n + 1
             e == m + 1
  <2>1. m \in 1..Len(seqs) /\ e \in 1..Len(seqs) /\ e # 1 /\ e - 1 = m /\ k \in 1..e
    BY <1>0
  <2>2. \A l \in 1..m : Lies(m, l)
    BY <1>0, <1>4
  <2> SUFFICES Lies(e, k)
    OBVIOUS
  <2> HIDE DEF e
  <2>3. /\ f[m] \in Seq(S) /\ f[e] = f[m] \o seqs[e] /\ seqs[e] \in Seq(S)
        /\ off[m] = Len(f[m]) /\ off[e] = Len(f[e])
    BY <1>0, <1>1, <1>2, <2>1
  <2>4. /\ Len(f[e]) = Len(f[m]) + Len(seqs[e]) /\ Len(f[m]) \in Nat /\ Len(seqs[e]) \in Nat
        /\ \A j \in 1..Len(f[m]) : f[e][j] = f[m][j]
        /\ \A j \in 1..Len(seqs[e]) : f[e][Len(f[m]) + j] = seqs[e][j]
    <3> DEFINE a == f[m]
               b == seqs[e]
    <3>1. a \in Seq(S) /\ b \in Seq(S) /\ f[e] = a \o b
      BY <2>3
    <3> HIDE DEF a, b
    <3>2. Joins(a \o b, a, b)
      BY <3>1, Join
    <3> QED
      BY <3>1, <3>2 DEF a, b, Joins
  <2>7. /\ off[e] = off[m] + Len(seqs[e]) /\ off[m] \in Nat /\ off[e] \in Nat
        /\ Len(seqs[e]) \in Nat /\ 1..Len(f[m]) = 1..off[m]
    <3>1. off[e] = off[m] + Len(seqs[e]) /\ 1..Len(f[m]) = 1..off[m]
      BY <2>3, <2>4, Zenon
    <3> QED
      BY <1>8, <2>1, <3>1
  <2>8. off[m] <= off[e]
    BY <2>7
  <2>5. CASE k = e
    <3>1. off[k] = off[k - 1] + Len(seqs[k]) /\ off[k] <= off[e]
      BY <2>1, <2>5, <2>7
    <3> QED
      BY <2>1, <2>3, <2>4, <2>5, <3>1
  <2>6. CASE k # e
    <3>1. k \in 1..m
      BY <2>1, <2>6
    <3>2. /\ off[k] = off[k - 1] + Len(seqs[k]) /\ off[k] <= off[m]
          /\ \A j \in 1..Len(seqs[k]) : f[m][off[k - 1] + j] = seqs[k][j]
      BY <2>2, <3>1
    <3>3. off[k] \in Nat /\ off[k - 1] \in Nat /\ Len(seqs[k]) \in Nat
      <4>1. k \in 1..Len(seqs)
        BY <1>0, <2>1, <3>1
      <4> QED
        BY <1>8, <4>1
    <3>4. ASSUME NEW j \in 1..Len(seqs[k]) PROVE f[e][off[k - 1] + j] = seqs[k][j]
      <4>1. off[k - 1] + j \in 1..Len(f[m])
        <5>1. off[k - 1] + j \in 1..off[m]
          <6> DEFINE a == off[k - 1]
                     b == Len(seqs[k])
                     c == off[m]
          <6>1. a \in Nat /\ b \in Nat /\ c \in Nat /\ a + b <= c /\ j \in 1..b
            BY <2>7, <3>2, <3>3
          <6> SUFFICES a + j \in 1..c
            OBVIOUS
          <6> HIDE DEF a, b, c
          <6> QED
            BY <6>1
        <5> QED
          BY <2>7, <5>1
      <4> QED
        BY <2>4, <3>2, <4>1
    <3>5. off[k] <= off[e]
      <4> DEFINE a == off[k]
                 b == off[m]
                 c == off[e]
      <4>1. a \in Nat /\ b \in Nat /\ c \in Nat /\ a <= b /\ b <= c
        BY <2>7, <2>8, <3>2, <3>3
      <4> HIDE DEF a, b, c
      <4>2. a <= c
        BY <4>1
      <4> QED
        BY <4>2 DEF a, c
    <3> QED
      BY <3>2, <3>4, <3>5
  <2> QED
    BY <2>5, <2>6
<1>5. Nat \subseteq T
  <2> HIDE DEF T
  <2> QED
    BY <1>3, <1>4, Induct
<1>6. \A k \in 1..Len(seqs) : Lies(Len(seqs), k)
  <2>1. Len(seqs) - 1 \in T /\ Len(seqs) - 1 < Len(seqs) /\ (Len(seqs) - 1) + 1 = Len(seqs)
    BY <1>0, <1>5
  <2> HIDE DEF Lies
  <2> QED
    BY <2>1
<1>7. off[Len(seqs)] = Len(FlattenSeq(seqs))
  BY <1>0, <1>1, <1>2
<1> DEFINE flat == FlattenSeq(seqs)
<1>9. \A k \in 1..Len(seqs) :
        /\ off[k] = off[k - 1] + Len(seqs[k]) /\ off[k] <= off[Len(seqs)]
        /\ \A j \in 1..Len(seqs[k]) : flat[off[k - 1] + j] = seqs[k][j]
  BY <1>1, <1>6
<1> HIDE DEF flat
<1>10. off[Len(seqs)] = Len(flat)
  BY <1>7 DEF flat
<1>11. LiesAt(off, seqs, flat)
  BY <1>2, <1>9, <1>10 DEF LiesAt
<1> QED
  BY <1>2, <1>11 DEF flat

-----------------------------------------------------------------------------
(* journald's parser *)

\* journald finds the first byte of a kind, or the end.
LEMMA FirstAtSound ==
  ASSUME NEW body, Len(body) \in Nat, NEW byte, NEW i \in 1..(Len(body) + 1)
  PROVE  /\ FirstAt(body, byte, i) \in i..(Len(body) + 1)
         /\ FirstAt(body, byte, i) = Len(body) + 1 \/ body[FirstAt(body, byte, i)] = byte
         /\ \A k \in i..(FirstAt(body, byte, i) - 1) : body[k] # byte
<1> DEFINE T == {j \in i..(Len(body) + 1) : j = Len(body) + 1 \/ body[j] = byte}
<1>1. PICK j \in T : \A y \in T : j <= y
  <2>1. T \subseteq Nat /\ Len(body) + 1 \in T
    OBVIOUS
  <2> HIDE DEF T
  <2> QED
    BY <2>1, Least
<1>2. \A k \in i..(j - 1) : body[k] # byte
  <2> SUFFICES ASSUME NEW k \in i..(j - 1), body[k] = byte PROVE FALSE
    OBVIOUS
  <2>1. k \in T /\ k < j
    OBVIOUS
  <2> QED
    BY <1>1, <2>1
<1>3. \E k \in i..(Len(body) + 1) : /\ k = Len(body) + 1 \/ body[k] = byte
                                    /\ \A l \in i..(k - 1) : body[l] # byte
  BY <1>2
<1> QED
  BY <1>3 DEF FirstAt

\* What is the first is found.
LEMMA FirstAtIs ==
  ASSUME NEW body, Len(body) \in Nat, NEW byte, NEW i \in 1..(Len(body) + 1),
         NEW j \in i..(Len(body) + 1), j = Len(body) + 1 \/ body[j] = byte,
         \A k \in i..(j - 1) : body[k] # byte
  PROVE  FirstAt(body, byte, i) = j
<1> DEFINE x == FirstAt(body, byte, i)
<1>1. /\ x \in i..(Len(body) + 1)
      /\ x = Len(body) + 1 \/ body[x] = byte
      /\ \A k \in i..(x - 1) : body[k] # byte
  BY FirstAtSound
<1> HIDE DEF x
<1>2. ~(x < j)
  BY <1>1
<1>3. ~(j < x)
  BY <1>1
<1>4. x = j
  BY <1>1, <1>2, <1>3
<1> QED
  BY <1>4 DEF x

\* What journald makes of the body from an offset on, given what it makes of it
\* further on, and its parser
FieldsFrom(body, fields, i) ==
  LET nl == FirstAt(body, Newline, i)
      eq == FirstAt(body, Equals, i)
      from == nl + 1 + LengthDigits
      to == from + LengthAt(body, nl + 1) - 1
  IN  IF nl > Len(body) THEN <<>>
      ELSE IF eq < nl
      THEN <<Field(body, i, eq, eq + 1, nl - 1)>> \o fields[nl + 1]
      ELSE IF from > Len(body) + 1 \/ to >= Len(body) THEN <<>>
      ELSE <<Field(body, i, nl, from, to)>> \o fields[to + 2]

Parses(f, body, first) == f = [i \in first..(Len(body) + 1) |-> FieldsFrom(body, f, i)]

\* It only looks ahead.
LEMMA LooksAhead ==
  ASSUME NEW body \in Seq(Bytes), NEW i \in 1..(Len(body) + 1), NEW f, NEW g,
         \A k \in (i + 1)..(Len(body) + 1) : f[k] = g[k]
  PROVE  FieldsFrom(body, f, i) = FieldsFrom(body, g, i)
<1> DEFINE nl == FirstAt(body, Newline, i)
           eq == FirstAt(body, Equals, i)
           from == nl + 1 + LengthDigits
           length == LengthAt(body, nl + 1)
           to == from + length - 1
<1>0. /\ Len(body) \in Nat /\ LengthDigits \in Nat /\ Base \in Nat
      /\ \A k \in 1..Len(body) : body[k] \in 0..(Base - 1)
  BY JournalFieldsAssumption, LenProperties, ElementOfSeq DEF Bytes
<1>1. nl \in i..(Len(body) + 1)
  BY <1>0, FirstAtSound
<1>2. nl <= Len(body) => nl + 1 \in (i + 1)..(Len(body) + 1)
  <2> HIDE DEF nl
  <2> QED
    BY <1>0, <1>1
<1>3. ASSUME nl <= Len(body), ~(from > Len(body) + 1 \/ to >= Len(body))
      PROVE  to + 2 \in (i + 1)..(Len(body) + 1)
  <2>1. length \in Nat
    <3>1. \A d \in 1..LengthDigits : (nl + 1) + LengthDigits - d \in 1..Len(body)
      <4> HIDE DEF nl
      <4> QED
        BY <1>0, <1>1, <1>3
    <3>2. \A d \in 1..LengthDigits : body[(nl + 1) + LengthDigits - d] \in Nat
      <4> HIDE DEF nl
      <4> QED
        BY <1>0, <3>1
    <3>3. nl + 1 \in Nat
      <4> HIDE DEF nl
      <4> QED
        BY <1>0, <1>1
    <3>4. PICK h \in [0..LengthDigits -> Nat] : length = h[LengthDigits] /\ Reads(h, body, nl + 1)
      <4> HIDE DEF nl
      <4> QED
        BY <3>2, <3>3, LengthUnfolds
    <3> QED
      BY <1>0, <3>4
  <2> HIDE DEF nl, length
  <2> QED
    BY <1>0, <1>1, <1>3, <2>1
<1> HIDE DEF nl, eq, to, from
<1>4. /\ nl <= Len(body) => f[nl + 1] = g[nl + 1]
      /\ nl <= Len(body) /\ ~(from > Len(body) + 1 \/ to >= Len(body)) => f[to + 2] = g[to + 2]
  BY <1>2, <1>3
<1>5. nl > Len(body) \/ nl <= Len(body)
  BY <1>0, <1>1
<1> QED
  BY <1>4, <1>5 DEF FieldsFrom, nl, eq, to, from, length

\* So that there is such a function, from the last offset back to the first
LEMMA ParserExists ==
  ASSUME NEW body \in Seq(Bytes)
  PROVE  \E f : Parses(f, body, 1)
<1> DEFINE top == Len(body) + 1
           T == {n \in Nat : n < top => \E f : Parses(f, body, top - n)}
<1>0. top \in Nat /\ top >= 1
  BY LenProperties
<1> HIDE DEF top
<1>1. ASSUME NEW first \in 1..top, NEW f, first < top => Parses(f, body, first + 1)
      PROVE  \E g : Parses(g, body, first)
  <2> DEFINE g == [i \in first..top |-> IF i = first THEN FieldsFrom(body, f, i) ELSE f[i]]
  <2>1. \A k \in (first + 1)..top : f[k] = g[k]
    BY <1>0
  <2>2. ASSUME NEW i \in first..top PROVE FieldsFrom(body, f, i) = FieldsFrom(body, g, i)
    <3>1. i \in 1..top /\ \A k \in (i + 1)..top : f[k] = g[k]
      <4> HIDE DEF g
      <4> QED
        BY <1>0, <2>1
    <3> HIDE DEF g
    <3> QED
      BY <3>1, LooksAhead DEF top
  <2>3. ASSUME NEW i \in first..top PROVE g[i] = FieldsFrom(body, g, i)
    <3>1. CASE i = first
      BY <2>2, <3>1
    <3>2. CASE i # first
      <4>1. i \in (first + 1)..top /\ first < top
        BY <1>0, <3>2
      <4>2. f[i] = FieldsFrom(body, f, i)
        BY <1>1, <4>1 DEF Parses, top
      <4> QED
        BY <2>2, <3>2, <4>2
    <3> QED
      BY <3>1, <3>2
  <2>4. g = [i \in first..top |-> g[i]]
    OBVIOUS
  <2> HIDE DEF g
  <2>5. g = [i \in first..top |-> FieldsFrom(body, g, i)]
    BY <2>3, <2>4
  <2> QED
    BY <2>5 DEF Parses, top
<1>2. 0 \in T
  <2>1. \E g : Parses(g, body, top)
    BY <1>0, <1>1
  <2> QED
    BY <1>0, <2>1
<1>3. ASSUME NEW n \in Nat, n \in T PROVE n + 1 \in T
  <2> SUFFICES ASSUME n + 1 < top PROVE \E g : Parses(g, body, top - (n + 1))
    OBVIOUS
  <2> DEFINE first == top - (n + 1)
  <2>1. first \in 1..top /\ first + 1 = top - n
    BY <1>0
  <2>2. PICK f : Parses(f, body, top - n)
    BY <1>0, <1>3
  <2> HIDE DEF first
  <2>3. \E g : Parses(g, body, first)
    BY <1>1, <2>1, <2>2
  <2> QED
    BY <2>3 DEF first
<1>4. Nat \subseteq T
  <2> HIDE DEF T
  <2> QED
    BY <1>2, <1>3, Induct
<1>5. top - 1 \in T /\ top - 1 < top /\ top - (top - 1) = 1
  BY <1>0, <1>4
<1> QED
  BY <1>5

\* The parser takes its fields from the front.
LEMMA ParserUnfolds ==
  ASSUME NEW body \in Seq(Bytes)
  PROVE  \E f : /\ ParseEntry(body) = f[1]
                /\ \A i \in 1..(Len(body) + 1) : f[i] = FieldsFrom(body, f, i)
<1> DEFINE f == CHOOSE g : Parses(g, body, 1)
<1>1. ParseEntry(body) = f[1]
  BY DEF ParseEntry, Parses, FieldsFrom
<1>2. Parses(f, body, 1)
  BY ParserExists
<1> HIDE DEF f
<1>3. \A i \in 1..(Len(body) + 1) : f[i] = FieldsFrom(body, f, i)
  BY <1>2 DEF Parses
<1> QED
  BY <1>1, <1>3

-----------------------------------------------------------------------------
(* One field *)

\* A part of the body that agrees with a sequence is that sequence.
LEMMA PartIs ==
  ASSUME NEW S, NEW body \in Seq(S), NEW s \in Seq(S), NEW i \in Nat \ {0}, NEW to \in Int,
         to = i + Len(s) - 1, to <= Len(body),
         \A j \in 1..Len(s) : body[i + j - 1] = s[j]
  PROVE  SubSeq(body, i, to) = s
<1>0. Len(s) \in Nat /\ Len(body) \in Nat
  BY LenProperties
<1> DEFINE t == SubSeq(body, i, to)
<1>1. /\ t \in Seq(S) /\ Len(t) = Len(s)
      /\ \A j \in 1..Len(s) : t[j] = body[i + j - 1]
  BY <1>0
<1> HIDE DEF t
<1>2. t = s
  BY <1>1, SeqEqual
<1> QED
  BY <1>2 DEF t

\* A name, what stands between, a value, and the newline
Framed(u, mid, raw) == ((u \o mid) \o raw) \o <<Newline>>

FramedBy(c, u, mid, raw) ==
  /\ Len(u) \in Nat /\ Len(mid) \in Nat /\ Len(raw) \in Nat
  /\ Len(c) = Len(u) + Len(mid) + Len(raw) + 1
  /\ \A j \in 1..Len(u) : c[j] = u[j]
  /\ \A j \in 1..Len(mid) : c[Len(u) + j] = mid[j]
  /\ \A j \in 1..Len(raw) : c[Len(u) + Len(mid) + j] = raw[j]
  /\ c[Len(u) + Len(mid) + Len(raw) + 1] = Newline

LEMMA FramedParts ==
  ASSUME NEW u \in Seq(Bytes), NEW mid \in Seq(Bytes), NEW raw \in Seq(Bytes)
  PROVE  Framed(u, mid, raw) \in Seq(Bytes) /\ FramedBy(Framed(u, mid, raw), u, mid, raw)
<1> DEFINE a == u \o mid
           b == a \o raw
           n == <<Newline>>
           c == b \o n
<1>0. n \in Seq(Bytes) /\ Len(n) = 1 /\ n[1] = Newline
  BY JournalFieldsAssumption
<1> HIDE DEF n
<1>1. a \in Seq(Bytes) /\ Joins(a, u, mid)
  BY Join
<1> HIDE DEF a
<1>2. b \in Seq(Bytes) /\ Joins(b, a, raw)
  BY <1>1, Join
<1> HIDE DEF b
<1>3. c \in Seq(Bytes) /\ Joins(c, b, n)
  BY <1>0, <1>2, Join
<1> HIDE DEF c
<1>4. Framed(u, mid, raw) = c
  BY DEF Framed, a, b, c, n
<1>5. \A j \in 1..Len(u) : c[j] = u[j]
  <2> TAKE j \in 1..Len(u)
  <2>1. j \in 1..Len(a) /\ j \in 1..Len(b)
    BY <1>1, <1>2 DEF Joins
  <2> QED
    BY <1>1, <1>2, <1>3, <2>1 DEF Joins
<1>6. \A j \in 1..Len(mid) : c[Len(u) + j] = mid[j]
  <2> TAKE j \in 1..Len(mid)
  <2>1. Len(u) + j \in 1..Len(a) /\ Len(u) + j \in 1..Len(b)
    BY <1>1, <1>2 DEF Joins
  <2> QED
    BY <1>1, <1>2, <1>3, <2>1 DEF Joins
<1>7. \A j \in 1..Len(raw) : c[Len(u) + Len(mid) + j] = raw[j]
  <2> TAKE j \in 1..Len(raw)
  <2>1. Len(a) + j \in 1..Len(b) /\ Len(a) + j = Len(u) + Len(mid) + j
    BY <1>1, <1>2 DEF Joins
  <2> QED
    BY <1>2, <1>3, <2>1 DEF Joins
<1>8. Len(c) = Len(u) + Len(mid) + Len(raw) + 1 /\ c[Len(u) + Len(mid) + Len(raw) + 1] = Newline
  BY <1>0, <1>1, <1>2, <1>3 DEF Joins
<1>9. Len(u) \in Nat /\ Len(mid) \in Nat /\ Len(raw) \in Nat
  BY <1>1, <1>2 DEF Joins
<1> QED
  BY <1>3, <1>4, <1>5, <1>6, <1>7, <1>8, <1>9 DEF FramedBy

\* What a name is made of
Plain == Bytes \ {Newline, Equals}

\* The body agrees with the sequence from the offset on.
Agrees(body, i, s) == i + Len(s) - 1 <= Len(body) /\ \A j \in 1..Len(s) : body[i + j - 1] = s[j]

Shows(body, i, u, mid, raw) ==
  /\ i + Len(u) + Len(mid) + Len(raw) <= Len(body)
  /\ \A j \in 1..Len(u) : body[i + j - 1] = u[j]
  /\ \A j \in 1..Len(mid) : body[i + Len(u) + j - 1] = mid[j]
  /\ \A j \in 1..Len(raw) : body[i + Len(u) + Len(mid) + j - 1] = raw[j]
  /\ body[i + Len(u) + Len(mid) + Len(raw)] = Newline

LEMMA AgreeingParts ==
  ASSUME NEW body \in Seq(Bytes), NEW i \in Nat \ {0},
         NEW u \in Seq(Bytes), NEW mid \in Seq(Bytes), NEW raw \in Seq(Bytes),
         Agrees(body, i, Framed(u, mid, raw))
  PROVE  Shows(body, i, u, mid, raw)
<1> DEFINE enc == Framed(u, mid, raw)
<1>1. /\ Len(u) \in Nat /\ Len(mid) \in Nat /\ Len(raw) \in Nat
      /\ Len(enc) = Len(u) + Len(mid) + Len(raw) + 1
      /\ \A j \in 1..Len(u) : enc[j] = u[j]
      /\ \A j \in 1..Len(mid) : enc[Len(u) + j] = mid[j]
      /\ \A j \in 1..Len(raw) : enc[Len(u) + Len(mid) + j] = raw[j]
      /\ enc[Len(u) + Len(mid) + Len(raw) + 1] = Newline
  <2>1. FramedBy(enc, u, mid, raw)
    BY FramedParts
  <2> HIDE DEF enc
  <2> QED
    BY <2>1 DEF FramedBy
<1>2. i + Len(enc) - 1 <= Len(body) /\ \A j \in 1..Len(enc) : body[i + j - 1] = enc[j]
  BY DEF Agrees
<1>3. Len(body) \in Nat
  BY LenProperties
<1> HIDE DEF enc
<1>4. i + Len(u) + Len(mid) + Len(raw) <= Len(body)
  BY <1>1, <1>2, <1>3
<1>5. ASSUME NEW k \in 1..Len(enc), NEW l \in Int, l = i + k - 1 PROVE body[l] = enc[k]
  BY <1>2, <1>5
<1>6. ASSUME NEW j \in 1..Len(u) PROVE body[i + j - 1] = u[j]
  BY <1>1, <1>2
<1>7. ASSUME NEW j \in 1..Len(mid) PROVE body[i + Len(u) + j - 1] = mid[j]
  <2>1. /\ Len(u) + j \in 1..Len(enc) /\ i + Len(u) + j - 1 \in Int
        /\ i + Len(u) + j - 1 = i + (Len(u) + j) - 1
    BY <1>1
  <2> QED
    BY <1>1, <1>5, <2>1
<1>8. ASSUME NEW j \in 1..Len(raw) PROVE body[i + Len(u) + Len(mid) + j - 1] = raw[j]
  <2>1. /\ Len(u) + Len(mid) + j \in 1..Len(enc) /\ i + Len(u) + Len(mid) + j - 1 \in Int
        /\ i + Len(u) + Len(mid) + j - 1 = i + (Len(u) + Len(mid) + j) - 1
    BY <1>1
  <2> QED
    BY <1>1, <1>5, <2>1
<1>9. body[i + Len(u) + Len(mid) + Len(raw)] = Newline
  <2>1. /\ Len(enc) \in 1..Len(enc) /\ i + Len(u) + Len(mid) + Len(raw) \in Int
        /\ i + Len(u) + Len(mid) + Len(raw) = i + Len(enc) - 1
    BY <1>1
  <2> QED
    BY <1>1, <1>5, <2>1
<1> QED
  BY <1>4, <1>6, <1>7, <1>8, <1>9 DEF Shows

\* What journald finds where a field begins
ReadsAs(body, i, f, u, raw, enc) == FieldsFrom(body, f, i) = <<<<u, raw>>>> \o f[i + Len(enc)]

\* A field that is written as text is read as text.
LEMMA TextReads ==
  ASSUME NEW body \in Seq(Bytes), NEW i \in Nat \ {0}, NEW f,
         NEW u \in Seq(Plain), NEW raw \in Seq(Bytes), \A j \in 1..Len(raw) : raw[j] # Newline,
         Agrees(body, i, Framed(u, <<Equals>>, raw))
  PROVE  ReadsAs(body, i, f, u, raw, Framed(u, <<Equals>>, raw))
<1> DEFINE mid == <<Equals>>
           nl == i + Len(u) + 1 + Len(raw)
           eq == i + Len(u)
<1>0. /\ u \in Seq(Bytes) /\ mid \in Seq(Bytes) /\ Len(mid) = 1 /\ mid[1] = Equals
      /\ Equals # Newline
      /\ Len(u) \in Nat /\ Len(raw) \in Nat /\ Len(body) \in Nat
      /\ \A j \in 1..Len(u) : u[j] # Newline /\ u[j] # Equals
  <2>1. u \in Seq(Bytes)
    <3>1. Plain \subseteq Bytes
      BY DEF Plain
    <3> QED
      BY <3>1, SeqMonotonic
  <2>2. \A j \in 1..Len(u) : u[j] \in Plain
    BY ElementOfSeq
  <2> QED
    BY <2>1, <2>2, LenProperties, JournalFieldsAssumption DEF Plain
<1> HIDE DEF mid
<1>1. /\ i + Len(u) + Len(mid) + Len(raw) <= Len(body)
      /\ \A j \in 1..Len(u) : body[i + j - 1] = u[j]
      /\ \A j \in 1..Len(mid) : body[i + Len(u) + j - 1] = mid[j]
      /\ \A j \in 1..Len(raw) : body[i + Len(u) + Len(mid) + j - 1] = raw[j]
      /\ body[i + Len(u) + Len(mid) + Len(raw)] = Newline
  <2>1. Agrees(body, i, Framed(u, mid, raw))
    BY DEF mid
  <2>2. Shows(body, i, u, mid, raw)
    BY <1>0, <2>1, AgreeingParts
  <2> QED
    BY <2>2 DEF Shows
<1>2. nl \in i..Len(body) /\ eq \in i..Len(body) /\ eq < nl /\ body[nl] = Newline /\ body[eq] = Equals
  BY <1>0, <1>1
<1>3. ASSUME NEW k \in i..(eq - 1) PROVE body[k] # Newline /\ body[k] # Equals
  <2>1. k - i + 1 \in 1..Len(u) /\ i + (k - i + 1) - 1 = k
    BY <1>0
  <2>2. body[i + (k - i + 1) - 1] = u[k - i + 1]
    BY <1>1, <2>1
  <2> QED
    BY <1>0, <2>1, <2>2
<1>4. ASSUME NEW k \in (eq + 1)..(nl - 1) PROVE body[k] # Newline
  <2>1. /\ k - eq \in 1..Len(raw)
        /\ i + Len(u) + Len(mid) + (k - eq) - 1 = k
    BY <1>0
  <2>2. body[i + Len(u) + Len(mid) + (k - eq) - 1] = raw[k - eq]
    BY <1>1, <2>1
  <2> QED
    BY <2>1, <2>2
<1>5. FirstAt(body, Newline, i) = nl
  <2>1. \A k \in i..(nl - 1) : body[k] # Newline
    <3> TAKE k \in i..(nl - 1)
    <3>1. k \in i..(eq - 1) \/ k = eq \/ k \in (eq + 1)..(nl - 1)
      BY <1>0
    <3> QED
      BY <1>0, <1>2, <1>3, <1>4, <3>1
  <2>2. i \in 1..(Len(body) + 1) /\ nl \in i..(Len(body) + 1)
    BY <1>0, <1>2
  <2> HIDE DEF nl, eq
  <2>3. Len(body) \in Nat /\ body[nl] = Newline
    BY <1>0, <1>2
  <2> QED
    BY <2>1, <2>2, <2>3, FirstAtIs
<1>6. FirstAt(body, Equals, i) = eq
  <2>1. i \in 1..(Len(body) + 1) /\ eq \in i..(Len(body) + 1)
    BY <1>0, <1>2
  <2>2. Len(body) \in Nat /\ body[eq] = Equals /\ \A k \in i..(eq - 1) : body[k] # Equals
    BY <1>0, <1>2, <1>3
  <2> HIDE DEF nl, eq
  <2> QED
    BY <2>1, <2>2, FirstAtIs
<1>7. SubSeq(body, i, eq - 1) = u
  <2>1. /\ eq - 1 \in Int /\ eq - 1 = i + Len(u) - 1 /\ eq - 1 <= Len(body)
    BY <1>0, <1>2
  <2> QED
    BY <1>0, <1>1, <2>1, PartIs
<1>8. SubSeq(body, eq + 1, nl - 1) = raw
  <2> DEFINE s == eq + 1
  <2>1. /\ nl - 1 \in Int /\ s \in Nat \ {0} /\ nl - 1 = s + Len(raw) - 1 /\ nl - 1 <= Len(body)
    BY <1>0, <1>2
  <2>2. \A j \in 1..Len(raw) : body[s + j - 1] = raw[j]
    <3> TAKE j \in 1..Len(raw)
    <3>1. s + j - 1 = i + Len(u) + Len(mid) + j - 1
      BY <1>0
    <3> QED
      BY <1>1, <3>1
  <2> HIDE DEF nl, s
  <2>3. SubSeq(body, s, nl - 1) = raw
    BY <2>1, <2>2, PartIs
  <2> QED
    BY <2>3 DEF s
<1>9. i + Len(Framed(u, mid, raw)) = nl + 1
  <2>1. FramedBy(Framed(u, mid, raw), u, mid, raw)
    BY <1>0, FramedParts
  <2> QED
    BY <1>0, <2>1 DEF FramedBy
<1>10. ~(nl > Len(body)) /\ eq < nl
  BY <1>0, <1>2
<1> HIDE DEF nl, eq
<1>11. FieldsFrom(body, f, i) = <<<<u, raw>>>> \o f[nl + 1]
  BY <1>5, <1>6, <1>7, <1>8, <1>10 DEF FieldsFrom, Field
<1> QED
  BY <1>9, <1>11 DEF mid, ReadsAs

\* The digits of a length are bytes.
LEMMA DigitsAreBytes ==
  ASSUME NEW n \in Nat
  PROVE  LittleEndian(n) \in Seq(Bytes) /\ Len(LittleEndian(n)) = LengthDigits
<1>0. Base \in Nat \ {0} /\ LengthDigits \in Nat
  BY JournalFieldsAssumption
<1>1. ASSUME NEW d \in 1..LengthDigits PROVE Quotients(n)[d - 1] % Base \in Bytes
  <2> DEFINE q == Quotients(n)[d - 1]
  <2>1. q \in Nat
    <3>1. Quotients(n) \in [0..LengthDigits -> Nat] /\ d - 1 \in 0..LengthDigits
      BY <1>0, QuotientsUnfold
    <3> QED
      BY <3>1
  <2> HIDE DEF q
  <2>2. q % Base \in Bytes
    BY <1>0, <2>1, QuotientType DEF Bytes
  <2> QED
    BY <2>2 DEF q
<1>2. LittleEndian(n) \in [1..LengthDigits -> Bytes]
  BY <1>1 DEF LittleEndian
<1> QED
  BY <1>0, <1>2

\* A field that is written with its length is read by its length, whatever it
\* holds and whatever bytes the length is made of.
LEMMA BinaryReads ==
  ASSUME NEW body \in Seq(Bytes), NEW i \in Nat \ {0}, NEW f,
         NEW u \in Seq(Plain), NEW raw \in Seq(Bytes), Quotients(Len(raw))[LengthDigits] = 0,
         NEW mid, mid = <<Newline>> \o LittleEndian(Len(raw)),
         Agrees(body, i, Framed(u, mid, raw))
  PROVE  ReadsAs(body, i, f, u, raw, Framed(u, mid, raw))
<1> DEFINE digits == LittleEndian(Len(raw))
           nl == i + Len(u)
           from == nl + 1 + LengthDigits
           to == from + Len(raw) - 1
<1>0. /\ u \in Seq(Bytes) /\ Equals # Newline /\ LengthDigits \in Nat
      /\ Len(u) \in Nat /\ Len(raw) \in Nat /\ Len(body) \in Nat
      /\ \A j \in 1..Len(u) : u[j] # Newline /\ u[j] # Equals
  <2>1. u \in Seq(Bytes)
    <3>1. Plain \subseteq Bytes
      BY DEF Plain
    <3> QED
      BY <3>1, SeqMonotonic
  <2>2. \A j \in 1..Len(u) : u[j] \in Plain
    BY ElementOfSeq
  <2> QED
    BY <2>1, <2>2, LenProperties, JournalFieldsAssumption DEF Plain
<1>1. /\ mid \in Seq(Bytes) /\ Len(mid) = LengthDigits + 1 /\ mid[1] = Newline
      /\ \A d \in 1..LengthDigits : mid[1 + d] = digits[d]
  <2> DEFINE n == <<Newline>>
  <2>1. n \in Seq(Bytes) /\ Len(n) = 1 /\ n[1] = Newline
    BY JournalFieldsAssumption
  <2>2. digits \in Seq(Bytes) /\ Len(digits) = LengthDigits
    BY <1>0, DigitsAreBytes
  <2> HIDE DEF n, digits
  <2>3. n \o digits \in Seq(Bytes) /\ Joins(n \o digits, n, digits)
    BY <2>1, <2>2, Join
  <2>4. mid = n \o digits
    BY DEF n, digits
  <2>5. /\ Len(mid) = Len(n) + Len(digits)
        /\ \A j \in 1..Len(n) : mid[j] = n[j]
        /\ \A j \in 1..Len(digits) : mid[Len(n) + j] = digits[j]
    BY <2>3, <2>4 DEF Joins
  <2>6. Len(mid) = LengthDigits + 1 /\ mid[1] = n[1]
    BY <1>0, <2>1, <2>2, <2>5
  <2>7. \A d \in 1..LengthDigits : mid[1 + d] = digits[d]
    <3> TAKE d \in 1..LengthDigits
    <3>1. mid[Len(n) + d] = digits[d]
      BY <2>2, <2>5
    <3> QED
      BY <2>1, <3>1
  <2> QED
    BY <2>1, <2>3, <2>4, <2>6, <2>7
<1> HIDE DEF digits
<1>2. /\ i + Len(u) + Len(mid) + Len(raw) <= Len(body)
      /\ \A j \in 1..Len(u) : body[i + j - 1] = u[j]
      /\ \A j \in 1..Len(mid) : body[i + Len(u) + j - 1] = mid[j]
      /\ \A j \in 1..Len(raw) : body[i + Len(u) + Len(mid) + j - 1] = raw[j]
      /\ body[i + Len(u) + Len(mid) + Len(raw)] = Newline
  <2>1. Shows(body, i, u, mid, raw)
    BY <1>0, <1>1, AgreeingParts
  <2> QED
    BY <2>1 DEF Shows
<1>3. /\ nl \in i..Len(body) /\ to < Len(body) /\ from <= Len(body)
      /\ nl \in Nat /\ from \in Nat \ {0} /\ to \in Int
  BY <1>0, <1>1, <1>2
<1>4. body[nl] = Newline
  <2>1. 1 \in 1..Len(mid) /\ i + Len(u) + 1 - 1 = nl
    BY <1>0, <1>1
  <2>2. body[i + Len(u) + 1 - 1] = mid[1]
    BY <1>2, <2>1
  <2> QED
    BY <1>1, <2>1, <2>2
<1>5. ASSUME NEW k \in i..(nl - 1) PROVE body[k] # Newline /\ body[k] # Equals
  <2>1. k - i + 1 \in 1..Len(u) /\ i + (k - i + 1) - 1 = k
    BY <1>0
  <2>2. body[i + (k - i + 1) - 1] = u[k - i + 1]
    BY <1>2, <2>1
  <2> QED
    BY <1>0, <2>1, <2>2
<1>6. FirstAt(body, Newline, i) = nl
  <2>1. i \in 1..(Len(body) + 1) /\ nl \in i..(Len(body) + 1)
    BY <1>0, <1>3
  <2>2. \A k \in i..(nl - 1) : body[k] # Newline
    BY <1>5
  <2> HIDE DEF nl
  <2>3. Len(body) \in Nat /\ body[nl] = Newline
    BY <1>0, <1>4
  <2> QED
    BY <2>1, <2>2, <2>3, FirstAtIs
<1>7. ~(FirstAt(body, Equals, i) < nl)
  <2> DEFINE eq == FirstAt(body, Equals, i)
  <2>1. /\ eq \in i..(Len(body) + 1)
        /\ eq = Len(body) + 1 \/ body[eq] = Equals
    <3>1. i \in 1..(Len(body) + 1)
      BY <1>0, <1>3
    <3> QED
      BY <1>0, <3>1, FirstAtSound
  <2> HIDE DEF eq
  <2>2. ~(eq < nl)
    BY <1>0, <1>3, <1>5, <2>1
  <2> QED
    BY <2>2 DEF eq
<1>8. LengthAt(body, nl + 1) = Len(raw)
  <2>1. \A d \in 1..LengthDigits : body[(nl + 1) + d - 1] = digits[d]
    <3> TAKE d \in 1..LengthDigits
    <3>1. 1 + d \in 1..Len(mid)
      <4>1. 1 + d \in 1..(LengthDigits + 1)
        BY JournalFieldsAssumption
      <4> QED
        BY <1>1, <4>1, Zenon
    <3>2. i + Len(u) + (1 + d) - 1 = (nl + 1) + d - 1
      BY <1>0
    <3>3. body[i + Len(u) + (1 + d) - 1] = mid[1 + d]
      BY <1>2, <3>1
    <3> QED
      BY <1>1, <3>2, <3>3
  <2> DEFINE n == Len(raw)
             s == nl + 1
  <2>2. s \in Nat /\ n \in Nat /\ Quotients(n)[LengthDigits] = 0
    BY <1>0
  <2>3. \A d \in 1..LengthDigits : body[s + d - 1] = LittleEndian(n)[d]
    BY <2>1 DEF digits
  <2> HIDE DEF nl, n, s
  <2>4. LengthAt(body, s) = n
    BY <2>2, <2>3, LengthReadsBack
  <2> QED
    BY <2>4 DEF n, s
<1>9. SubSeq(body, i, nl - 1) = u
  <2>1. /\ nl - 1 \in Int /\ nl - 1 = i + Len(u) - 1 /\ nl - 1 <= Len(body)
    BY <1>0, <1>3
  <2> QED
    BY <1>0, <1>2, <2>1, PartIs
<1>10. SubSeq(body, from, to) = raw
  <2>1. to = from + Len(raw) - 1 /\ to <= Len(body)
    BY <1>0, <1>3
  <2>2. \A j \in 1..Len(raw) : body[from + j - 1] = raw[j]
    <3> TAKE j \in 1..Len(raw)
    <3>1. from + j - 1 = i + Len(u) + Len(mid) + j - 1
      <4>1. from = i + Len(u) + Len(mid) /\ Len(mid) \in Nat
        <5> DEFINE m == Len(mid)
        <5>1. m = LengthDigits + 1
          BY <1>1
        <5> HIDE DEF m
        <5>2. from = i + Len(u) + m /\ m \in Nat
          BY <1>0, <5>1
        <5> QED
          BY <5>2 DEF m
      <4> HIDE DEF from
      <4> QED
        BY <4>1
    <3> QED
      BY <1>2, <3>1
  <2> HIDE DEF from, to
  <2>3. from \in Nat \ {0} /\ to \in Int
    BY <1>3
  <2> QED
    BY <2>1, <2>2, <2>3, PartIs
<1>11. i + Len(Framed(u, mid, raw)) = to + 2
  <2>1. FramedBy(Framed(u, mid, raw), u, mid, raw)
    BY <1>0, <1>1, FramedParts
  <2>2. Len(Framed(u, mid, raw)) = Len(u) + Len(mid) + Len(raw) + 1
    BY <2>1 DEF FramedBy
  <2> DEFINE l == Len(Framed(u, mid, raw))
             m == Len(mid)
  <2>3. l = Len(u) + m + Len(raw) + 1 /\ m = LengthDigits + 1
    BY <1>1, <2>2
  <2> HIDE DEF l, m
  <2>4. i + l = to + 2
    BY <1>0, <2>3
  <2> QED
    BY <2>4 DEF l
<1>12. /\ ~(nl > Len(body)) /\ ~(from > Len(body) + 1 \/ to >= Len(body))
       /\ to = from + Len(raw) - 1 /\ from = nl + 1 + LengthDigits
  BY <1>0, <1>3
<1> HIDE DEF nl, from, to
<1>13. FieldsFrom(body, f, i) = <<<<u, raw>>>> \o f[to + 2]
  BY <1>6, <1>7, <1>8, <1>9, <1>10, <1>12 DEF FieldsFrom, Field
<1> QED
  BY <1>11, <1>13 DEF ReadsAs

\* An accepted name has none of the bytes that end it.
LEMMA NameIsPlain ==
  ASSUME NEW name \in Seq(DOMAIN UpperOf), CheckFieldName(name)
  PROVE  UpperName(name) \in Seq(Plain) /\ UpperName(name)[1] # Underscore
<1> DEFINE u == UpperName(name)
<1>1. Len(name) \in Nat /\ DOMAIN name = 1..Len(name)
  BY LenProperties
<1>2. DOMAIN u = 1..Len(name) /\ u = [j \in 1..Len(name) |-> u[j]]
  BY <1>1 DEF UpperName
<1>3. \A j \in 1..Len(name) : u[j] \in UpperLetters \cup Digits \cup {Underscore}
  <2>1. Range(u) \subseteq UpperLetters \cup Digits \cup {Underscore}
    BY DEF CheckFieldName
  <2> HIDE DEF u
  <2> QED
    BY <1>2, <2>1 DEF Range
<1>4. u[1] # Underscore
  BY DEF CheckFieldName
<1> HIDE DEF u
<1>5. \A j \in 1..Len(name) : u[j] \in Plain
  BY <1>3, JournalFieldsAssumption DEF Plain
<1>6. u \in [1..Len(name) -> Plain]
  BY <1>2, <1>5
<1>7. u \in Seq(Plain)
  BY <1>1, <1>6
<1> QED
  BY <1>4, <1>7 DEF u

\* A value is bytes in the end.
LEMMA ValueIsBytes ==
  ASSUME NEW value \in Seq(DOMAIN Utf8)
  PROVE  AsBytes(value) \in Seq(Bytes)
<1> DEFINE parts == [j \in DOMAIN value |-> Utf8[value[j]]]
<1>1. Len(value) \in Nat /\ DOMAIN value = 1..Len(value)
  BY LenProperties
<1>2. \A j \in 1..Len(value) : value[j] \in DOMAIN Utf8
  BY ElementOfSeq
<1>3. \A j \in 1..Len(value) : Utf8[value[j]] \in Seq(Bytes)
  BY <1>2, JournalFieldsAssumption
<1>4. parts \in [1..Len(value) -> Seq(Bytes)]
  BY <1>1, <1>3
<1> HIDE DEF parts
<1>5. parts \in Seq(Seq(Bytes))
  BY <1>1, <1>4
<1>6. FlattenSeq(parts) \in Seq(Bytes)
  BY <1>5, FlattenType
<1> QED
  BY <1>6 DEF AsBytes, parts

\* A field is read as it was written, in either form.
LEMMA FieldReads ==
  ASSUME NEW name \in Seq(DOMAIN UpperOf), CheckFieldName(name), NEW value \in Seq(DOMAIN Utf8),
         Quotients(Len(AsBytes(value)))[LengthDigits] = 0
  PROVE  /\ EncodeField(name, value) \in Seq(Bytes)
         /\ \A f : \A body \in Seq(Bytes), i \in Nat \ {0} :
              Agrees(body, i, EncodeField(name, value)) =>
                ReadsAs(body, i, f, UpperName(name), AsBytes(value), EncodeField(name, value))
<1> DEFINE u == UpperName(name)
           raw == AsBytes(value)
           digits == LittleEndian(Len(raw))
<1>1. /\ u \in Seq(Plain) /\ u \in Seq(Bytes) /\ raw \in Seq(Bytes) /\ Len(raw) \in Nat
      /\ Quotients(Len(raw))[LengthDigits] = 0
  <2>1. u \in Seq(Plain) /\ raw \in Seq(Bytes)
    BY NameIsPlain, ValueIsBytes
  <2>2. Plain \subseteq Bytes
    BY DEF Plain
  <2> HIDE DEF u, raw
  <2>3. u \in Seq(Bytes) /\ Len(raw) \in Nat
    BY <2>1, <2>2, SeqMonotonic, LenProperties
  <2> QED
    BY <2>1, <2>3 DEF raw
<1>2. CASE Newline \in Range(raw)
  <2> DEFINE mid == <<Newline>> \o digits
             nl == <<Newline>>
  <2>1. digits \in Seq(Bytes) /\ nl \in Seq(Bytes)
    <3>1. digits \in Seq(Bytes)
      BY <1>1, DigitsAreBytes
    <3> QED
      BY <3>1, JournalFieldsAssumption
  <2>2. EncodeField(name, value) = ((u \o nl) \o digits) \o raw \o nl
    BY <1>2 DEF EncodeField, LengthPrefix
  <2>3. mid = nl \o digits
    OBVIOUS
  <2> HIDE DEF u, raw, digits, mid, nl
  <2>4. mid \in Seq(Bytes) /\ (u \o nl) \o digits = u \o mid
    <3>1. (u \o nl) \o digits = u \o (nl \o digits)
      <4>1. u \in Seq(Bytes) /\ nl \in Seq(Bytes) /\ digits \in Seq(Bytes)
        BY <1>1, <2>1
      <4>2. Associates(u, nl, digits)
        BY <4>1, Associative
      <4> QED
        BY <4>2 DEF Associates
    <3>2. nl \o digits \in Seq(Bytes)
      BY <2>1, ConcatProperties
    <3> QED
      BY <2>3, <3>1, <3>2
  <2>5. EncodeField(name, value) = Framed(u, mid, raw)
    BY <2>2, <2>4 DEF Framed, nl
  <2>6. Framed(u, mid, raw) \in Seq(Bytes)
    BY <1>1, <2>4, FramedParts
  <2>7. mid = <<Newline>> \o LittleEndian(Len(raw))
    BY DEF mid, digits
  <2>8. ASSUME NEW body \in Seq(Bytes), NEW i \in Nat \ {0}, NEW f, Agrees(body, i, Framed(u, mid, raw))
        PROVE  ReadsAs(body, i, f, u, raw, Framed(u, mid, raw))
    BY <1>1, <2>7, <2>8, BinaryReads
  <2> QED
    BY <2>5, <2>6, <2>8 DEF u, raw
<1>3. CASE Newline \notin Range(raw)
  <2> DEFINE mid == <<Equals>>
  <2>1. EncodeField(name, value) = Framed(u, mid, raw)
    BY <1>3 DEF EncodeField, Framed
  <2>2. \A j \in 1..Len(raw) : raw[j] # Newline
    <3>1. DOMAIN raw = 1..Len(raw)
      BY <1>1, LenProperties
    <3> QED
      BY <1>3, <3>1 DEF Range
  <2>3. mid \in Seq(Bytes)
    BY JournalFieldsAssumption
  <2> HIDE DEF u, raw
  <2>4. ASSUME NEW body \in Seq(Bytes), NEW i \in Nat \ {0}, NEW f, Agrees(body, i, Framed(u, mid, raw))
        PROVE  ReadsAs(body, i, f, u, raw, Framed(u, mid, raw))
    BY <1>1, <2>2, <2>4, TextReads
  <2> HIDE DEF mid
  <2>5. Framed(u, mid, raw) \in Seq(Bytes)
    BY <1>1, <2>3, FramedParts
  <2> QED
    BY <2>1, <2>4, <2>5 DEF u, raw
<1> QED
  BY <1>2, <1>3

-----------------------------------------------------------------------------
(* Items in the order of their keys *)

\* n items that differ in their keys
Keyed(I, key, items, n) ==
  /\ n \in Nat /\ key \in [I -> Nat]
  /\ \A i \in 1..n : items[i] \in I
  /\ \A i, j \in 1..n : key[items[i]] = key[items[j]] => i = j

\* The first m items in order
Sorts(s, items, key, m) ==
  /\ \A i \in 1..m : \E k \in 1..m : s[i] = items[k]
  /\ \A k \in 1..m : \E i \in 1..m : s[i] = items[k]
  /\ \A i, j \in 1..m : i < j => key[s[i]] < key[s[j]]

\* One more is put where it belongs.
LEMMA Insert ==
  ASSUME NEW I, NEW key, NEW items, NEW n, Keyed(I, key, items, n),
         NEW m \in Nat, m + 1 <= n,
         NEW s \in [1..m -> I], Sorts(s, items, key, m)
  PROVE  \E t \in [1..(m + 1) -> I] : Sorts(t, items, key, m + 1)
<1> DEFINE x == items[m + 1]
           P == {p \in 1..(m + 1) : p = m + 1 \/ key[x] < key[s[p]]}
<1>keyed. /\ n \in Nat /\ key \in [I -> Nat] /\ \A i \in 1..n : items[i] \in I
      /\ \A i, j \in 1..n : key[items[i]] = key[items[j]] => i = j
  BY DEF Keyed
<1>0. x \in I /\ key[x] \in Nat /\ \A i \in 1..m : s[i] \in I /\ key[s[i]] \in Nat
  BY <1>keyed
<1>1. \A i \in 1..m : key[s[i]] # key[x]
  <2> SUFFICES ASSUME NEW i \in 1..m, key[s[i]] = key[x] PROVE FALSE
    OBVIOUS
  <2>1. PICK k \in 1..m : s[i] = items[k]
    BY DEF Sorts
  <2>2. k \in 1..n /\ m + 1 \in 1..n /\ k # m + 1
    BY <1>keyed
  <2> QED
    BY <1>keyed, <2>1, <2>2
<1>2. PICK p \in P : \A y \in P : p <= y
  <2>1. P \subseteq Nat /\ m + 1 \in P
    OBVIOUS
  <2> HIDE DEF P
  <2> QED
    BY <2>1, Least
<1>3. p \in 1..(m + 1)
  OBVIOUS
<1>4. ASSUME NEW i \in 1..m, i < p PROVE key[s[i]] < key[x]
  <2>1. i \in 1..(m + 1) /\ i \notin P
    BY <1>2, <1>3, <1>4
  <2>2. ~(key[x] < key[s[i]])
    BY <2>1
  <2> HIDE DEF x
  <2> QED
    BY <1>0, <1>1, <2>2
<1>5. ASSUME NEW i \in 1..m, p <= i PROVE key[x] < key[s[i]]
  <2>1. p \in 1..m /\ key[x] < key[s[p]]
    BY <1>3, <1>5
  <2>2. p = i \/ key[s[p]] < key[s[i]]
    BY <1>5, <2>1 DEF Sorts
  <2> HIDE DEF x, P
  <2> QED
    BY <1>0, <2>1, <2>2
<1> HIDE DEF P
<1> DEFINE t == [i \in 1..(m + 1) |-> IF i < p THEN s[i] ELSE IF i = p THEN x ELSE s[i - 1]]
<1>6. ASSUME NEW i \in 1..(m + 1)
      PROVE  /\ i < p => i \in 1..m /\ t[i] = s[i]
             /\ i = p => t[i] = x
             /\ i > p => i - 1 \in 1..m /\ p <= i - 1 /\ t[i] = s[i - 1]
             /\ i < p \/ i = p \/ i > p
  BY <1>3
<1> HIDE DEF t
<1>7. t \in [1..(m + 1) -> I]
  <2>1. \A i \in 1..(m + 1) : t[i] \in I
    BY <1>0, <1>6
  <2>2. t = [i \in 1..(m + 1) |-> t[i]]
    BY DEF t
  <2> QED
    BY <2>1, <2>2
<1>8. ASSUME NEW i \in 1..(m + 1) PROVE \E k \in 1..(m + 1) : t[i] = items[k]
  <2>1. CASE i = p
    <3>1. m + 1 \in 1..(m + 1) /\ t[i] = items[m + 1]
      BY <1>6, <2>1 DEF x
    <3> QED
      BY <3>1
  <2>2. CASE i # p
    <3>1. PICK j \in 1..m : t[i] = s[j]
      BY <1>6, <2>2
    <3>2. PICK k \in 1..m : s[j] = items[k]
      BY DEF Sorts
    <3>3. k \in 1..(m + 1)
      OBVIOUS
    <3> QED
      BY <3>1, <3>2, <3>3
  <2> QED
    BY <2>1, <2>2
<1>9. ASSUME NEW k \in 1..(m + 1) PROVE \E i \in 1..(m + 1) : t[i] = items[k]
  <2>1. CASE k = m + 1
    BY <1>3, <1>6, <2>1 DEF x
  <2>2. CASE k # m + 1
    <3>1. k \in 1..m
      BY <2>2
    <3>2. PICK i \in 1..m : s[i] = items[k]
      BY <3>1 DEF Sorts
    <3>3. CASE i < p
      <4>1. i \in 1..(m + 1)
        OBVIOUS
      <4> QED
        BY <1>6, <3>2, <3>3, <4>1
    <3>4. CASE ~(i < p)
      <4>1. i + 1 \in 1..(m + 1) /\ i + 1 > p /\ (i + 1) - 1 = i
        BY <1>3, <3>4
      <4>2. t[i + 1] = s[(i + 1) - 1]
        BY <1>6, <4>1
      <4> QED
        BY <3>2, <4>1, <4>2
    <3> QED
      BY <3>3, <3>4
  <2> QED
    BY <2>1, <2>2
<1>10. ASSUME NEW i \in 1..(m + 1), NEW j \in 1..(m + 1), i < j PROVE key[t[i]] < key[t[j]]
  <2>0. \A a, b \in 1..m : a < b => key[s[a]] < key[s[b]]
    BY DEF Sorts
  <2> HIDE DEF x
  <2>1. CASE j < p
    <3>1. i < p
      BY <1>3, <1>10, <2>1
    <3> QED
      BY <1>6, <1>10, <2>0, <2>1, <3>1
  <2>2. CASE j = p
    BY <1>4, <1>6, <1>10, <2>2
  <2>3. CASE j > p
    <3>1. j - 1 \in 1..m /\ p <= j - 1 /\ t[j] = s[j - 1]
      BY <1>6, <2>3
    <3>2. CASE i < p
      <4>1. i \in 1..m /\ i < j - 1 /\ t[i] = s[i]
        BY <1>3, <1>6, <3>1, <3>2
      <4> QED
        BY <2>0, <3>1, <4>1
    <3>3. CASE i = p
      BY <1>5, <1>6, <3>1, <3>3
    <3>4. CASE i > p
      <4>1. i - 1 \in 1..m /\ i - 1 < j - 1 /\ t[i] = s[i - 1]
        BY <1>6, <1>10, <3>4
      <4> QED
        BY <2>0, <3>1, <4>1
    <3> QED
      BY <1>6, <3>2, <3>3, <3>4
  <2> QED
    BY <1>6, <2>1, <2>2, <2>3
<1>11. Sorts(t, items, key, m + 1)
  BY <1>8, <1>9, <1>10 DEF Sorts
<1> QED
  BY <1>7, <1>11

\* Items that differ in their keys can be put in the order of the keys.
LEMMA InOrder ==
  ASSUME NEW I, NEW key, NEW items \in Seq(I), Keyed(I, key, items, Len(items))
  PROVE  \E s \in [DOMAIN items -> Range(items)] :
           /\ Range(s) = Range(items)
           /\ \A i, j \in DOMAIN items : i < j => key[s[i]] < key[s[j]]
<1> DEFINE n == Len(items)
           T == {m \in Nat : m <= n => \E s \in [1..m -> I] : Sorts(s, items, key, m)}
<1>keyed. Keyed(I, key, items, n)
  OBVIOUS
<1> HIDE DEF n
<1>0. /\ n \in Nat /\ DOMAIN items = 1..n /\ \A i \in 1..n : items[i] \in I
      /\ \A i, j \in 1..n : key[items[i]] = key[items[j]] => i = j
  BY <1>keyed, LenProperties DEF Keyed, n
<1>1. 0 \in T
  <2>1. [i \in 1..0 |-> items[i]] \in [1..0 -> I]
    OBVIOUS
  <2>2. Sorts([i \in 1..0 |-> items[i]], items, key, 0)
    BY DEF Sorts
  <2> QED
    BY <2>1, <2>2
<1>2. ASSUME NEW m \in Nat, m \in T PROVE m + 1 \in T
  <2> SUFFICES ASSUME m + 1 <= n PROVE \E s \in [1..(m + 1) -> I] : Sorts(s, items, key, m + 1)
    OBVIOUS
  <2>1. PICK s \in [1..m -> I] : Sorts(s, items, key, m)
    BY <1>0, <1>2
  <2> QED
    BY <1>keyed, <2>1, Insert
<1>3. n \in T
  <2> HIDE DEF T
  <2> QED
    BY <1>0, <1>1, <1>2, Induct
<1>4. PICK s \in [1..n -> I] : Sorts(s, items, key, n)
  BY <1>0, <1>3
<1>5. s \in [DOMAIN items -> Range(items)]
  <2>1. ASSUME NEW i \in 1..n PROVE s[i] \in Range(items)
    <3>1. PICK k \in 1..n : s[i] = items[k]
      BY <1>4 DEF Sorts
    <3> QED
      BY <1>0, <3>1 DEF Range
  <2> QED
    BY <1>0, <1>4, <2>1
<1>6. Range(s) = Range(items)
  <2>1. DOMAIN s = 1..n
    BY <1>4
  <2>2. ASSUME NEW item \in Range(items) PROVE item \in Range(s)
    <3>1. PICK k \in 1..n : item = items[k]
      BY <1>0 DEF Range
    <3>2. PICK i \in 1..n : s[i] = items[k]
      BY <1>4 DEF Sorts
    <3> QED
      BY <2>1, <3>1, <3>2 DEF Range
  <2>3. \A i \in 1..n : s[i] \in Range(items)
    BY <1>0, <1>5
  <2>4. \A item \in Range(s) : item \in Range(items)
    BY <2>1, <2>3 DEF Range
  <2> QED
    BY <2>2, <2>4
<1>7. \A i, j \in DOMAIN items : i < j => key[s[i]] < key[s[j]]
  BY <1>0, <1>4 DEF Sorts
<1> QED
  BY <1>5, <1>6, <1>7

-----------------------------------------------------------------------------
(* A whole entry *)

Encoded(items) == [k \in DOMAIN items |-> EncodeField(items[k][1], items[k][2])]

\* Items that pass the checks, with values no longer than a length can say
Acceptable(items) ==
  /\ items \in Seq(Seq(DOMAIN UpperOf) \X Seq(DOMAIN Utf8)) /\ items # <<>>
  /\ \A k \in DOMAIN items : /\ CheckFieldName(items[k][1])
                             /\ Quotients(Len(AsBytes(items[k][2])))[LengthDigits] = 0

\* The fields from the last to the first, each at its offset
LEMMA ItemsReadBack ==
  ASSUME NEW items, Acceptable(items)
  PROVE  ParseEntry(FlattenSeq(Encoded(items))) = Meant(items)
<1> DEFINE n == Len(items)
           encs == Encoded(items)
           body == FlattenSeq(encs)
           M == Meant(items)
<1>1. n \in Nat \ {0} /\ DOMAIN items = 1..n
  BY LenProperties, EmptySeq DEF Acceptable
<1>2. ASSUME NEW k \in 1..n
      PROVE  /\ items[k][1] \in Seq(DOMAIN UpperOf) /\ items[k][2] \in Seq(DOMAIN Utf8)
             /\ CheckFieldName(items[k][1])
             /\ Quotients(Len(AsBytes(items[k][2])))[LengthDigits] = 0
  <2>1. items[k] \in Seq(DOMAIN UpperOf) \X Seq(DOMAIN Utf8)
    BY ElementOfSeq DEF Acceptable
  <2> QED
    BY <1>1, <2>1 DEF Acceptable
<1>3. /\ encs \in Seq(Seq(Bytes)) /\ Len(encs) = n
      /\ \A k \in 1..n : encs[k] = EncodeField(items[k][1], items[k][2])
  <2>1. \A k \in 1..n : EncodeField(items[k][1], items[k][2]) \in Seq(Bytes)
    BY <1>2, FieldReads
  <2>2. encs = [k \in 1..n |-> EncodeField(items[k][1], items[k][2])]
    BY <1>1 DEF Encoded
  <2> HIDE DEF encs, n
  <2>3. encs \in [1..n -> Seq(Bytes)]
    BY <2>1, <2>2
  <2> QED
    BY <1>1, <2>2, <2>3
<1>4. /\ M \in Seq(Seq(Plain) \X Seq(Bytes)) /\ Len(M) = n
      /\ \A k \in 1..n : M[k] = <<UpperName(items[k][1]), AsBytes(items[k][2])>>
  <2>1. M = [k \in 1..n |-> <<UpperName(items[k][1]), AsBytes(items[k][2])>>]
    BY <1>1 DEF Meant
  <2>2. \A k \in 1..n : <<UpperName(items[k][1]), AsBytes(items[k][2])>> \in Seq(Plain) \X Seq(Bytes)
    BY <1>2, NameIsPlain, ValueIsBytes
  <2> HIDE DEF M, n
  <2>3. M \in [1..n -> Seq(Plain) \X Seq(Bytes)]
    BY <2>1, <2>2
  <2> QED
    BY <1>1, <2>1, <2>3
<1> HIDE DEF encs, M, n
<1>5. body \in Seq(Bytes)
  BY <1>3, FlattenType
<1>6. encs # <<>>
  BY <1>1, <1>3, EmptySeq
<1>7. PICK off \in [0..Len(encs) -> Nat] : LiesAt(off, encs, FlattenSeq(encs))
  BY <1>3, <1>6, FlattenParts
<1>8. /\ off \in [0..n -> Nat] /\ off[0] = 0 /\ off[n] = Len(body)
      /\ \A k \in 1..n :
           /\ off[k] = off[k - 1] + Len(encs[k]) /\ off[k] <= Len(body)
           /\ \A j \in 1..Len(encs[k]) : body[off[k - 1] + j] = encs[k][j]
  BY <1>3, <1>7 DEF LiesAt
<1> HIDE DEF body
<1>9. PICK f : /\ ParseEntry(body) = f[1]
               /\ \A i \in 1..(Len(body) + 1) : f[i] = FieldsFrom(body, f, i)
  BY <1>5, ParserUnfolds
<1>10. Len(body) \in Nat
  BY <1>5, LenProperties
<1> DEFINE T == {d \in Nat : d <= n => f[off[n - d] + 1] = SubSeq(M, (n - d) + 1, n)}
<1>11. 0 \in T
  <2> DEFINE i == Len(body) + 1
  <2>1. f[i] = FieldsFrom(body, f, i)
    BY <1>9, <1>10
  <2>2. FirstAt(body, Newline, i) \in i..(Len(body) + 1)
    BY <1>10, FirstAtSound
  <2>3. FirstAt(body, Newline, i) > Len(body)
    BY <1>10, <2>2
  <2>4. FieldsFrom(body, f, i) = <<>>
    BY <2>3 DEF FieldsFrom
  <2>5. SubSeq(M, n + 1, n) = <<>>
    BY <1>1, SubSeqEmpty
  <2>6. n - 0 = n /\ 0 \in Nat
    BY <1>1
  <2> QED
    BY <1>8, <2>1, <2>4, <2>5, <2>6
<1>12. ASSUME NEW k \in 1..n PROVE f[off[k - 1] + 1] = <<M[k]>> \o f[off[k] + 1]
  <2> DEFINE i == off[k - 1] + 1
             enc == encs[k]
  <2>1. /\ off[k - 1] \in Nat /\ off[k] \in Nat
        /\ off[k] = off[k - 1] + Len(enc) /\ off[k] <= Len(body)
        /\ \A j \in 1..Len(enc) : body[off[k - 1] + j] = enc[j]
    <3>1. k - 1 \in 0..n /\ k \in 0..n
      BY <1>1
    <3> QED
      BY <1>8, <3>1
  <2>2. enc \in Seq(Bytes) /\ Len(enc) \in Nat
    <3>1. encs[k] \in Seq(Bytes)
      BY <1>3, ElementOfSeq
    <3> QED
      BY <3>1, LenProperties
  <2>3. i \in 1..(Len(body) + 1) /\ i \in Nat \ {0} /\ i + Len(enc) = off[k] + 1
    <3> HIDE DEF enc
    <3> QED
      BY <1>10, <2>1, <2>2
  <2>4. Agrees(body, i, enc)
    <3>1. \A j \in 1..Len(enc) : i + j - 1 = off[k - 1] + j
      BY <2>1, <2>2
    <3>2. i + Len(enc) - 1 = off[k]
      <4> HIDE DEF enc
      <4> QED
        BY <2>1, <2>2
    <3> HIDE DEF i, enc
    <3> QED
      BY <2>1, <3>1, <3>2 DEF Agrees
  <2>5. ReadsAs(body, i, f, UpperName(items[k][1]), AsBytes(items[k][2]), enc)
    <3> HIDE DEF i
    <3>1. Agrees(body, i, EncodeField(items[k][1], items[k][2]))
      BY <1>3, <2>4
    <3>2. ReadsAs(body, i, f, UpperName(items[k][1]), AsBytes(items[k][2]),
                  EncodeField(items[k][1], items[k][2]))
      BY <1>2, <1>5, <2>3, <3>1, FieldReads
    <3> QED
      BY <1>3, <3>2
  <2>6. f[i] = FieldsFrom(body, f, i)
    BY <1>9, <2>3
  <2>7. FieldsFrom(body, f, i) = <<M[k]>> \o f[i + Len(enc)]
    BY <1>4, <2>5 DEF ReadsAs
  <2> QED
    BY <2>3, <2>6, <2>7
<1>13. ASSUME NEW d \in Nat, d \in T PROVE d + 1 \in T
  <2> SUFFICES ASSUME d + 1 <= n
               PROVE  f[off[n - (d + 1)] + 1] = SubSeq(M, (n - (d + 1)) + 1, n)
    OBVIOUS
  <2> DEFINE k == n - d
  <2>1. k \in 1..n /\ n - (d + 1) = k - 1 /\ (k - 1) + 1 = k
    BY <1>1
  <2>2. f[off[k] + 1] = SubSeq(M, k + 1, n)
    BY <1>1, <1>13
  <2> HIDE DEF k
  <2>3. SubSeq(M, k, n) = <<M[k]>> \o SubSeq(M, k + 1, n)
    <3>1. k \in 1..Len(M) /\ n \in k..Len(M)
      BY <1>1, <1>4, <2>1
    <3> QED
      BY <1>4, <3>1, SubSeqRecursiveFirst
  <2>4. f[off[k - 1] + 1] = <<M[k]>> \o f[off[k] + 1]
    BY <1>12, <2>1
  <2> QED
    BY <2>1, <2>2, <2>3, <2>4
<1>14. n \in T
  <2> HIDE DEF T
  <2> QED
    BY <1>1, <1>11, <1>13, Induct
<1>15. n - n = 0 /\ 0 + 1 = 1
  BY <1>1
<1>16. f[1] = SubSeq(M, 1, n)
  BY <1>1, <1>8, <1>14, <1>15
<1>17. SubSeq(M, 1, n) = M
  BY <1>4, SubSeqFull
<1> QED
  BY <1>9, <1>16, <1>17 DEF body, encs, M

\* sorted() has the items of the mapping, whatever order that keeps them in.
LEMMA ItemsSound ==
  ASSUME NEW e \in Entries
  PROVE  /\ ItemsOf(e) \in Seq(Seq(DOMAIN UpperOf) \X Seq(DOMAIN Utf8))
         /\ \A i \in DOMAIN ItemsOf(e) : Quotients(Len(AsBytes(ItemsOf(e)[i][2])))[LengthDigits] = 0
         /\ DOMAIN ItemsOf(e) = DOMAIN e.items /\ Range(ItemsOf(e)) = Range(e.items)
<1> DEFINE Pair == Seq(DOMAIN UpperOf) \X Seq(DOMAIN Utf8)
           Named == {item \in Pair : item[1] \in DOMAIN NameRank}
           key == [item \in Named |-> NameRank[item[1]]]
           items == e.items
<1>1. /\ e.mapping \in BOOLEAN /\ items \in Seq(Pair)
      /\ \A i \in DOMAIN items : Quotients(Len(AsBytes(items[i][2])))[LengthDigits] = 0
      /\ e.mapping =>
           /\ \A i \in DOMAIN items : items[i][1] \in DOMAIN NameRank
           /\ \A i, j \in DOMAIN items : items[i][1] = items[j][1] => i = j
  BY CodecAssumption
<1>2. Len(items) \in Nat /\ DOMAIN items = 1..Len(items) /\ \A i \in DOMAIN items : items[i] \in Pair
  BY <1>1, LenProperties, ElementOfSeq
<1>3. CASE ~e.mapping
  BY <1>1, <1>3 DEF ItemsOf
<1>4. CASE e.mapping
  <2>1. \A i \in DOMAIN items : items[i] \in Named
    BY <1>1, <1>2, <1>4
  <2>2. items \in Seq(Named)
    <3>1. items = [i \in 1..Len(items) |-> items[i]]
      BY <1>1, <1>2
    <3> HIDE DEF Named, items
    <3>2. items \in [1..Len(items) -> Named]
      BY <1>2, <2>1, <3>1
    <3> QED
      BY <1>2, <3>2
  <2>3. key \in [Named -> Nat] /\ \A item \in Named : key[item] = NameRank[item[1]]
    BY JournalFieldsAssumption
  <2>4. \A i, j \in DOMAIN items : key[items[i]] = key[items[j]] => i = j
    <3> SUFFICES ASSUME NEW i \in DOMAIN items, NEW j \in DOMAIN items,
                        key[items[i]] = key[items[j]]
                 PROVE  i = j
      OBVIOUS
    <3>1. NameRank[items[i][1]] = NameRank[items[j][1]]
      BY <2>1, <2>3
    <3>2. items[i][1] = items[j][1]
      BY <1>1, <1>4, <3>1, JournalFieldsAssumption
    <3> QED
      BY <1>1, <1>4, <3>2
  <2> HIDE DEF key
  <2>5. PICK s \in [DOMAIN items -> Range(items)] :
          /\ Range(s) = Range(items)
          /\ \A i, j \in DOMAIN items : i < j => key[s[i]] < key[s[j]]
    <3>1. Keyed(Named, key, items, Len(items))
      BY <1>2, <2>1, <2>3, <2>4 DEF Keyed
    <3> HIDE DEF Named, items
    <3> QED
      BY <2>2, <3>1, InOrder
  <2>6. \A i \in DOMAIN items : s[i] \in Named
    BY <2>1 DEF Range
  <2>7. \A i, j \in DOMAIN items : i < j => NameRank[s[i][1]] < NameRank[s[j][1]]
    BY <2>3, <2>5, <2>6
  <2> DEFINE t == SortedItems(items)
  <2>8. t \in [DOMAIN items -> Range(items)] /\ Range(t) = Range(items)
    BY <2>5, <2>7 DEF SortedItems
  <2>9. ItemsOf(e) = t
    BY <1>4 DEF ItemsOf
  <2> HIDE DEF t, items
  <2>10. DOMAIN t = DOMAIN items
    BY <2>8
  <2>11. ASSUME NEW i \in DOMAIN t
         PROVE  /\ t[i] \in Pair
                /\ Quotients(Len(AsBytes(t[i][2])))[LengthDigits] = 0
    <3>1. PICK j \in DOMAIN items : t[i] = items[j]
      BY <2>8, <2>10 DEF Range
    <3> QED
      BY <1>1, <1>2, <3>1
  <2>12. t \in Seq(Pair)
    <3> HIDE DEF Pair
    <3>1. t \in [1..Len(items) -> Pair]
      BY <1>2, <2>8, <2>10, <2>11
    <3> QED
      BY <1>2, <3>1
  <2> QED
    BY <2>8, <2>9, <2>10, <2>11, <2>12 DEF items
<1> QED
  BY <1>1, <1>3, <1>4

\* What is meant has one field for each item.
LEMMA MeantLen ==
  ASSUME NEW I, NEW items, NEW given \in Seq(I), DOMAIN items = DOMAIN given
  PROVE  Len(Meant(items)) = Len(given)
<1>1. Len(given) \in Nat /\ DOMAIN items = 1..Len(given)
  BY LenProperties
<1>2. Meant(items) = [i \in 1..Len(given) |-> <<UpperName(items[i][1]), AsBytes(items[i][2])>>]
  BY <1>1 DEF Meant
<1> QED
  BY <1>1, <1>2

\* The same items mean the same fields.
LEMMA MeantRange ==
  ASSUME NEW a, NEW b, Range(a) = Range(b)
  PROVE  Range(Meant(a)) = Range(Meant(b))
<1> DEFINE Says(item) == <<UpperName(item[1]), AsBytes(item[2])>>
<1>1. \A c : Range(Meant(c)) = {Says(item) : item \in Range(c)}
  BY DEF Range, Meant
<1> QED
  BY <1>1

\* Any order of a mapping is sorted into one.
LEMMA OrderIsForgotten ==
  ASSUME NEW e \in Entries, e.mapping, NEW given \in Orders(e.items)
  PROVE  EncodeFields([e EXCEPT !.items = given]) = EncodeFields(e)
<1> DEFINE items == e.items
           other == [e EXCEPT !.items = given]
<1>1. PICK order \in Bijection(DOMAIN items, DOMAIN items) :
        given = [i \in DOMAIN items |-> items[order[i]]]
  BY DEF Orders
<1>2. /\ order \in [DOMAIN items -> DOMAIN items]
      /\ \A j \in DOMAIN items : \E i \in DOMAIN items : order[i] = j
  BY DEF Bijection, Injection, Surjection
<1>3. DOMAIN given = DOMAIN items
  BY <1>1
<1>4. Range(given) = Range(items)
  BY <1>1, <1>2 DEF Range
<1> HIDE DEF items
<1>5. SortedItems(given) = SortedItems(items)
  BY <1>3, <1>4 DEF SortedItems
<1>6. other.mapping /\ other.items = given
  BY CodecAssumption
<1> QED
  BY <1>5, <1>6 DEF EncodeFields, ItemsOf, items

\* The invariant: an outcome of Log is the entry encoded and taken apart.
LogOutcome ==
  /\ job = "log" => input \in Entries
  /\ job = "log" /\ outcome \notin {Pending, JournalError} =>
       /\ EncodeFields(input) # JournalError
       /\ outcome = ParseEntry(EncodeFields(input))

\* Every entry that encode_fields accepts is read by journald field by field as it
\* was given (journal.py), for entries, names, values and lengths of any size.
THEOREM EntriesReadBack == Spec => []EntryRoundTrip
<1>1. Init => LogOutcome
  BY DEF Init, LogOutcome
<1>2. LogOutcome /\ [Next]_vars => LogOutcome'
  BY DEF LogOutcome, Next, Notify, Log, Pass, Address, Ends, vars
<1>3. LogOutcome => EntryRoundTrip
  <2> SUFFICES ASSUME LogOutcome, job = "log", outcome \notin {Pending, JournalError}
               PROVE  /\ \A i \in DOMAIN outcome : outcome[i][1][1] # Underscore
                      /\ ~input.mapping => outcome = Meant(input.items)
                      /\ Len(outcome) = Len(input.items)
                      /\ Range(outcome) = Range(Meant(input.items))
                      /\ input.mapping =>
                           \A given \in Orders(input.items) :
                             EncodeFields([input EXCEPT !.items = given]) = EncodeFields(input)
    BY DEF EntryRoundTrip
  <2> DEFINE items == ItemsOf(input)
  <2>1. /\ input \in Entries /\ EncodeFields(input) # JournalError
        /\ outcome = ParseEntry(EncodeFields(input))
    BY DEF LogOutcome
  <2>2. /\ items # <<>> /\ \A i \in DOMAIN items : CheckFieldName(items[i][1])
        /\ EncodeFields(input) = FlattenSeq(Encoded(items))
    BY <2>1 DEF EncodeFields, Encoded
  <2>3. /\ items \in Seq(Seq(DOMAIN UpperOf) \X Seq(DOMAIN Utf8))
        /\ \A i \in DOMAIN items : Quotients(Len(AsBytes(items[i][2])))[LengthDigits] = 0
        /\ DOMAIN items = DOMAIN input.items /\ Range(items) = Range(input.items)
    BY <2>1, ItemsSound
  <2>4. Acceptable(items)
    BY <2>2, <2>3 DEF Acceptable
  <2> HIDE DEF items
  <2>5. outcome = Meant(items)
    BY <2>1, <2>2, <2>4, ItemsReadBack
  <2>6. ASSUME NEW i \in DOMAIN items PROVE UpperName(items[i][1])[1] # Underscore
    <3>1. items[i] \in Seq(DOMAIN UpperOf) \X Seq(DOMAIN Utf8)
      BY <2>3, LenProperties, ElementOfSeq
    <3> QED
      BY <2>2, <3>1, NameIsPlain
  <2>7. \A i \in DOMAIN outcome : outcome[i][1][1] # Underscore
    BY <2>5, <2>6 DEF Meant
  <2>8. ~input.mapping => outcome = Meant(input.items)
    BY <2>5 DEF ItemsOf, items
  <2>9. Len(outcome) = Len(input.items)
    BY <2>1, <2>3, <2>5, MeantLen, CodecAssumption
  <2>10. Range(outcome) = Range(Meant(input.items))
    BY <2>3, <2>5, MeantRange
  <2>11. ASSUME input.mapping, NEW given \in Orders(input.items)
         PROVE  EncodeFields([input EXCEPT !.items = given]) = EncodeFields(input)
    BY <2>1, <2>11, OrderIsForgotten
  <2> QED
    BY <2>7, <2>8, <2>9, <2>10, <2>11
<1> QED
  BY <1>1, <1>2, <1>3, PTL DEF Spec

(***************************************************************************)
(* Notifications                                                           *)
(***************************************************************************)

\* A set of numbers with a bound has a greatest one.
LEMMA Greatest ==
  ASSUME NEW T, NEW bound \in Nat, T \subseteq 0..bound, T # {}
  PROVE  \E x \in T : \A y \in T : y <= x
<1> DEFINE U == {u \in Nat : \A y \in T : y <= u}
<1>1. U \subseteq Nat /\ bound \in U
  OBVIOUS
<1>2. PICK x \in U : \A y \in U : x <= y
  <2> HIDE DEF U
  <2> QED
    BY <1>1, Least
<1>3. x \in T
  <2> SUFFICES ASSUME x \notin T PROVE FALSE
    OBVIOUS
  <2>1. PICK t \in T : TRUE
    OBVIOUS
  <2>2. \A y \in T : y <= x - 1
    OBVIOUS
  <2>3. x - 1 \in Nat
    BY <2>1, <2>2
  <2>4. x - 1 \in U
    BY <2>2, <2>3
  <2> QED
    BY <1>2, <2>4
<1> QED
  BY <1>2, <1>3

\* What Min and Max are
LEMMA MinMaxSound ==
  ASSUME NEW T, NEW bound \in Nat, T \subseteq 0..bound, T # {}
  PROVE  /\ Min(T) \in T /\ \A y \in T : Min(T) <= y
         /\ Max(T) \in T /\ \A y \in T : y <= Max(T)
<1>1. \E x \in T : \A y \in T : x <= y
  <2>1. T \subseteq Nat
    OBVIOUS
  <2> QED
    BY <2>1, Least
<1>2. \E x \in T : \A y \in T : y <= x
  BY Greatest
<1>3. \A x, y \in T : (x >= y) <=> (y <= x)
  OBVIOUS
<1>4. \E x \in T : \A y \in T : x >= y
  BY <1>2, <1>3
<1>5. Min(T) \in T /\ \A y \in T : Min(T) <= y
  BY <1>1 DEF Min
<1>6. Max(T) \in T /\ \A y \in T : Max(T) >= y
  BY <1>4 DEF Max
<1> QED
  BY <1>3, <1>5, <1>6

\* The lines of a text that strip leaves, and where they were
StripsFrom(stripped, text, skipped) ==
  /\ Len(stripped) + skipped <= Len(text)
  /\ \A j \in 1..Len(stripped) : stripped[j] = text[skipped + j]
  /\ \A j \in 1..Len(text) : text[j] # Blank => j - skipped \in 1..Len(stripped)

\* strip takes nothing but blank lines, and those from the ends.
LEMMA StripSound ==
  ASSUME NEW text \in Seq(Line)
  PROVE  Strip(text) \in Seq(Line) /\ \E skipped \in Nat : StripsFrom(Strip(text), text, skipped)
<1> DEFINE kept == {i \in DOMAIN text : text[i] # Blank}
           s == Strip(text)
<1>0. Len(text) \in Nat /\ DOMAIN text = 1..Len(text) /\ \A i \in 1..Len(text) : text[i] \in Line
  BY LenProperties, ElementOfSeq
<1>1. CASE kept = {}
  <2>1. s = <<>>
    BY <1>1 DEF Strip
  <2>2. \A j \in 1..Len(text) : text[j] = Blank
    BY <1>0, <1>1
  <2> HIDE DEF s
  <2>3. s \in Seq(Line) /\ Len(s) = 0
    BY <2>1, EmptySeq
  <2>4. StripsFrom(s, text, 0)
    BY <1>0, <2>2, <2>3 DEF StripsFrom
  <2> QED
    BY <2>3, <2>4 DEF s
<1>2. CASE kept # {}
  <2> DEFINE low == Min(kept)
             high == Max(kept)
  <2>1. s = SubSeq(text, low, high)
    BY <1>2 DEF Strip
  <2>2. kept \subseteq 0..Len(text) /\ kept \subseteq 1..Len(text)
    BY <1>0
  <2>3. \A j \in 1..Len(text) : text[j] # Blank => j \in kept
    BY <1>0
  <2> HIDE DEF kept
  <2>4. /\ low \in kept /\ \A y \in kept : low <= y
        /\ high \in kept /\ \A y \in kept : y <= high
    BY <1>0, <1>2, <2>2, MinMaxSound
  <2> HIDE DEF low, high, s
  <2>5. low \in 1..Len(text) /\ high \in 1..Len(text) /\ low <= high
    BY <2>2, <2>4
  <2>6. /\ s \in Seq(Line) /\ Len(s) = high - low + 1
        /\ \A j \in 1..(high - low + 1) : s[j] = text[low + j - 1]
    <3>1. \A i \in low..high : text[i] \in Line
      BY <1>0, <2>5
    <3>2. low \in Int /\ high \in Int
      BY <2>5
    <3> QED
      BY <2>1, <2>5, <3>1, <3>2, SubSeqProperties
  <2> DEFINE skipped == low - 1
  <2>7. skipped \in Nat /\ Len(s) + skipped <= Len(text)
    BY <1>0, <2>5, <2>6
  <2>8. \A j \in 1..Len(s) : s[j] = text[skipped + j]
    <3> TAKE j \in 1..Len(s)
    <3>1. low + j - 1 = skipped + j /\ j \in 1..(high - low + 1)
      BY <2>5, <2>6
    <3> QED
      BY <2>6, <3>1
  <2>9. \A j \in 1..Len(text) : text[j] # Blank => j - skipped \in 1..Len(s)
    <3> SUFFICES ASSUME NEW j \in 1..Len(text), text[j] # Blank PROVE j - skipped \in 1..Len(s)
      OBVIOUS
    <3>1. low <= j /\ j <= high
      BY <2>3, <2>4
    <3> QED
      BY <2>5, <2>6, <3>1
  <2> HIDE DEF skipped
  <2>10. StripsFrom(s, text, skipped)
    BY <2>7, <2>8, <2>9 DEF StripsFrom
  <2> QED
    BY <2>6, <2>7, <2>10 DEF s
<1> QED
  BY <1>1, <1>2

\* Where a part begins, a later one does not begin before.
LEMMA OffsetsGrow ==
  ASSUME NEW n \in Nat, NEW off \in [0..n -> Nat], \A k \in 1..n : off[k - 1] <= off[k]
  PROVE  \A a, b \in 0..n : a <= b => off[a] <= off[b]
<1> DEFINE T == {d \in Nat : \A a \in 0..n : a + d <= n => off[a] <= off[a + d]}
<1>1. 0 \in T
  <2>1. \A a \in 0..n : a + 0 = a /\ off[a] \in Nat
    OBVIOUS
  <2> QED
    BY <2>1
<1>2. ASSUME NEW d \in Nat, d \in T PROVE d + 1 \in T
  <2> SUFFICES ASSUME NEW a \in 0..n, a + (d + 1) <= n PROVE off[a] <= off[a + (d + 1)]
    OBVIOUS
  <2> DEFINE k == a + (d + 1)
  <2>1. k \in 1..n /\ k - 1 = a + d /\ k - 1 \in 0..n /\ k \in 0..n
    OBVIOUS
  <2>2. off[a] <= off[k - 1]
    BY <1>2, <2>1
  <2> HIDE DEF k
  <2>3. off[k - 1] <= off[k] /\ off[a] \in Nat /\ off[k - 1] \in Nat /\ off[k] \in Nat
    BY <2>1
  <2>4. off[a] <= off[k]
    BY <2>2, <2>3
  <2> QED
    BY <2>4 DEF k
<1>3. Nat \subseteq T
  <2> HIDE DEF T
  <2> QED
    BY <1>1, <1>2, Induct
<1> SUFFICES ASSUME NEW a \in 0..n, NEW b \in 0..n, a <= b PROVE off[a] <= off[b]
  OBVIOUS
<1>4. b - a \in Nat /\ a + (b - a) = b
  OBVIOUS
<1>5. b - a \in T
  BY <1>3, <1>4, Zenon
<1>6. off[a] <= off[a + (b - a)]
  BY <1>4, <1>5
<1> QED
  BY <1>4, <1>6

\* Where the lines are that say something
NonBlank(states) ==
  {q \in Nat \X Nat : /\ q[1] \in DOMAIN states /\ q[2] \in DOMAIN states[q[1]]
                      /\ states[q[1]][q[2]] # Blank}

\* One line before another
Before(p, q) == p[1] < q[1] \/ (p[1] = q[1] /\ p[2] < q[2])

\* Each of them has a place of its own in the message, in the same order.
Places(place, states, whole) ==
  /\ \A q \in NonBlank(states) : place[q] \in 1..Len(whole) /\ whole[place[q]] = states[q[1]][q[2]]
  /\ \A i \in 1..Len(whole) : whole[i] # Blank => \E q \in NonBlank(states) : place[q] = i
  /\ \A p, q \in NonBlank(states) : Before(p, q) => place[p] < place[q]

\* Every state without the newlines at its ends
Stripped(states) == [i \in DOMAIN states |-> Strip(states[i])]

\* The states stripped and put one after another keep the lines that say something.
LEMMA StatesPlaced ==
  ASSUME NEW states \in Seq(Seq(Line))
  PROVE  /\ FlattenSeq(Stripped(states)) \in Seq(Line)
         /\ \E place : Places(place, states, FlattenSeq(Stripped(states)))
<1> DEFINE n == Len(states)
           parts == Stripped(states)
           whole == FlattenSeq(parts)
<1>0. n \in Nat /\ DOMAIN states = 1..n /\ \A i \in 1..n : states[i] \in Seq(Line)
  BY LenProperties, ElementOfSeq
<1>1. /\ parts \in Seq(Seq(Line)) /\ Len(parts) = n
      /\ \A i \in 1..n : parts[i] = Strip(states[i])
  <2>1. parts = [i \in 1..n |-> Strip(states[i])]
    BY <1>0 DEF Stripped
  <2>2. \A i \in 1..n : Strip(states[i]) \in Seq(Line)
    BY <1>0, StripSound
  <2> HIDE DEF parts, n
  <2>3. parts \in [1..n -> Seq(Line)]
    BY <2>1, <2>2
  <2> QED
    BY <1>0, <2>1, <2>3
<1> DEFINE skipped == [i \in 1..n |-> CHOOSE m \in Nat : StripsFrom(parts[i], states[i], m)]
<1>2. ASSUME NEW i \in 1..n
      PROVE  skipped[i] \in Nat /\ StripsFrom(parts[i], states[i], skipped[i])
  <2>1. \E m \in Nat : StripsFrom(parts[i], states[i], m)
    <3>1. \E m \in Nat : StripsFrom(Strip(states[i]), states[i], m)
      BY <1>0, StripSound
    <3> HIDE DEF parts, n
    <3> QED
      BY <1>1, <3>1
  <2> HIDE DEF parts, n
  <2> QED
    BY <2>1
<1> HIDE DEF parts, n, skipped
<1>3. whole \in Seq(Line) /\ (parts = <<>> => whole = <<>>)
  BY <1>1, FlattenType
<1>4. ASSUME NEW q \in NonBlank(states)
      PROVE  /\ q[1] \in 1..n /\ q[2] \in 1..Len(states[q[1]]) /\ states[q[1]][q[2]] # Blank
             /\ q[2] - skipped[q[1]] \in 1..Len(parts[q[1]])
             /\ parts[q[1]][q[2] - skipped[q[1]]] = states[q[1]][q[2]]
  <2> DEFINE i == q[1]
             j == q[2]
             l == j - skipped[i]
  <2>1. i \in 1..n /\ j \in DOMAIN states[i] /\ states[i][j] # Blank /\ j \in Nat
    BY <1>0 DEF NonBlank
  <2> HIDE DEF i, j
  <2>2. j \in 1..Len(states[i])
    <3>1. states[i] \in Seq(Line)
      BY <1>0, <2>1
    <3> QED
      BY <2>1, <3>1, LenProperties
  <2>3. skipped[i] \in Nat /\ StripsFrom(parts[i], states[i], skipped[i])
    BY <1>2, <2>1
  <2>4. l \in 1..Len(parts[i]) /\ skipped[i] + l = j
    BY <2>1, <2>2, <2>3 DEF StripsFrom
  <2> HIDE DEF l
  <2>5. parts[i][l] = states[i][j]
    BY <2>3, <2>4 DEF StripsFrom
  <2> QED
    BY <2>1, <2>2, <2>4, <2>5 DEF i, j, l
<1>5. CASE parts = <<>>
  <2>1. n = 0 /\ Len(whole) = 0
    BY <1>1, <1>3, <1>5, EmptySeq
  <2>2. NonBlank(states) = {}
    BY <1>4, <2>1
  <2>3. \A place : Places(place, states, whole)
    <3> HIDE DEF whole
    <3> QED
      BY <2>1, <2>2 DEF Places
  <2> QED
    BY <1>3, <2>3 DEF parts
<1>6. CASE parts # <<>>
  <2>1. PICK off \in [0..Len(parts) -> Nat] : LiesAt(off, parts, whole)
    BY <1>1, <1>6, FlattenParts
  <2> HIDE DEF whole
  <2>2. /\ off \in [0..n -> Nat] /\ off[0] = 0 /\ off[n] = Len(whole)
        /\ \A k \in 1..n : /\ off[k] = off[k - 1] + Len(parts[k])
                           /\ \A l \in 1..Len(parts[k]) : whole[off[k - 1] + l] = parts[k][l]
    BY <1>1, <2>1 DEF LiesAt
  <2>3. ASSUME NEW k \in 1..n
        PROVE  /\ off[k - 1] \in Nat /\ off[k] \in Nat /\ Len(parts[k]) \in Nat
               /\ off[k - 1] <= off[k]
    <3>1. k - 1 \in 0..n /\ k \in 0..n
      BY <1>0
    <3>2. parts[k] \in Seq(Line)
      BY <1>1, ElementOfSeq
    <3>3. Len(parts[k]) \in Nat
      BY <3>2, LenProperties
    <3>4. off[k - 1] \in Nat /\ off[k] \in Nat
      BY <2>2, <3>1
    <3>5. off[k] = off[k - 1] + Len(parts[k])
      BY <2>2
    <3> QED
      BY <3>3, <3>4, <3>5
  <2>4. \A a, b \in 0..n : a <= b => off[a] <= off[b]
    <3>1. \A k \in 1..n : off[k - 1] <= off[k]
      BY <2>3
    <3> QED
      BY <1>0, <2>2, <3>1, OffsetsGrow
  <2> DEFINE place == [q \in NonBlank(states) |-> off[q[1] - 1] + (q[2] - skipped[q[1]])]
  <2>5. ASSUME NEW q \in NonBlank(states)
        PROVE  /\ place[q] \in Nat /\ off[q[1] - 1] < place[q] /\ place[q] <= off[q[1]]
               /\ place[q] = off[q[1] - 1] + (q[2] - skipped[q[1]])
               /\ whole[place[q]] = states[q[1]][q[2]]
    <3> DEFINE i == q[1]
               l == q[2] - skipped[i]
               a == off[i - 1]
               b == Len(parts[i])
    <3>1. i \in 1..n /\ l \in 1..b /\ parts[i][l] = states[i][q[2]]
      BY <1>4
    <3>2. place[q] = a + l
      OBVIOUS
    <3> HIDE DEF i, l
    <3>3. a \in Nat /\ b \in Nat /\ off[i] = a + b /\ whole[a + l] = parts[i][l]
      BY <2>2, <2>3, <3>1
    <3> HIDE DEF a, b, place
    <3>4. place[q] \in Nat /\ a < place[q] /\ place[q] <= off[i]
      BY <3>1, <3>2, <3>3
    <3> QED
      BY <3>1, <3>2, <3>3, <3>4 DEF i, l, a
  <2>6. ASSUME NEW q \in NonBlank(states)
        PROVE  place[q] \in 1..Len(whole) /\ whole[place[q]] = states[q[1]][q[2]]
    <3>1. q[1] \in 0..n /\ n \in 0..n /\ q[1] <= n /\ 0 <= q[1] - 1 /\ q[1] - 1 \in 0..n
      BY <1>0, <1>4
    <3>2. off[q[1]] <= Len(whole) /\ off[q[1]] \in Nat /\ off[q[1] - 1] \in Nat /\ Len(whole) \in Nat
      BY <2>2, <2>4, <3>1
    <3>3. /\ place[q] \in Nat /\ off[q[1] - 1] < place[q] /\ place[q] <= off[q[1]]
          /\ whole[place[q]] = states[q[1]][q[2]]
      BY <2>5
    <3> DEFINE a == off[q[1] - 1]
               b == off[q[1]]
               x == place[q]
    <3> HIDE DEF place
    <3>4. a \in Nat /\ b \in Nat /\ x \in Nat /\ a < x /\ x <= b /\ b <= Len(whole)
      BY <3>2, <3>3
    <3> HIDE DEF a, b, x
    <3>5. x \in 1..Len(whole)
      BY <3>2, <3>4
    <3> QED
      BY <3>3, <3>5 DEF x
  <2>7. ASSUME NEW i \in 1..Len(whole), whole[i] # Blank
        PROVE  \E q \in NonBlank(states) : place[q] = i
    <3> DEFINE K == {k \in 1..n : i <= off[k]}
    <3>1. n \in K
      <4>1. n # 0
        BY <1>0, <2>2
      <4> QED
        BY <1>0, <2>2, <4>1
    <3>2. PICK k \in K : \A y \in K : k <= y
      <4>1. K \subseteq Nat /\ K # {}
        BY <3>1
      <4> HIDE DEF K
      <4> QED
        BY <4>1, Least
    <3>3. k \in 1..n /\ i <= off[k]
      BY <3>2
    <3>4. off[k - 1] < i
      <4>1. CASE k = 1
        BY <2>2, <4>1
      <4>2. CASE k # 1
        <5>1. k - 1 \in 1..n /\ ~(k <= k - 1)
          BY <1>0, <3>3, <4>2
        <5>2. k - 1 \notin K
          BY <3>2, <5>1
        <5>3. ~(i <= off[k - 1])
          BY <5>1, <5>2
        <5>4. off[k - 1] \in Nat
          BY <2>3, <3>3
        <5> QED
          BY <5>3, <5>4
      <4> QED
        BY <4>1, <4>2
    <3> DEFINE l == i - off[k - 1]
               q == <<k, skipped[k] + l>>
    <3>5. l \in 1..Len(parts[k]) /\ off[k - 1] + l = i
      <4> DEFINE a == off[k - 1]
                 b == Len(parts[k])
      <4>1. a \in Nat /\ b \in Nat /\ off[k] = a + b
        BY <2>2, <2>3, <3>3
      <4>2. i \in Nat /\ i <= a + b /\ a < i
        BY <3>3, <3>4, <4>1
      <4> HIDE DEF a, b
      <4>3. i - a \in 1..b /\ a + (i - a) = i
        BY <4>1, <4>2
      <4> QED
        BY <4>3 DEF a, b
    <3> HIDE DEF l
    <3>6. whole[i] = parts[k][l] /\ skipped[k] \in Nat /\ StripsFrom(parts[k], states[k], skipped[k])
      BY <1>2, <2>2, <3>3, <3>5
    <3>7. /\ parts[k][l] = states[k][skipped[k] + l] /\ skipped[k] + l \in 1..Len(states[k])
      <4>1. states[k] \in Seq(Line)
        BY <1>0, <3>3
      <4>2. Len(states[k]) \in Nat /\ Len(parts[k]) \in Nat
        BY <2>3, <3>3, <4>1, LenProperties
      <4> DEFINE m == skipped[k]
                 b == Len(parts[k])
                 c == Len(states[k])
      <4>3. m \in Nat /\ b \in Nat /\ c \in Nat /\ b + m <= c /\ l \in 1..b
        BY <3>5, <3>6, <4>2 DEF StripsFrom
      <4>4. parts[k][l] = states[k][m + l]
        BY <3>5, <3>6 DEF StripsFrom
      <4> HIDE DEF m, b, c
      <4>5. m + l \in 1..c
        BY <4>3
      <4> QED
        BY <4>4, <4>5 DEF m, c
    <3>8. q \in NonBlank(states)
      <4>1. DOMAIN states[k] = 1..Len(states[k])
        BY <1>0, <3>3, LenProperties
      <4>2. k \in Nat /\ skipped[k] + l \in Nat /\ k \in DOMAIN states
        BY <1>0, <3>3, <3>7
      <4> QED
        BY <2>7, <3>6, <3>7, <4>1, <4>2 DEF NonBlank
    <3>9. place[q] = off[k - 1] + ((skipped[k] + l) - skipped[k])
      BY <3>8
    <3>10. place[q] = i
      BY <3>5, <3>6, <3>9
    <3> QED
      BY <3>8, <3>10
  <2>8. ASSUME NEW p \in NonBlank(states), NEW q \in NonBlank(states), Before(p, q)
        PROVE  place[p] < place[q]
    <3>1. /\ p[1] \in 1..n /\ q[1] \in 1..n /\ p[2] \in Nat /\ q[2] \in Nat
          /\ place[p] \in Nat /\ place[q] \in Nat
      <4>1. p[2] \in Nat /\ q[2] \in Nat
        BY DEF NonBlank
      <4> HIDE DEF place
      <4> QED
        BY <1>4, <2>5, <4>1
    <3>2. CASE p[1] < q[1]
      <4>1. p[1] \in 0..n /\ q[1] - 1 \in 0..n /\ p[1] <= q[1] - 1
        <5> DEFINE a == p[1]
                   b == q[1]
        <5>1. a \in 1..n /\ b \in 1..n /\ a < b
          BY <3>1, <3>2
        <5> HIDE DEF a, b
        <5>2. a \in 0..n /\ b - 1 \in 0..n /\ a <= b - 1
          BY <1>0, <5>1
        <5> QED
          BY <5>2 DEF a, b
      <4>2. off[p[1]] <= off[q[1] - 1] /\ off[p[1]] \in Nat /\ off[q[1] - 1] \in Nat
        BY <2>2, <2>4, <4>1
      <4>3. place[p] <= off[p[1]] /\ off[q[1] - 1] < place[q]
        BY <2>5
      <4> HIDE DEF place
      <4> QED
        BY <3>1, <4>2, <4>3
    <3>3. CASE p[1] = q[1] /\ p[2] < q[2]
      <4> DEFINE a == off[q[1] - 1]
                 m == skipped[q[1]]
      <4>1. place[p] = a + (p[2] - m) /\ place[q] = a + (q[2] - m)
        BY <2>5, <3>3
      <4>2. a \in Nat /\ m \in Nat
        BY <1>2, <2>3, <3>1
      <4> HIDE DEF a, m, place
      <4> QED
        BY <3>1, <3>3, <4>1, <4>2
    <3> QED
      BY <2>8, <3>2, <3>3 DEF Before
  <2> HIDE DEF place
  <2>9. Places(place, states, whole)
    BY <2>6, <2>7, <2>8 DEF Places
  <2> QED
    BY <1>3, <2>9 DEF whole, parts
<1> QED
  BY <1>5, <1>6

-----------------------------------------------------------------------------
(* Keywords in order *)

\* A keyword and its value
Item == [name : DOMAIN Upper, value : Seq(Line) \ {<<>>}]

\* No two items have one name.
IsDictionary(fields) ==
  /\ fields \in Seq(Item)
  /\ \A i, j \in DOMAIN fields : fields[i].name = fields[j].name => i = j

\* sorted() has the items of the dictionary, in the order of their names.
LEMMA SortedSound ==
  ASSUME NEW fields, IsDictionary(fields)
  PROVE  /\ Sorted(fields) \in [DOMAIN fields -> Range(fields)]
         /\ Range(Sorted(fields)) = Range(fields)
         /\ \A i, j \in DOMAIN fields : i < j => Sorted(fields)[i].name < Sorted(fields)[j].name
<1> DEFINE key == [item \in Item |-> item.name]
<1>1. key \in [Item -> Nat]
  BY PayloadAssumption DEF Item
<1>2. fields \in Seq(Item) /\ \A i \in DOMAIN fields : fields[i] \in Item
  BY LenProperties, ElementOfSeq DEF IsDictionary
<1>3. \A i, j \in DOMAIN fields : key[fields[i]] = key[fields[j]] => i = j
  BY <1>2 DEF IsDictionary
<1>4. \A item \in Item : key[item] = item.name
  OBVIOUS
<1> HIDE DEF key
<1>keyed. Keyed(Item, key, fields, Len(fields))
  BY <1>1, <1>2, <1>3, LenProperties DEF Keyed
<1>5. PICK s \in [DOMAIN fields -> Range(fields)] :
        /\ Range(s) = Range(fields)
        /\ \A i, j \in DOMAIN fields : i < j => key[s[i]] < key[s[j]]
  BY <1>2, <1>keyed, InOrder
<1>6. \A i \in DOMAIN fields : s[i] \in Item
  BY <1>2 DEF Range
<1>7. \A i, j \in DOMAIN fields : i < j => s[i].name < s[j].name
  BY <1>4, <1>5, <1>6
<1> QED
  BY <1>5, <1>7 DEF Sorted


-----------------------------------------------------------------------------
(* The message *)

\* An assignment is a line that says its keyword and its value.
LEMMA AssignmentSound ==
  ASSUME NEW item \in Item, ~HoldsNewline(item.value)
  PROVE  /\ Assignment(item) \in Line /\ Assignment(item) # Blank
         /\ Name(Assignment(item)) = Upper[item.name]
         /\ Value(Assignment(item)) = item.value[1]
<1> DEFINE w == Upper[item.name]
           v == item.value[1]
           a == <<w>> \o v
<1>1. w \in Words
  BY PayloadAssumption DEF Item
<1>2. v \in Seq(Words) /\ v # <<>>
  <2>1. item.value \in Seq(Line) /\ item.value # <<>>
    BY DEF Item
  <2>2. Len(item.value) \in Nat \ {0}
    BY <2>1, EmptySeq
  <2>3. v \in Line
    BY <2>1, <2>2, ElementOfSeq
  <2> QED
    BY <2>3 DEF Line
<1> HIDE DEF w, v
<1>3. Len(v) \in Nat \ {0}
  BY <1>2, EmptySeq
<1>4. <<w>> \in Seq(Words) /\ Len(<<w>>) = 1 /\ <<w>>[1] = w
  BY <1>1
<1>5. a \in Seq(Words) /\ Len(a) = 1 + Len(v) /\ a[1] = w
  BY <1>2, <1>3, <1>4, ConcatProperties
<1>6. Tail(a) = v
  <2>1. \A i \in 1..Len(v) : a[i + 1] = v[i]
    <3> TAKE i \in 1..Len(v)
    <3>1. i + 1 \in 1..(1 + Len(v)) /\ ~(i + 1 <= 1) /\ (i + 1) - 1 = i
      BY <1>3
    <3>2. a[i + 1] = v[(i + 1) - 1]
      BY <1>2, <1>4, <3>1, ConcatProperties
    <3> QED
      BY <3>1, <3>2
  <2> HIDE DEF a
  <2>2. a # <<>>
    BY <1>3, <1>5, EmptySeq
  <2>3. /\ Tail(a) \in Seq(Words) /\ Len(Tail(a)) = Len(a) - 1
        /\ \A i \in 1..Len(Tail(a)) : Tail(a)[i] = a[i + 1]
    BY <1>5, <2>2, HeadTailProperties
  <2>4. Len(Tail(a)) = Len(v)
    BY <1>3, <1>5, <2>3
  <2>5. \A i \in 1..Len(Tail(a)) : Tail(a)[i] = v[i]
    BY <2>1, <2>3, <2>4
  <2> QED
    BY <1>2, <2>3, <2>4, <2>5, SeqEqual
<1>7. a = Assignment(item)
  BY DEF Assignment, w, v
<1> HIDE DEF a
<1>8. a \in Line /\ Len(a) > 1
  <2>1. Len(a) > 1
    BY <1>3, <1>5
  <2>2. Len(<<>>) = 0
    OBVIOUS
  <2>3. a # <<>>
    BY <2>1, <2>2
  <2> QED
    BY <1>5, <2>1, <2>3 DEF Line
<1>9. a # Blank
  <2>1. Len(Blank) = 1
    BY DEF Blank
  <2>2. Len(a) # 1
    BY <1>3, <1>5
  <2> QED
    BY <2>1, <2>2
<1> QED
  BY <1>5, <1>6, <1>7, <1>8, <1>9 DEF Name, Value, w, v

\* First the lines of the states, then the keywords in order, and a line end.
Layout(data, flat, fields) ==
  /\ Len(flat) \in Nat /\ Len(fields) \in Nat
  /\ DOMAIN data = 1..(Len(flat) + Len(fields) + 1)
  /\ data[Len(flat) + Len(fields) + 1] = Blank
  /\ \A i \in 1..Len(flat) : data[i] = flat[i]
  /\ \A k \in 1..Len(fields) : data[Len(flat) + k] = Assignment(Sorted(fields)[k])

\* build_payload lays out the message so.
LEMMA MessageSound ==
  ASSUME NEW states \in Seq(Seq(Line)), NEW fields, IsDictionary(fields),
         \A item \in Range(fields) : ~HoldsNewline(item.value)
  PROVE  /\ Lines(states, fields) \in Seq(Line)
         /\ Append(Lines(states, fields), Blank) \in Seq(Line)
         /\ Layout(Append(Lines(states, fields), Blank), FlattenSeq(Stripped(states)), fields)
         /\ Lines(states, fields) = <<>> => FlattenSeq(Stripped(states)) = <<>> /\ fields = <<>>
<1> DEFINE flat == FlattenSeq(Stripped(states))
           n == Len(fields)
           m == Len(flat)
           asg == [k \in 1..n |-> Assignment(Sorted(fields)[k])]
           lines == flat \o asg
           data == Append(lines, Blank)
<1>1. n \in Nat /\ DOMAIN fields = 1..n /\ fields \in Seq(Item)
  BY LenProperties DEF IsDictionary
<1>2. lines = Lines(states, fields)
  BY <1>1 DEF Lines, Stripped
<1>3. flat \in Seq(Line) /\ m \in Nat
  BY StatesPlaced, LenProperties
<1>4. \A k \in 1..n : Assignment(Sorted(fields)[k]) \in Line
  <2> TAKE k \in 1..n
  <2>1. Sorted(fields)[k] \in Range(fields)
    BY <1>1, SortedSound
  <2>2. Sorted(fields)[k] \in Item
    BY <1>1, <2>1, ElementOfSeq DEF Range
  <2> QED
    BY <2>1, <2>2, AssignmentSound
<1>5. asg \in Seq(Line) /\ Len(asg) = n
  <2> HIDE DEF n
  <2>1. asg \in [1..n -> Line]
    BY <1>4
  <2> HIDE DEF asg
  <2> QED
    BY <1>1, <2>1
<1>6. \A k \in 1..n : asg[k] = Assignment(Sorted(fields)[k])
  OBVIOUS
<1> HIDE DEF asg, flat
<1>7. /\ lines \in Seq(Line) /\ Len(lines) = m + n
      /\ \A i \in 1..m : lines[i] = flat[i]
      /\ \A k \in 1..n : lines[m + k] = asg[k]
  <2> HIDE DEF n
  <2>1. lines \in Seq(Line) /\ Joins(lines, flat, asg)
    BY <1>3, <1>5, Join
  <2> QED
    BY <1>5, <2>1 DEF Joins
<1>8. lines = <<>> => flat = <<>> /\ asg = <<>>
  BY <1>3, <1>5, ConcatEqualIffEmpty
<1>9. asg = <<>> => fields = <<>>
  BY <1>1, <1>5, EmptySeq
<1>10. Blank \in Line
  <2>1. Blank \in Seq(Words) /\ Blank # <<>>
    BY PayloadAssumption DEF Blank
  <2> QED
    BY <2>1 DEF Line
<1> HIDE DEF lines
<1>11. /\ data \in Seq(Line) /\ Len(data) = Len(lines) + 1 /\ data[Len(lines) + 1] = Blank
       /\ \A i \in 1..Len(lines) : data[i] = lines[i]
  BY <1>7, <1>10, AppendProperties
<1> HIDE DEF data, n, m
<1>12. DOMAIN data = 1..(m + n + 1) /\ data[m + n + 1] = Blank
  BY <1>7, <1>11, LenProperties
<1>13. \A i \in 1..m : data[i] = flat[i]
  <2> TAKE i \in 1..m
  <2>1. i \in 1..(m + n)
    BY <1>1, <1>3
  <2> QED
    BY <1>7, <1>11, <2>1
<1>14. \A k \in 1..n : data[m + k] = Assignment(Sorted(fields)[k])
  <2> TAKE k \in 1..n
  <2>1. m + k \in 1..(m + n)
    BY <1>1, <1>3
  <2>2. data[m + k] = lines[m + k]
    BY <1>7, <1>11, <2>1
  <2> QED
    BY <1>6, <1>7, <2>2
<1>15. Layout(data, flat, fields)
  BY <1>1, <1>3, <1>12, <1>13, <1>14 DEF Layout, m, n
<1> QED
  BY <1>2, <1>7, <1>8, <1>9, <1>11, <1>15 DEF data, flat

\* What the reader finds: the lines of the states where they were placed, the keywords
\* behind them, and nothing else.
Finds(data, place, m, states, fields) ==
  /\ m \in Nat /\ DatagramLines(data) \subseteq 0..(m + Len(fields))
  /\ \A q \in NonBlank(states) :
       place[q] \in DatagramLines(data) /\ place[q] <= m /\ data[place[q]] = states[q[1]][q[2]]
  /\ \A k \in 1..Len(fields) :
       /\ m + k \in DatagramLines(data)
       /\ Name(data[m + k]) = Upper[Sorted(fields)[k].name]
       /\ Value(data[m + k]) = Sorted(fields)[k].value[1]
  /\ \A i \in DatagramLines(data) : \/ \E q \in NonBlank(states) : i = place[q]
                                    \/ \E k \in 1..Len(fields) : i = m + k
  /\ \A p, q \in NonBlank(states) : Before(p, q) => place[p] < place[q]

\* Datagram finds so much in a message that is laid out so.
LEMMA ReaderFinds ==
  ASSUME NEW states, NEW fields, IsDictionary(fields),
         \A item \in Range(fields) : ~HoldsNewline(item.value),
         NEW data, NEW flat, NEW place,
         Places(place, states, flat), Layout(data, flat, fields)
  PROVE  Finds(data, place, Len(flat), states, fields)
<1> DEFINE m == Len(flat)
           n == Len(fields)
           s == Sorted(fields)
<1>1. /\ m \in Nat /\ n \in Nat /\ DOMAIN data = 1..(m + n + 1) /\ data[m + n + 1] = Blank
      /\ \A i \in 1..m : data[i] = flat[i]
      /\ \A k \in 1..n : data[m + k] = Assignment(s[k])
  BY DEF Layout
<1>2. ASSUME NEW k \in 1..n
      PROVE  Assignment(s[k]) # Blank /\ Name(Assignment(s[k])) = Upper[s[k].name]
             /\ Value(Assignment(s[k])) = s[k].value[1]
  <2>1. fields \in Seq(Item) /\ DOMAIN fields = 1..n
    BY LenProperties DEF IsDictionary
  <2>2. s[k] \in Range(fields)
    BY <2>1, SortedSound
  <2> HIDE DEF s
  <2>3. s[k] \in Item
    BY <2>1, <2>2, ElementOfSeq DEF Range
  <2> QED
    BY <2>2, <2>3, AssignmentSound
<1> HIDE DEF m, n, s
<1>3. ASSUME NEW i \in DatagramLines(data) PROVE i \in 1..(m + n) /\ data[i] # Blank
  <2>1. i \in 1..(m + n + 1) /\ data[i] # Blank
    BY <1>1 DEF DatagramLines
  <2>2. i # m + n + 1
    BY <1>1, <2>1
  <2> QED
    BY <1>1, <2>1, <2>2
<1>4. DatagramLines(data) \subseteq 0..(m + n)
  BY <1>1, <1>3
<1>5. ASSUME NEW q \in NonBlank(states)
      PROVE  /\ place[q] \in DatagramLines(data) /\ place[q] <= m
             /\ data[place[q]] = states[q[1]][q[2]]
  <2>1. place[q] \in 1..m /\ flat[place[q]] = states[q[1]][q[2]] /\ states[q[1]][q[2]] # Blank
    BY DEF Places, NonBlank, m
  <2>2. place[q] \in 1..(m + n + 1) /\ place[q] <= m
    BY <1>1, <2>1
  <2> QED
    BY <1>1, <2>1, <2>2 DEF DatagramLines
<1>6. ASSUME NEW k \in 1..n
      PROVE  /\ m + k \in DatagramLines(data)
             /\ Name(data[m + k]) = Upper[s[k].name] /\ Value(data[m + k]) = s[k].value[1]
  <2>1. m + k \in 1..(m + n + 1)
    BY <1>1
  <2> QED
    BY <1>1, <1>2, <2>1 DEF DatagramLines
<1>7. ASSUME NEW i \in DatagramLines(data)
      PROVE  \/ \E q \in NonBlank(states) : i = place[q]
             \/ \E k \in 1..n : i = m + k
  <2>1. i \in 1..(m + n) /\ data[i] # Blank
    BY <1>3
  <2>2. CASE i <= m
    <3>1. i \in 1..m
      BY <1>1, <2>1, <2>2
    <3>2. flat[i] # Blank
      BY <1>1, <2>1, <3>1
    <3> QED
      BY <3>1, <3>2 DEF Places, m
  <2>3. CASE ~(i <= m)
    <3>1. i - m \in 1..n /\ i = m + (i - m)
      BY <1>1, <2>1, <2>3
    <3> QED
      BY <3>1
  <2> QED
    BY <2>2, <2>3
<1>8. \A p, q \in NonBlank(states) : Before(p, q) => place[p] < place[q]
  BY DEF Places
<1> QED
  BY <1>1, <1>4, <1>5, <1>6, <1>7, <1>8 DEF Finds, m, n, s

\* The lines of the states that have a name
LEMMA InStatesAre ==
  ASSUME NEW states \in Seq(Seq(Line)), NEW name
  PROVE  /\ \A q \in InStates(states, name) :
              q \in NonBlank(states) /\ Name(states[q[1]][q[2]]) = name
         /\ \A q \in NonBlank(states) :
              Name(states[q[1]][q[2]]) = name => q \in InStates(states, name)
<1>1. DOMAIN states = 1..Len(states) /\ \A i \in 1..Len(states) : states[i] \in Seq(Line)
  BY LenProperties, ElementOfSeq
<1>2. \A i \in 1..Len(states) : DOMAIN states[i] = 1..Len(states[i])
  BY <1>1, LenProperties
<1>3. ASSUME NEW q \in InStates(states, name)
      PROVE  q \in NonBlank(states) /\ Name(states[q[1]][q[2]]) = name
  <2>1. PICK i \in DOMAIN states : \E j \in DOMAIN states[i] :
          q = <<i, j>> /\ states[i][j] # Blank /\ Name(states[i][j]) = name
    BY DEF InStates
  <2>2. PICK j \in DOMAIN states[i] :
          q = <<i, j>> /\ states[i][j] # Blank /\ Name(states[i][j]) = name
    BY <2>1
  <2>3. i \in Nat /\ j \in Nat
    BY <1>1, <1>2
  <2>4. q[1] = i /\ q[2] = j /\ q \in Nat \X Nat
    BY <2>2, <2>3
  <2> QED
    BY <2>2, <2>4 DEF NonBlank
<1>4. ASSUME NEW q \in NonBlank(states), Name(states[q[1]][q[2]]) = name
      PROVE  q \in InStates(states, name)
  <2> DEFINE i == q[1]
             j == q[2]
  <2>1. /\ q = <<i, j>> /\ i \in DOMAIN states /\ j \in DOMAIN states[i]
        /\ states[i][j] # Blank /\ Name(states[i][j]) = name
    BY <1>4 DEF NonBlank
  <2> HIDE DEF i, j
  <2> QED
    BY <2>1 DEF InStates
<1> QED
  BY <1>3, <1>4

\* The keywords of a name, in order
LEMMA KeywordsAre ==
  ASSUME NEW fields, IsDictionary(fields), NEW name
  PROVE  /\ \A item \in Keywords(fields, name) :
              \E k \in 1..Len(fields) : item = Sorted(fields)[k] /\ Upper[item.name] = name
         /\ \A k \in 1..Len(fields) :
              /\ Sorted(fields)[k] \in Range(fields)
              /\ Sorted(fields)[k].name \in Nat
              /\ Upper[Sorted(fields)[k].name] = name => Sorted(fields)[k] \in Keywords(fields, name)
<1> DEFINE n == Len(fields)
           s == Sorted(fields)
<1>1. n \in Nat /\ fields \in Seq(Item) /\ DOMAIN fields = 1..n
  BY LenProperties DEF IsDictionary
<1>2. s \in [1..n -> Range(fields)] /\ Range(s) = Range(fields)
  <2>1. s \in [DOMAIN fields -> Range(fields)] /\ Range(s) = Range(fields)
    BY SortedSound
  <2> HIDE DEF s, n
  <2> QED
    BY <1>1, <2>1
<1> HIDE DEF s
<1>3. \A item \in Range(fields) : item \in Item
  BY <1>1, ElementOfSeq DEF Range
<1>4. ASSUME NEW item \in Keywords(fields, name)
      PROVE  \E k \in 1..n : item = s[k] /\ Upper[item.name] = name
  <2>1. item \in Range(s) /\ Upper[item.name] = name
    BY <1>2 DEF Keywords
  <2> HIDE DEF n
  <2>2. PICK k \in 1..n : item = s[k]
    BY <1>2, <2>1 DEF Range
  <2> QED
    BY <2>1, <2>2
<1>5. ASSUME NEW k \in 1..n
      PROVE  /\ s[k] \in Range(fields) /\ s[k].name \in Nat
             /\ Upper[s[k].name] = name => s[k] \in Keywords(fields, name)
  <2>1. s[k] \in Range(fields)
    BY <1>2
  <2>2. s[k].name \in Nat
    BY <1>3, <2>1, PayloadAssumption DEF Item
  <2> QED
    BY <2>1, <2>2 DEF Keywords
<1> QED
  BY <1>4, <1>5 DEF s

\* What the last line of a name says is what the program meant by it.
LEMMA LastMeans ==
  ASSUME NEW states \in Seq(Seq(Line)), NEW fields, IsDictionary(fields),
         NEW data, NEW place, NEW m, Finds(data, place, m, states, fields),
         NEW name, \E i \in DatagramLines(data) : Name(data[i]) = name
  PROVE  Means(states, fields, name, Value(data[LastOf(data, name)]))
<1> DEFINE n == Len(fields)
           s == Sorted(fields)
           W == {i \in DatagramLines(data) : Name(data[i]) = name}
           last == LastOf(data, name)
<1>1. n \in Nat /\ DOMAIN fields = 1..n
  BY LenProperties DEF IsDictionary
<1>2. m \in Nat /\ W \subseteq 0..(m + n) /\ W # {} /\ m + n \in Nat
  BY <1>1 DEF Finds
<1>3. last = Max(W)
  BY DEF LastOf
<1>4. \A i \in DatagramLines(data) : Name(data[i]) = name => i \in W
  OBVIOUS
<1>5. \A i \in W : i \in DatagramLines(data) /\ Name(data[i]) = name
  OBVIOUS
<1> HIDE DEF W, n, last
<1>6. last \in W /\ \A y \in W : y <= last
  BY <1>2, <1>3, MinMaxSound
<1>7. last \in Nat
  BY <1>2, <1>6
<1>8. CASE Keywords(fields, name) # {}
  <2>1. PICK a \in 1..n : Upper[s[a].name] = name
    BY <1>8, KeywordsAre DEF n
  <2> HIDE DEF s
  <2>2. ASSUME NEW k \in 1..n, Upper[s[k].name] = name PROVE m + k <= last
    <3>1. m + k \in DatagramLines(data) /\ Name(data[m + k]) = name
      BY <2>2 DEF Finds, n, s
    <3> QED
      BY <1>4, <1>6, <3>1
  <2>3. last > m
    BY <1>2, <1>7, <2>1, <2>2
  <2>4. PICK k \in 1..n : last = m + k
    <3>1. \A q \in NonBlank(states) : place[q] <= m
      BY DEF Finds
    <3>2. last \in DatagramLines(data)
      BY <1>5, <1>6
    <3>3. ~\E q \in NonBlank(states) : last = place[q]
      BY <1>2, <1>7, <2>3, <3>1
    <3> QED
      BY <3>2, <3>3 DEF Finds, n
  <2>5. Upper[s[k].name] = name /\ Value(data[last]) = s[k].value[1]
    BY <1>5, <1>6, <2>4 DEF Finds, n, s
  <2>6. s[k] \in Keywords(fields, name) /\ s[k].name \in Nat
    BY <2>5, KeywordsAre DEF n, s
  <2>7. ASSUME NEW other \in Keywords(fields, name) PROVE other.name <= s[k].name
    <3>1. PICK b \in 1..n : other = s[b] /\ Upper[s[b].name] = name
      BY KeywordsAre DEF n, s
    <3>2. s[b].name \in Nat
      BY KeywordsAre DEF n, s
    <3>3. b = k \/ b < k
      BY <1>1, <1>2, <2>2, <2>4, <3>1
    <3>4. b < k => s[b].name < s[k].name
      BY <1>1, SortedSound DEF s
    <3> QED
      BY <2>6, <3>1, <3>2, <3>3, <3>4
  <2> QED
    BY <1>8, <2>5, <2>6, <2>7 DEF Means, last
<1>9. CASE Keywords(fields, name) = {}
  <2>1. \A k \in 1..n : Upper[s[k].name] # name
    BY <1>9, KeywordsAre DEF n
  <2>2. PICK q \in NonBlank(states) : last = place[q]
    <3>1. last \in DatagramLines(data) /\ Name(data[last]) = name
      BY <1>5, <1>6
    <3>2. \A k \in 1..n : Name(data[m + k]) = Upper[s[k].name]
      BY DEF Finds, n
    <3> HIDE DEF s
    <3>3. ~\E k \in 1..n : last = m + k
      BY <2>1, <3>1, <3>2
    <3> QED
      BY <3>1, <3>3 DEF Finds, n
  <2> HIDE DEF s
  <2>3. data[last] = states[q[1]][q[2]]
    BY <2>2 DEF Finds
  <2>4. q \in InStates(states, name)
    BY <1>5, <1>6, <2>3, InStatesAre
  <2>5. ASSUME NEW p \in InStates(states, name)
        PROVE  p[1] < q[1] \/ (p[1] = q[1] /\ p[2] <= q[2])
    <3>1. p \in NonBlank(states) /\ Name(states[p[1]][p[2]]) = name
      BY InStatesAre
    <3>2. place[p] \in DatagramLines(data) /\ Name(data[place[p]]) = name
      BY <3>1 DEF Finds
    <3>3. place[p] <= place[q] /\ place[p] \in Nat /\ place[q] \in Nat
      <4>1. place[p] \in W
        BY <1>4, <3>2
      <4>2. place[p] \in 0..(m + n)
        BY <1>2, <4>1
      <4>3. place[p] <= last
        BY <1>6, <4>1
      <4> QED
        BY <1>7, <2>2, <4>2, <4>3
    <3>4. ~Before(q, p)
      <4>1. Before(q, p) => place[q] < place[p]
        BY <3>1 DEF Finds
      <4> QED
        BY <3>3, <4>1
    <3>5. p[1] \in Nat /\ p[2] \in Nat /\ q[1] \in Nat /\ q[2] \in Nat
      BY <3>1 DEF NonBlank
    <3> QED
      BY <3>4, <3>5 DEF Before
  <2>6. Value(data[last]) = Value(states[q[1]][q[2]])
    BY <2>3
  <2> QED
    BY <1>9, <2>4, <2>5, <2>6 DEF Means, last
<1> QED
  BY <1>8, <1>9

\* The reader finds the names that the program gave.
LEMMA NamesFound ==
  ASSUME NEW states \in Seq(Seq(Line)), NEW fields, IsDictionary(fields),
         NEW data, NEW place, NEW m, Finds(data, place, m, states, fields)
  PROVE  {Name(data[i]) : i \in DatagramLines(data)} = NamesIn(states, fields)
<1> DEFINE n == Len(fields)
           s == Sorted(fields)
           said == UNION {Range(states[i]) : i \in DOMAIN states}
<1>1. DOMAIN states = 1..Len(states) /\ \A i \in 1..Len(states) : states[i] \in Seq(Line)
  BY LenProperties, ElementOfSeq
<1>2. \A i \in 1..Len(states) : DOMAIN states[i] = 1..Len(states[i])
  BY <1>1, LenProperties
<1>3. ASSUME NEW q \in NonBlank(states)
      PROVE  states[q[1]][q[2]] \in said \ {Blank}
  <2>1. q[1] \in DOMAIN states /\ q[2] \in DOMAIN states[q[1]] /\ states[q[1]][q[2]] # Blank
    BY DEF NonBlank
  <2>2. states[q[1]][q[2]] \in Range(states[q[1]])
    BY <2>1 DEF Range
  <2> QED
    BY <2>1, <2>2
<1>4. ASSUME NEW line \in said \ {Blank}
      PROVE  \E q \in NonBlank(states) : line = states[q[1]][q[2]]
  <2>1. PICK i \in DOMAIN states : line \in Range(states[i])
    OBVIOUS
  <2>2. PICK j \in DOMAIN states[i] : line = states[i][j]
    BY <2>1 DEF Range
  <2>3. i \in Nat /\ j \in Nat
    BY <1>1, <1>2
  <2> DEFINE q == <<i, j>>
  <2>4. q[1] = i /\ q[2] = j /\ q \in Nat \X Nat
    BY <2>3
  <2> HIDE DEF q
  <2>5. q \in NonBlank(states)
    BY <2>2, <2>4 DEF NonBlank
  <2> QED
    BY <2>2, <2>4, <2>5
<1> HIDE DEF said
<1>5. ASSUME NEW i \in DatagramLines(data) PROVE Name(data[i]) \in NamesIn(states, fields)
  <2>1. CASE \E q \in NonBlank(states) : i = place[q]
    <3>1. PICK q \in NonBlank(states) : i = place[q]
      BY <2>1
    <3>2. data[i] \in said \ {Blank}
      BY <1>3, <3>1 DEF Finds
    <3> QED
      BY <3>2 DEF NamesIn, said
  <2>2. CASE \E k \in 1..n : i = m + k
    <3>1. PICK k \in 1..n : i = m + k
      BY <2>2
    <3>2. Name(data[i]) = Upper[s[k].name] /\ s[k] \in Range(fields)
      BY <3>1, KeywordsAre DEF Finds
    <3> HIDE DEF s
    <3> QED
      BY <3>2 DEF NamesIn
  <2> QED
    BY <2>1, <2>2 DEF Finds
<1>6. ASSUME NEW name \in NamesIn(states, fields)
      PROVE  \E i \in DatagramLines(data) : Name(data[i]) = name
  <2>1. CASE \E item \in Range(fields) : name = Upper[item.name]
    <3>1. Keywords(fields, name) # {}
      BY <2>1 DEF Keywords
    <3>2. PICK k \in 1..n : Upper[s[k].name] = name
      BY <3>1, KeywordsAre
    <3> HIDE DEF s
    <3>3. m + k \in DatagramLines(data) /\ Name(data[m + k]) = name
      BY <3>2 DEF Finds, s
    <3> QED
      BY <3>3
  <2>2. CASE \E line \in said \ {Blank} : name = Name(line)
    <3>1. PICK line \in said \ {Blank} : name = Name(line)
      BY <2>2
    <3>2. PICK q \in NonBlank(states) : line = states[q[1]][q[2]]
      BY <1>4, <3>1
    <3>3. place[q] \in DatagramLines(data) /\ data[place[q]] = line
      BY <3>2 DEF Finds
    <3> QED
      BY <3>1, <3>3
  <2> QED
    BY <2>1, <2>2 DEF NamesIn, said
<1> QED
  BY <1>5, <1>6

\* What is written to the socket for a notification that is accepted
LEMMA WhatIsWritten ==
  ASSUME NEW states \in Seq(Seq(Line)), NEW fields, IsDictionary(fields),
         BuildPayload(states, fields) # Refused
  PROVE  /\ \A item \in Range(fields) : CheckName(item.name) /\ ~HoldsNewline(item.value)
         /\ BuildPayload(states, fields) = Append(Lines(states, fields), Blank)
BY DEF BuildPayload

\* A message is read as a function, never as a refusal.
LEMMA MessageIsRead ==
  ASSUME NEW states \in Seq(Seq(Line)), NEW fields, IsDictionary(fields),
         BuildPayload(states, fields) # Refused
  PROVE  /\ DOMAIN DatagramFields(BuildPayload(states, fields)) = NamesIn(states, fields)
         /\ \A name \in NamesIn(states, fields) :
              Means(states, fields, name, DatagramFields(BuildPayload(states, fields))[name])
         /\ DatagramFields(BuildPayload(states, fields)) # Refused
<1> DEFINE data == BuildPayload(states, fields)
           flat == FlattenSeq(Stripped(states))
           m == Len(flat)
           names == {Name(data[i]) : i \in DatagramLines(data)}
           out == DatagramFields(data)
<1>1. /\ \A item \in Range(fields) : ~HoldsNewline(item.value)
      /\ data = Append(Lines(states, fields), Blank)
  BY WhatIsWritten
<1> HIDE DEF data
<1>2. data \in Seq(Line) /\ Layout(data, flat, fields)
  BY <1>1, MessageSound
<1>3. PICK place : Places(place, states, flat)
  BY StatesPlaced
<1> HIDE DEF flat
<1>4. Finds(data, place, m, states, fields)
  BY <1>1, <1>2, <1>3, ReaderFinds
<1> HIDE DEF m
<1>5. names = NamesIn(states, fields)
  BY <1>4, NamesFound
<1>6. out = [name \in names |-> Value(data[LastOf(data, name)])]
  BY DEF DatagramFields
<1>7. ASSUME NEW name \in names PROVE Means(states, fields, name, out[name])
  <2>1. \E i \in DatagramLines(data) : Name(data[i]) = name
    OBVIOUS
  <2>2. out[name] = Value(data[LastOf(data, name)])
    BY <1>6
  <2> HIDE DEF names, out
  <2> QED
    BY <1>4, <2>1, <2>2, LastMeans
<1>8. ASSUME NEW i \in DatagramLines(data)
      PROVE  Name(data[i]) \in Words /\ Value(data[i]) \in Seq(Words)
  <2>1. data[i] \in Line
    <3>1. i \in 1..Len(data)
      BY <1>2, LenProperties DEF DatagramLines
    <3> QED
      BY <1>2, <3>1, ElementOfSeq
  <2> DEFINE line == data[i]
  <2>2. line \in Seq(Words) /\ line # <<>>
    BY <2>1 DEF Line
  <2> HIDE DEF line
  <2>3. Len(line) \in Nat \ {0}
    BY <2>2, EmptySeq
  <2>4. line[1] \in Words
    BY <2>2, <2>3, ElementOfSeq
  <2>5. Tail(line) \in Seq(Words)
    BY <2>2, HeadTailProperties
  <2>6. Blank \in Seq(Words)
    BY PayloadAssumption DEF Blank
  <2> QED
    BY <2>4, <2>5, <2>6 DEF Name, Value, line
<1>9. ASSUME NEW name \in names PROVE Value(data[LastOf(data, name)]) \in Seq(Words)
  <2> DEFINE W == {i \in DatagramLines(data) : Name(data[i]) = name}
  <2>1. W # {}
    OBVIOUS
  <2>2. W \subseteq 0..Len(data) /\ Len(data) \in Nat
    <3>1. Len(data) \in Nat /\ DOMAIN data = 1..Len(data)
      BY <1>2, LenProperties
    <3> QED
      BY <3>1 DEF DatagramLines
  <2>3. Max(W) \in W
    <3> HIDE DEF W
    <3> QED
      BY <2>1, <2>2, MinMaxSound
  <2>4. LastOf(data, name) \in DatagramLines(data)
    BY <2>3 DEF LastOf
  <2> QED
    BY <1>8, <2>4
<1>10. names \subseteq Words
  BY <1>8
<1>11. out \in [names -> Seq(Words)]
  <2> HIDE DEF names
  <2> QED
    BY <1>6, <1>9
<1> HIDE DEF names, out
<1>12. out # Refused
  BY <1>10, <1>11, PayloadAssumption
<1>13. DOMAIN out = names
  BY <1>11
<1> QED
  BY <1>5, <1>7, <1>12, <1>13 DEF out, data

\* A notification is refused for a keyword, or because it says nothing.
LEMMA WhyRefused ==
  ASSUME NEW states \in Seq(Seq(Line)), NEW fields, IsDictionary(fields),
         BuildPayload(states, fields) = Refused
  PROVE  \/ NamesIn(states, fields) = {}
         \/ \E item \in Range(fields) : ~CheckName(item.name) \/ HoldsNewline(item.value)
<1> DEFINE flat == FlattenSeq(Stripped(states))
           body == Append(Lines(states, fields), Blank)
<1> SUFFICES ASSUME \A item \in Range(fields) : CheckName(item.name) /\ ~HoldsNewline(item.value)
             PROVE  NamesIn(states, fields) = {}
  OBVIOUS
<1>1. body \in Seq(Line) /\ (Lines(states, fields) = <<>> => flat = <<>> /\ fields = <<>>)
  BY MessageSound
<1>2. body # Refused
  <2>1. \A i \in 1..Len(body) : body[i] \in Seq(Words)
    BY <1>1, ElementOfSeq DEF Line
  <2>2. body \in Seq(Seq(Words))
    BY <1>1, SeqMonotonic DEF Line
  <2> QED
    BY <2>2, PayloadAssumption
<1>3. Lines(states, fields) = <<>>
  BY <1>2 DEF BuildPayload
<1>4. flat = <<>> /\ fields = <<>>
  BY <1>1, <1>3
<1>5. PICK place : Places(place, states, flat)
  BY StatesPlaced
<1> HIDE DEF flat
<1>6. NonBlank(states) = {}
  <2>1. Len(flat) = 0
    BY <1>4, EmptySeq
  <2> QED
    BY <1>5, <2>1 DEF Places
<1>7. Range(fields) = {}
  BY <1>4 DEF Range
<1>8. \A line \in UNION {Range(states[i]) : i \in DOMAIN states} : line = Blank
  <2> SUFFICES ASSUME NEW i \in DOMAIN states, NEW j \in DOMAIN states[i]
               PROVE  states[i][j] = Blank
    BY DEF Range
  <2>1. i \in Nat /\ j \in Nat
    <3>1. i \in 1..Len(states) /\ states[i] \in Seq(Line)
      BY LenProperties, ElementOfSeq
    <3>2. DOMAIN states[i] = 1..Len(states[i])
      BY <3>1, LenProperties
    <3> QED
      BY <3>1, <3>2
  <2> DEFINE q == <<i, j>>
  <2>2. q[1] = i /\ q[2] = j /\ q \in Nat \X Nat
    BY <2>1
  <2> HIDE DEF q
  <2> QED
    BY <1>6, <2>2 DEF NonBlank
<1> QED
  BY <1>7, <1>8 DEF NamesIn

\* The invariant: an outcome of Notify is what the reader made of what was written.
NotifyOutcome ==
  job = "notify" =>
    /\ input \in Notifications
    /\ outcome # Pending =>
         outcome = LET body == BuildPayload(input.states, input.fields)
                   IN  IF body = Refused THEN Refused ELSE DatagramFields(body)

\* Every notification that is not refused says to its reader what the program said
\* (build_payload and Datagram, daemon.py and testing.py), for states and keywords
\* of any number and length.
THEOREM NotificationsAreFaithful == Spec => []PayloadFaithful
<1>1. Init => NotifyOutcome
  BY DEF Init, NotifyOutcome
<1>2. NotifyOutcome /\ [Next]_vars => NotifyOutcome'
  BY DEF NotifyOutcome, Next, Notify, Log, Pass, Address, Ends, vars
<1>3. NotifyOutcome => PayloadFaithful
  <2> SUFFICES ASSUME NotifyOutcome, job = "notify", outcome # Pending PROVE PayloadFaithful
    BY DEF PayloadFaithful
  <2> DEFINE S == input.states
             F == input.fields
  <2>1. S \in Seq(Seq(Line)) /\ IsDictionary(F)
    BY CodecAssumption DEF NotifyOutcome, IsDictionary, Item
  <2>2. outcome = IF BuildPayload(S, F) = Refused THEN Refused
                  ELSE DatagramFields(BuildPayload(S, F))
    BY DEF NotifyOutcome
  <2> HIDE DEF S, F
  <2>3. CASE BuildPayload(S, F) = Refused
    <3>1. outcome = Refused
      BY <2>2, <2>3
    <3>2. \/ NamesIn(S, F) = {}
          \/ \E item \in Range(F) : ~CheckName(item.name) \/ HoldsNewline(item.value)
      BY <2>1, <2>3, WhyRefused
    <3> QED
      BY <3>1, <3>2 DEF PayloadFaithful, S, F
  <2>4. CASE BuildPayload(S, F) # Refused
    <3>1. /\ DOMAIN outcome = NamesIn(S, F) /\ outcome # Refused
          /\ \A name \in NamesIn(S, F) : Means(S, F, name, outcome[name])
      BY <2>1, <2>2, <2>4, MessageIsRead
    <3> QED
      BY <3>1 DEF PayloadFaithful, S, F
  <2> QED
    BY <2>3, <2>4
<1> QED
  BY <1>1, <1>2, <1>3, PTL DEF Spec
=============================================================================
