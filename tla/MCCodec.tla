------------------------------ MODULE MCCodec ------------------------------
(* Codec on small inputs of each kind.                                     *)
EXTENDS Codec, TLC

CONSTANTS none, ready, status, other, improper, x, lf, acute

\* Two keywords that differ in case, another, and one that is refused.
MCUpper == <<ready, ready, status, improper>>
MCProperNames == {ready, status, other}

\* "READY=x", "READY", "\n\n", "STATUS=x=x\n\nREADY=", "\nOTHER=x\nREADY=x\n"
MCStates == {
  <<<<ready, x>>>>, <<<<ready>>>>, <<Blank, Blank, Blank>>,
  <<<<status, x, x>>, Blank, <<ready, none>>>>,
  <<Blank, <<other, x>>, <<ready, x>>, Blank>>}

\* "", "x", "x=READY" and "x\nREADY=x"
MCValues == {<<Blank>>, <<<<x>>>>, <<<<x, ready>>>>, <<<<x>>, <<ready, x>>>>}

Dictionaries ==
  {f \in UNION {[1..n -> [name : DOMAIN MCUpper, value : MCValues]] : n \in 0..2} :
     \A i, j \in DOMAIN f : f[i].name = f[j].name => i = j}

MCNotifications ==
  [states : UNION {[1..n -> MCStates] : n \in 0..2}, fields : Dictionaries]

\* Bytes: 0 and 1 are an upper and a lower case letter, 2 the newline, 3 the
\* equals sign, 4 a digit, 5 the underscore, 6 and 7 stand in values.
MCUpperOf == [b \in 0..7 |-> IF b = 1 THEN 0 ELSE b]
MCUtf8 == lf :> <<2>> @@ x :> <<3>> @@ acute :> <<6, 7>>

MCFieldNames == {<<>>, <<0>>, <<1>>, <<1, 4>>, <<0, 5>>, <<5>>, <<4, 0>>, <<0, 3>>, <<2>>, <<0, 0, 0>>}

SortsBefore(m, n) ==
  \/ m # n /\ IsPrefix(m, n)
  \/ \E i \in DOMAIN m \cap DOMAIN n : SubSeq(m, 1, i - 1) = SubSeq(n, 1, i - 1) /\ m[i] < n[i]

MCNameRank == [n \in MCFieldNames |-> Cardinality({m \in MCFieldNames : SortsBefore(m, n)})]

Items(n) == MCFieldNames \X UNION {[1..k -> {lf, x, acute}] : k \in 0..n}

ItemLists == {<<>>} \cup {<<i>> : i \in Items(5)} \cup {<<i, j>> : i, j \in Items(2)}

Mappings ==
  {s \in UNION {[1..n -> Items(IF n = 3 THEN 0 ELSE 1)] : n \in 0..3} :
     \A i, j \in DOMAIN s : s[i][1] = s[j][1] => i = j}

MCEntries == [mapping : {FALSE}, items : ItemLists] \cup [mapping : {TRUE}, items : Mappings]

\* Few descriptors, and as many as fit into a message, give or take one.
MCPassings == [word : {4, 8}, sent : 1..6, room : 1..6]
                \cup [word : {8}, sent : 252..254, room : {252, 253}]

MCAddressStrings ==
  {a \in UNION {[1..n -> {64, 0, 47, 120}] : n \in 0..5} :
     a # <<>> => (a[1] = 47 => \A i \in DOMAIN a : a[i] # 0)}
=============================================================================
