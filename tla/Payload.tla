------------------------------ MODULE Payload ------------------------------
(***************************************************************************)
(* The body of a notification: build_payload of daemon.py writes it, and   *)
(* Datagram of testing.py reads it the way systemd does.                   *)
(*                                                                         *)
(* A text is what its newlines make of it, a sequence of lines, and a line *)
(* what its equals signs make of it, a sequence of words.                  *)
(***************************************************************************)
EXTENDS Naturals, Sequences, FiniteSets, SequencesExt

CONSTANTS Words,       \* what may stand between two separators
          EmptyWord,   \* nothing between them
          Upper,       \* keyword names, numbered as they sort, to what upper() makes of them
          ProperNames, \* upper case names that start with a letter and go on properly
          Refused      \* the outcome of a call that raises

Line == Seq(Words) \ {<<>>}

ASSUME PayloadAssumption ==
  /\ EmptyWord \in Words
  /\ DOMAIN Upper \subseteq Nat /\ Upper \in [DOMAIN Upper -> Words]
  /\ Refused \notin Seq(Seq(Words)) /\ \A D \in SUBSET Words : Refused \notin [D -> Seq(Words)]

Blank == <<EmptyWord>>

\* state.strip("\n"); the empty sequence for a state that is nothing else.
Strip(text) ==
  LET kept == {i \in DOMAIN text : text[i] # Blank}
  IN  IF kept = {} THEN <<>> ELSE SubSeq(text, Min(kept), Max(kept))

Mutant_Sorted(fields) == fields

\* A dictionary is a sequence of items, in whatever order the runtime has it.
Sorted(fields) ==
  CHOOSE sorted \in [DOMAIN fields -> Range(fields)] :
    /\ Range(sorted) = Range(fields)
    /\ \A i, j \in DOMAIN fields : i < j => sorted[i].name < sorted[j].name

CheckName(name) == Upper[name] \in ProperNames

\* A value is a text: what _format_value makes of it.
HoldsNewline(value) == Len(value) > 1

\* "%s=%s" % (upper, value)
Assignment(item) == <<Upper[item.name]>> \o item.value[1]

Lines(states, fields) ==
  FlattenSeq([i \in DOMAIN states |-> Strip(states[i])])
    \o [i \in DOMAIN fields |-> Assignment(Sorted(fields)[i])]

BuildPayload(states, fields) ==
  IF \/ \E item \in Range(fields) : ~CheckName(item.name) \/ HoldsNewline(item.value)
     \/ Lines(states, fields) = <<>>
  THEN Refused
  ELSE Append(Lines(states, fields), Blank)

-----------------------------------------------------------------------------
\* Where the lines are that are not empty
DatagramLines(data) == {i \in DOMAIN data : data[i] # Blank}

\* line.split("=", 1), or no value at all
Name(line) == line[1]
Value(line) == IF Len(line) > 1 THEN Tail(line) ELSE Blank

\* A later line overwrites what an earlier one put under its name.
LastOf(data, name) == Max({i \in DatagramLines(data) : Name(data[i]) = name})

DatagramFields(data) ==
  [name \in {Name(data[i]) : i \in DatagramLines(data)} |-> Value(data[LastOf(data, name)])]

-----------------------------------------------------------------------------
(* What a reader has to find, said without lines and their order. *)

Keywords(fields, name) == {item \in Range(fields) : Upper[item.name] = name}

InStates(states, name) ==
  UNION {{<<i, j>> : j \in {k \in DOMAIN states[i] :
                              states[i][k] # Blank /\ Name(states[i][k]) = name}}
           : i \in DOMAIN states}

\* Keywords come after states; of two that differ in case the one that sorts
\* last counts, and of lines with one name the latest.
Means(states, fields, name, value) ==
  IF Keywords(fields, name) # {}
  THEN \E item \in Keywords(fields, name) :
         /\ \A other \in Keywords(fields, name) : other.name <= item.name
         /\ value = item.value[1]
  ELSE \E p \in InStates(states, name) :
         /\ \A q \in InStates(states, name) : q[1] < p[1] \/ (q[1] = p[1] /\ q[2] <= p[2])
         /\ value = Value(states[p[1]][p[2]])

NamesIn(states, fields) ==
  {Upper[item.name] : item \in Range(fields)}
    \cup {Name(line) : line \in (UNION {Range(states[i]) : i \in DOMAIN states}) \ {Blank}}
=============================================================================
