--------------------------- MODULE JournalFields ---------------------------
(***************************************************************************)
(* The body of a journal entry: encode_fields of journal.py writes it byte *)
(* by byte, and journald takes it apart again.                             *)
(*                                                                         *)
(* Bytes are the numbers below Base.  With a small base and few digits a   *)
(* short value has a length one digit of which is a newline or an equals   *)
(* sign, as lengths 10 and 61 have.                                        *)
(***************************************************************************)
EXTENDS Naturals, Sequences, SequencesExt

CONSTANTS Base,             \* 256
          LengthDigits,     \* digits of the length: 8
          FieldNameMax,     \* FIELD_NAME_MAX
          Newline, Equals, Underscore,  \* bytes
          Digits,           \* bytes
          UpperLetters,     \* bytes
          UpperOf,          \* the bytes names are written with, to upper case
          NameRank,         \* names of mappings, to numbers that sort as they do
          Utf8,             \* what stands in values, to its bytes
          JournalError      \* the outcome of a call that raises

Bytes == 0..Base - 1

\* What text is made of, and what stands between it
ASSUME JournalFieldsAssumption ==
  /\ Base \in Nat /\ Base > 1 /\ LengthDigits \in Nat
  /\ {Newline, Equals} \subseteq Bytes /\ Newline # Equals
  /\ {Underscore} \cup Digits \cup UpperLetters \subseteq Bytes \ {Newline, Equals}
  /\ Utf8 \in [DOMAIN Utf8 -> Seq(Bytes)]
  /\ NameRank \in [DOMAIN NameRank -> Nat]
  /\ \A m, n \in DOMAIN NameRank : NameRank[m] = NameRank[n] => m = n

\* name.upper()
UpperName(name) == [i \in DOMAIN name |-> UpperOf[name[i]]]

CheckFieldName(name) ==
  /\ Len(name) \in 1..FieldNameMax
  /\ UpperName(name)[1] \notin {Underscore} \cup Digits
  /\ Range(UpperName(name)) \subseteq UpperLetters \cup Digits \cup {Underscore}

AsBytes(value) == FlattenSeq([i \in DOMAIN value |-> Utf8[value[i]]])

\* What is left of a number when so many digits are taken off
Quotients(n) ==
  LET left[d \in 0..LengthDigits] == IF d = 0 THEN n ELSE left[d - 1] \div Base
  IN  left

LittleEndian(n) == [d \in 1..LengthDigits |-> Quotients(n)[d - 1] % Base]

Mutant_LengthPrefix(value) == LittleEndian(Len(value))

\* struct.pack("<Q", len(raw))
LengthPrefix(value) == LittleEndian(Len(AsBytes(value)))

EncodeField(name, value) ==
  IF Newline \in Range(AsBytes(value))
  THEN UpperName(name) \o <<Newline>> \o LengthPrefix(value) \o AsBytes(value) \o <<Newline>>
  ELSE UpperName(name) \o <<Equals>> \o AsBytes(value) \o <<Newline>>

\* sorted(fields.keys()), each with its value
SortedItems(items) ==
  CHOOSE sorted \in [DOMAIN items -> Range(items)] :
    /\ Range(sorted) = Range(items)
    /\ \A i, j \in DOMAIN items : i < j => NameRank[sorted[i][1]] < NameRank[sorted[j][1]]

\* A mapping has its items in whatever order the runtime keeps them.
ItemsOf(fields) == IF fields.mapping THEN SortedItems(fields.items) ELSE fields.items

EncodeFields(fields) ==
  LET items == ItemsOf(fields)
  IN  IF items = <<>> \/ \E i \in DOMAIN items : ~CheckFieldName(items[i][1])
      THEN JournalError
      ELSE FlattenSeq([i \in DOMAIN items |-> EncodeField(items[i][1], items[i][2])])

-----------------------------------------------------------------------------
(* journald reading an entry *)

FirstAt(body, byte, i) ==
  CHOOSE j \in i..Len(body) + 1 :
    /\ j = Len(body) + 1 \/ body[j] = byte
    /\ \A k \in i..j - 1 : body[k] # byte

LengthAt(body, i) ==
  LET read[d \in 0..LengthDigits] ==
        IF d = 0 THEN 0 ELSE read[d - 1] * Base + body[i + LengthDigits - d]
  IN  read[LengthDigits]

Field(body, i, e, from, to) == <<SubSeq(body, i, e - 1), SubSeq(body, from, to)>>

\* The fields from each offset on.  A field is text when an equals sign comes
\* before the newline, and it ends the entry when the body stops too early.
ParseEntry(body) ==
  LET fields[i \in 1..Len(body) + 1] ==
        LET nl == FirstAt(body, Newline, i)
            eq == FirstAt(body, Equals, i)
            from == nl + 1 + LengthDigits
            to == from + LengthAt(body, nl + 1) - 1
        IN  IF nl > Len(body) THEN <<>>
            ELSE IF eq < nl
            THEN <<Field(body, i, eq, eq + 1, nl - 1)>> \o fields[nl + 1]
            ELSE IF from > Len(body) + 1 \/ to >= Len(body) THEN <<>>
            ELSE <<Field(body, i, nl, from, to)>> \o fields[to + 2]
  IN  fields[1]

\* What the program meant
Meant(items) == [i \in DOMAIN items |-> <<UpperName(items[i][1]), AsBytes(items[i][2])>>]
=============================================================================
