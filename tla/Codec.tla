------------------------------- MODULE Codec -------------------------------
(***************************************************************************)
(* What one side writes, and what the other makes of it: notifications,    *)
(* journal entries, descriptors in messages and socket addresses.          *)
(*                                                                         *)
(* Each behaviour takes one input to its outcome.                          *)
(***************************************************************************)
EXTENDS Payload, JournalFields, ControlMessage, Addresses

CONSTANTS Notifications,  \* records [states, fields]
          Entries,        \* records [mapping, items]: a mapping or not, items <<name, value>>
          Passings,       \* records [word, sent, room]: descriptors sent, and asked for
          AddressStrings, \* addresses
          Pending         \* no outcome yet

\* The fields of a notification are a dictionary, and so is an entry that is a
\* mapping; a value is never longer than its length can say.
ASSUME CodecAssumption ==
  /\ \A n \in Notifications :
       /\ n.states \in Seq(Seq(Line))
       /\ n.fields \in Seq([name : DOMAIN Upper, value : Seq(Line) \ {<<>>}])
       /\ \A i, j \in DOMAIN n.fields : n.fields[i].name = n.fields[j].name => i = j
  /\ \A e \in Entries :
       /\ e \in [mapping : BOOLEAN, items : Seq(Seq(DOMAIN UpperOf) \X Seq(DOMAIN Utf8))]
       /\ \A i \in DOMAIN e.items : Quotients(Len(AsBytes(e.items[i][2])))[LengthDigits] = 0
       /\ e.mapping =>
            /\ \A i \in DOMAIN e.items : e.items[i][1] \in DOMAIN NameRank
            /\ \A i, j \in DOMAIN e.items : e.items[i][1] = e.items[j][1] => i = j
  /\ \A p \in Passings : p.word \in {4, 8} /\ p.sent \in Nat \ {0} /\ p.room \in Nat \ {0}
  /\ \A a \in AddressStrings :
       /\ a \in Seq(0..255)
       /\ a # <<>> => (a[1] = Slash => \A i \in DOMAIN a : a[i] # Nul)

VARIABLES
  job,      \* what is done: "notify", "log", "pass" or "address"
  input,    \* the argument
  outcome   \* what came out at the other end, or Pending

vars == <<job, input, outcome>>

Init ==
  /\ \/ job = "notify" /\ input \in Notifications
     \/ job = "log" /\ input \in Entries
     \/ job = "pass" /\ input \in Passings
     \/ job = "address" /\ input \in AddressStrings
  /\ outcome = Pending

Ends == outcome = Pending /\ UNCHANGED <<job, input>>

Notify ==
  /\ job = "notify" /\ Ends
  /\ outcome' = LET body == BuildPayload(input.states, input.fields)
                IN  IF body = Refused THEN Refused ELSE DatagramFields(body)

Log ==
  /\ job = "log" /\ Ends
  /\ outcome' = LET body == EncodeFields(input)
                IN  IF body = JournalError THEN JournalError ELSE ParseEntry(body)

\* send_with_fds, and recv in a process that can open only so many.
Pass ==
  /\ job = "pass" /\ Ends
  /\ LET size == ControlSize(input.word, input.room)
         most == Smaller(input.sent, KernelRoom(input.word, size))
     IN  IF TooMany(input.sent)
         THEN outcome' = ValueError
         ELSE \E n \in 0..most :
                outcome' =
                  [installed |-> n,
                   most      |-> most,
                   returned  |-> ParseScmRights(input.word, KernelRights(n),
                                                KernelLen(input.word, n),
                                                KernelControlLen(input.word, size, n))]

Address ==
  /\ job = "address" /\ Ends
  /\ outcome' = EncodeUnixAddress(input)

Next == Notify \/ Log \/ Pass \/ Address

Spec == Init /\ [][Next]_vars

-----------------------------------------------------------------------------
(* Properties *)

\* build_payload and Datagram.fields (daemon.py, testing.py): a notification that
\* is not refused says to its reader what the program said, name by name, in
\* whatever order the runtime keeps a dictionary; nothing in a value makes another
\* assignment; and it is refused only when it cannot be said.
PayloadFaithful ==
  job = "notify" /\ outcome # Pending =>
    IF outcome = Refused
    THEN \/ NamesIn(input.states, input.fields) = {}
         \/ \E item \in Range(input.fields) : ~CheckName(item.name) \/ HoldsNewline(item.value)
    ELSE /\ DOMAIN outcome = NamesIn(input.states, input.fields)
         /\ \A name \in DOMAIN outcome :
              Means(input.states, input.fields, name, outcome[name])

\* The orders a runtime may keep the items of a mapping in
Orders(items) ==
  {[i \in DOMAIN items |-> items[order[i]]] : order \in Bijection(DOMAIN items, DOMAIN items)}

\* journal.py:5-8, 99-100: whatever a value holds, journald finds the fields of the
\* entry as they were given, no other and no more, under names it accepts; and what
\* a mapping is made into does not depend on the order it has.
EntryRoundTrip ==
  job = "log" /\ outcome \notin {Pending, JournalError} =>
    /\ \A i \in DOMAIN outcome : outcome[i][1][1] # Underscore
    /\ ~input.mapping => outcome = Meant(input.items)
    /\ input.mapping =>
         /\ Len(outcome) = Len(input.items)
         /\ Range(outcome) = Range(Meant(input.items))
         /\ \A items \in Orders(input.items) :
              EncodeFields([input EXCEPT !.items = items]) = EncodeFields(input)

\* _scm_rights, recv and _parse_scm_rights (_impl_mp.py): what is not refused the
\* kernel takes, and finds in the sender's buffer the descriptors that were put
\* there; the receiver's has room for as many as it asked for; and however many
\* the kernel installed, recv returns those, so that none is open without an
\* owner, and reads nothing else.
RightsArrive ==
  job = "pass" /\ outcome \notin {Pending, ValueError} =>
    /\ KernelAccepts(input.word, CmsgLen(input.word, input.sent),
                     ControlSize(input.word, input.sent))
    /\ KernelReads(input.word, CmsgLen(input.word, input.sent)) = input.sent
    /\ ScmRights(input.word, input.sent) = Offsets(KernelHdr(input.word), input.sent)
    /\ Smaller(input.sent, input.room) <= outcome.most
    /\ outcome.returned = Offsets(KernelHdr(input.word), outcome.installed)
    /\ \A o \in outcome.returned : o + IntSize <= ControlSize(input.word, input.room)

\* The socket an address is meant to name
MeantSocket(address) ==
  IF address[1] = Slash THEN [abstract |-> FALSE, name |-> address]
  ELSE [abstract |-> TRUE, name |-> Tail(address)]

\* _address.py:1-8: an accepted address fits into sun_path, a path with the NUL
\* that ends it; the kernel takes it for the socket that was meant, so that no two
\* addresses meet on one socket; and describe gives it back.  A path holds no NUL.
AddressReachesItsSocket ==
  job = "address" /\ outcome \notin {Pending, AddressError} =>
    /\ Len(outcome) <= SunPathSize
    /\ ~IsAbstract(outcome) =>
         Len(SockaddrUn(outcome).name) <= SunPathSize
    /\ KernelSocket(SockaddrUn(outcome)) = MeantSocket(input)
    /\ EncodeUnixAddress(Describe(outcome)) = outcome
=============================================================================
