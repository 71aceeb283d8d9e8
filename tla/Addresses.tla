----------------------------- MODULE Addresses -----------------------------
(***************************************************************************)
(* Socket addresses: encode_unix_address and describe of _address.py, the  *)
(* buffer _sockaddr_un of _impl_mp.py makes of the result, and the socket  *)
(* the kernel takes it to name.  An address is a sequence of bytes.        *)
(***************************************************************************)
EXTENDS Naturals, Sequences

CONSTANTS SunPathSize,     \* SUN_PATH_SIZE
          At, Nul, Slash,  \* bytes: "@", 0 and "/"
          AddressError     \* the outcome of a call that raises

ASSUME AddressesAssumption ==
  /\ SunPathSize \in Nat
  /\ {At, Nul, Slash} \subseteq 0..255 /\ At # Nul /\ Nul # Slash /\ At # Slash

Mutant_Limit(raw) == SunPathSize

\* A path needs room for the NUL that ends it.
Limit(raw) == IF raw[1] = Nul THEN SunPathSize ELSE SunPathSize - 1

WithNul(address) == IF address[1] = At THEN <<Nul>> \o Tail(address) ELSE address

EncodeUnixAddress(address) ==
  IF \/ address = <<>>
     \/ WithNul(address)[1] \notin {Nul, Slash}
     \/ Len(address) > Limit(WithNul(address))
  THEN AddressError
  ELSE WithNul(address)

IsAbstract(sunpath) == sunpath[1] = Nul

Describe(sunpath) == IF IsAbstract(sunpath) THEN <<At>> \o Tail(sunpath) ELSE sunpath

\* The buffer ends in a NUL that the length leaves out.
SockaddrUn(sunpath) == [name |-> Append(sunpath, Nul), len |-> Len(sunpath)]

-----------------------------------------------------------------------------
(* The kernel, unix(7) *)

\* The bytes before the first NUL
CString(bytes) ==
  LET n == CHOOSE n \in 0..Len(bytes) :
             /\ \A i \in 1..n : bytes[i] # Nul
             /\ n < Len(bytes) => bytes[n + 1] = Nul
  IN  SubSeq(bytes, 1, n)

\* An abstract name is all the bytes the length covers, a path ends at a NUL.
KernelSocket(addr) ==
  IF addr.name[1] = Nul THEN [abstract |-> TRUE, name |-> SubSeq(addr.name, 2, addr.len)]
  ELSE [abstract |-> FALSE, name |-> CString(addr.name)]
=============================================================================
