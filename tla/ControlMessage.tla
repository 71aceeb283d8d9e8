--------------------------- MODULE ControlMessage ---------------------------
(***************************************************************************)
(* Descriptors in a message on MicroPython: the control buffer that        *)
(* _scm_rights of _impl_mp.py lays out byte by byte, what the kernel reads *)
(* in it and writes to the receiver's, and what _parse_scm_rights takes    *)
(* out.  On CPython the socket module does all of this.                    *)
(*                                                                         *)
(* word is the size of a native word: 8 or 4.  A descriptor is known by    *)
(* the offset it lies at.                                                  *)
(***************************************************************************)
EXTENDS Integers

CONSTANT ValueError  \* the outcome of a call that is refused

IntSize == 4

MaxFdsPerMessage == 253

\* send_with_fds raises ValueError.
TooMany(n) == n > MaxFdsPerMessage

\* (size + WORD - 1) & ~(WORD - 1)
CmsgAlign(word, size) == ((size + word - 1) \div word) * word

CmsgHdrSize(word) == CmsgAlign(word, word + 2 * IntSize)

\* What _scm_rights allocates, and recv for up to n descriptors.
ControlSize(word, n) == CmsgHdrSize(word) + CmsgAlign(word, IntSize * n)

\* cmsg_len as _scm_rights sets it
CmsgLen(word, n) == CmsgHdrSize(word) + IntSize * n

Offsets(start, n) == {start + IntSize * k : k \in 0..n - 1}

\* The offsets at which _scm_rights puts n descriptors.
ScmRights(word, n) == Offsets(CmsgHdrSize(word), n)

Smaller(a, b) == IF a <= b THEN a ELSE b

Mutant_ScmCount(word, cmsglen, controllen) == (controllen - CmsgHdrSize(word)) \div IntSize

ScmCount(word, cmsglen, controllen) ==
  (Smaller(cmsglen, controllen) - CmsgHdrSize(word)) \div IntSize

\* The offsets _parse_scm_rights reads descriptors at.  rights says that level and
\* type of the message are those of descriptors.
ParseScmRights(word, rights, cmsglen, controllen) ==
  IF \/ controllen < CmsgHdrSize(word)
     \/ ~rights
     \/ ScmCount(word, cmsglen, controllen) <= 0
  THEN {}
  ELSE Offsets(CmsgHdrSize(word), ScmCount(word, cmsglen, controllen))

-----------------------------------------------------------------------------
(* The kernel, unix(7) and cmsg(3) *)

\* CMSG_LEN(0) of the two ABIs
KernelHdr(word) == IF word = 8 THEN 16 ELSE 12

\* CMSG_SPACE of n descriptors
KernelSpace(word, n) == KernelHdr(word) + CmsgAlign(word, IntSize * n)

\* SCM_MAX_FD
KernelMaxFds == 253

\* The descriptors that it finds in a message of this length
KernelReads(word, cmsglen) == (cmsglen - KernelHdr(word)) \div IntSize

\* sendmsg takes a message only whose length fits into its buffer, and only so many
\* descriptors.
KernelAccepts(word, cmsglen, size) ==
  /\ KernelHdr(word) <= cmsglen /\ cmsglen <= size
  /\ KernelReads(word, cmsglen) <= KernelMaxFds

\* recvmsg installs no more than have room, and fewer when the process is out of
\* descriptors.
KernelRoom(word, size) == (size - KernelHdr(word)) \div IntSize

\* Whether level and type are those of descriptors, cmsg_len and msg_controllen
\* when it has installed n; with none it leaves the buffer alone, all zeros.
KernelRights(n) == n > 0
KernelLen(word, n) == IF n = 0 THEN 0 ELSE KernelHdr(word) + IntSize * n
KernelControlLen(word, size, n) == IF n = 0 THEN 0 ELSE Smaller(KernelSpace(word, n), size)
=============================================================================
