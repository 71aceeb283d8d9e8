----------------------------- MODULE MCNotifier -----------------------------
(* Notifier on a small instance.                                           *)
EXTENDS Notifier

CONSTANTS c1, c2

\* Two callers need three descriptors each, so with MCFds they run out.
MCCallers == {c1, c2}

\* c1 keeps a Notifier; c2 calls the module level functions.
MCModuleCallers == {c2}

MCFds == 3..6
=============================================================================
