--------------------------- MODULE BarrierPromise ---------------------------
(***************************************************************************)
(* What daemon.py promises about a barrier, without sockets or             *)
(* descriptors: notifications are numbered in the order they are sent, the *)
(* listener handles them in that order, and a barrier is acknowledged only *)
(* when everything sent before it has been handled, or when the listener   *)
(* is gone and nothing will ever be handled again.                         *)
(***************************************************************************)
EXTENDS Naturals

CONSTANT Callers

VARIABLES sent,    \* how many notifications have been sent
          done,    \* the numbers of those the listener has handled
          lost,    \* the listener is gone
          state,   \* where each caller stands with its barrier
          mark     \* how many notifications preceded its barrier, 0 when it is idle

vars == <<sent, done, lost, state, mark>>

Init ==
  /\ sent = 0
  /\ done = {}
  /\ lost = FALSE
  /\ state = [c \in Callers |-> "idle"]
  /\ mark = [c \in Callers |-> 0]

Post ==
  /\ sent' = sent + 1
  /\ UNCHANGED <<done, lost, state, mark>>

Handle ==
  /\ ~lost
  /\ \E i \in 1..sent \ done :
       /\ \A j \in 1..sent \ done : i <= j
       /\ done' = done \cup {i}
  /\ UNCHANGED <<sent, lost, state, mark>>

Lose ==
  /\ lost' = TRUE
  /\ UNCHANGED <<sent, done, state, mark>>

\* The barrier is a notification of its own, numbered mark + 1.
Begin(c) ==
  /\ state[c] = "idle"
  /\ state' = [state EXCEPT ![c] = "waiting"]
  /\ mark' = [mark EXCEPT ![c] = sent]
  /\ sent' = sent + 1
  /\ UNCHANGED <<done, lost>>

Move(c, from, to) ==
  /\ state[c] = from
  /\ state' = [state EXCEPT ![c] = to]
  /\ UNCHANGED <<sent, done, lost, mark>>

Acknowledge(c) ==
  /\ 1..mark[c] \subseteq done \/ lost
  /\ Move(c, "waiting", "acked")

GiveUp(c) == Move(c, "waiting", "timedout")

Retry(c) == Move(c, "timedout", "waiting")

\* The caller takes the answer, or gives up its barrier at any time before.
Leave(c) ==
  /\ state[c] # "idle"
  /\ state' = [state EXCEPT ![c] = "idle"]
  /\ mark' = [mark EXCEPT ![c] = 0]
  /\ UNCHANGED <<sent, done, lost>>

Next ==
  \/ Post \/ Handle \/ Lose
  \/ \E c \in Callers : Begin(c) \/ Acknowledge(c) \/ GiveUp(c) \/ Retry(c) \/ Leave(c)

Spec == Init /\ [][Next]_vars
=============================================================================
