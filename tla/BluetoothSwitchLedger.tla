------------------------ MODULE BluetoothSwitchLedger ------------------------
(***************************************************************************)
(* What the switch module promises, without cache, tasks and timers: calls *)
(* are issued one at a time and at most once, a call waits only behind     *)
(* another one, and waiting calls are discarded only when the module comes *)
(* to rest, never to be issued again.                                      *)
(***************************************************************************)
EXTENDS Integers

CONSTANT Calls              \* the calls that applications can make
CONSTANT Nobody             \* no call: not an element of Calls

VARIABLES
  fresh,    \* calls not made yet
  waiting,  \* calls accepted, to be issued later
  done,     \* calls issued
  current   \* the call under way

lvars == <<fresh, waiting, done, current>>

LedgerInit ==
  /\ fresh = Calls
  /\ waiting = {}
  /\ done = {}
  /\ current = Nobody

Accept(c) ==
  /\ current # Nobody
  /\ c \in fresh
  /\ fresh' = fresh \ {c}
  /\ waiting' = waiting \cup {c}
  /\ UNCHANGED <<done, current>>

Issue(c) ==
  /\ current = Nobody
  /\ c \in (fresh \cup waiting) \ done
  /\ fresh' = fresh \ {c}
  /\ waiting' = waiting \ {c}
  /\ done' = done \cup {c}
  /\ current' = c

\* the call under way ends, or had ended before; waiting calls may be dropped
Rest ==
  /\ current' = Nobody
  /\ waiting' \subseteq waiting
  /\ UNCHANGED <<fresh, done>>

LedgerNext ==
  \/ \E c \in Calls : Accept(c) \/ Issue(c)
  \/ Rest

LedgerSpec == LedgerInit /\ [][LedgerNext]_lvars
=============================================================================
