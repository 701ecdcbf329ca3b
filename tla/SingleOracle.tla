---------------------------- MODULE SingleOracle ----------------------------
(***************************************************************************)
(* What a caller of the Bochs backend is promised, whatever the slot, the   *)
(* locks and the core do underneath: oracles exist one at a time, each      *)
(* starts from empty guest memory, and the memory a caller sees holds only  *)
(* what the current oracle wrote.                                           *)
(***************************************************************************)
CONSTANTS
  Threads,   \* the threads that create and drop oracles
  Pages,     \* guest pages an oracle may write
  NoThread,  \* no oracle exists
  Lost       \* an oracle exists that nobody will ever drop

VARIABLES
  holder,    \* the thread that owns the oracle, NoThread or Lost
  memory     \* the guest pages that hold data

vars == <<holder, memory>>

Init == holder = NoThread /\ memory = {}

\* A thread obtains an oracle; its memory is empty.
Create(t) == /\ holder = NoThread
             /\ holder' = t
             /\ memory' = {}

\* The owner writes a page.
Write(t, p) == /\ holder = t
               /\ memory' = memory \cup {p}
               /\ UNCHANGED holder

\* The owner drops its oracle, and its memory goes with it.
Destroy(t) == /\ holder = t
              /\ holder' = NoThread
              /\ memory' = {}

\* The owner leaks its oracle, or a construction strands one half-way.
Abandon(t) == /\ holder \in {t, NoThread}
              /\ holder' = Lost
              /\ memory' \in {memory, {}}

Next == \E t \in Threads :
          \/ Create(t)
          \/ \E p \in Pages : Write(t, p)
          \/ Destroy(t)
          \/ Abandon(t)

Spec == Init /\ [][Next]_vars
=============================================================================
