------------------------- MODULE IndependentOracles -------------------------
(***************************************************************************)
(* What a caller is promised by the backends that allow several oracles at  *)
(* once: each has guest memory of its own.  A store changes the memory of   *)
(* the oracle it was made through and of no other, and creating or dropping *)
(* one oracle is invisible to the rest.                                     *)
(***************************************************************************)
CONSTANTS
  Oracles,   \* oracle objects
  Pages      \* guest pages

VARIABLES
  alive,     \* the oracles that exist
  memory     \* memory[o]: the pages of o that hold data

vars == <<alive, memory>>

Init == /\ alive = {}
        /\ memory = [o \in Oracles |-> {}]

Create(o) == /\ o \notin alive
             /\ alive' = alive \cup {o}
             /\ UNCHANGED memory

Store(o, p) == /\ o \in alive
               /\ memory' = [memory EXCEPT ![o] = @ \cup {p}]
               /\ UNCHANGED alive

Destroy(o) == /\ o \in alive
              /\ alive' = alive \ {o}
              /\ memory' = [memory EXCEPT ![o] = {}]

Next == \E o \in Oracles :
          \/ Create(o)
          \/ \E p \in Pages : Store(o, p)
          \/ Destroy(o)

Spec == Init /\ [][Next]_vars
=============================================================================
