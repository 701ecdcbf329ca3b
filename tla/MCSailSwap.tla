---- MODULE MCSailSwap ----
(* Model-checking instance of SailSwap. *)
EXTENDS SailSwap

\* All addresses in one region, so that a slice has several bytes and each instance
\* needs one block.
OneRegion == [a \in Addresses |-> CHOOSE r \in Regions : TRUE]
====
