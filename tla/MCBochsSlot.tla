---- MODULE MCBochsSlot ----
(* Model-checking instance of BochsSlot: three threads contend for the core. *)
EXTENDS BochsSlot
====
