---------------------------- MODULE StepContract ----------------------------
(***************************************************************************)
(* The contract of X86Oracle::step that every backend shares (README.md,    *)
(* "Semantics every backend shares"; src/lib.rs): one call either retires   *)
(* exactly one instruction or reports a fault, and "faults do not vector":  *)
(* a faulting instruction leaves RIP, RSP and the program's flags alone.    *)
(***************************************************************************)
EXTENDS Naturals

CONSTANTS
  MaxRip,     \* program addresses are 0..MaxRip
  Rsps,       \* stack pointer values
  Vectors     \* exception vectors a fault may report, and the value for none

VARIABLES
  rip, rsp,   \* as get_rip and get_gpr(4) report them
  flags,      \* the program's flags, without TF and RF
  outcome     \* of the last step: its kind, and the vector of a fault

vars == <<rip, rsp, flags, outcome>>

Outcomes == [kind : {"none", "retired", "fault"}, vec : Vectors]

Init == /\ rip = 0 /\ rsp = 0 /\ flags = 0
        /\ outcome \in {o \in Outcomes : o.kind = "none"}

\* A step retires one instruction: RIP moves past it, or stays on a REP.
Retire == /\ rip' \in {rip, rip + 1}
          /\ outcome' \in {o \in Outcomes : o.kind = "retired"}
          /\ UNCHANGED <<rsp, flags>>

\* A step faults, and the caller can resume from the very same state.
Fault == /\ outcome' \in {o \in Outcomes : o.kind = "fault"}
         /\ UNCHANGED <<rip, rsp, flags>>

\* set_rip, set_gpr(4) and set_rflags between steps.
Assign == /\ \/ rip' \in 0..MaxRip /\ UNCHANGED <<rsp, flags>>
             \/ rsp' \in Rsps /\ UNCHANGED <<rip, flags>>
             \/ flags' \in {0, 4} /\ UNCHANGED <<rip, rsp>>
          /\ UNCHANGED outcome

\* The oracle is dropped and another one created.
Renew == /\ rip' = 0 /\ rsp' = 0 /\ flags' = 0
         /\ outcome' \in {o \in Outcomes : o.kind = "none"}

Next == Retire \/ Fault \/ Assign \/ Renew

Spec == Init /\ [][Next]_vars
=============================================================================
