---- MODULE MCBochsStep ----
(* Model-checking instances of BochsStep. *)
EXTENDS BochsStep

Plain(c) == [cls |-> c, vec |-> 0, code |-> 0]
Fault(c, v, e) == [cls |-> c, vec |-> v, code |-> e]

\* A benign exception, contributory ones with and without an error code, a page
\* fault; INT1 and INT3.  A double fault comes from the cascade alone.
AllInstrs == {Plain("next"), Plain("rep"), Plain("hlt"), Plain("sti"),
              Fault("fault", 6, 0), Fault("fault", 0, 0), Fault("fault", 13, 0),
              Fault("push", 12, 24), Fault("push", 14, 2), Fault("fault", 14, 0),
              Fault("soft", 3, 0), Fault("soft", 1, 0)}

StackPointers == {0, 8}
====
