---- MODULE MCHwStep ----
(* Model-checking instances of HwStep. *)
EXTENDS HwStep

Instr(c, v, e) == [cls |-> c, vec |-> v, err |-> e]

\* #UD, #GP with two error codes and #PF stand for the vectors without and with
\* an error code; INT 13 for an INT n whose vector has one, INT 32 for the others
\* but INT 1.
AllInstrs == {Instr("plain", 0, 0), Instr("rep", 0, 0), Instr("hlt", 0, 0),
              Instr("outside", 0, 0), Instr("movss", 0, 0), Instr("fault", 6, 0),
              Instr("fault", 13, 0), Instr("fault", 13, 24), Instr("fault", 14, 2),
              Instr("trap", 3, 0), Instr("int", 1, 0),
              Instr("int", 13, 0), Instr("int", 32, 0)}

PlainAndInt == {Instr("plain", 0, 0), Instr("int", 13, 0)}

BothBackends == {"kvm", "whp"}
OnlyKvm == {"kvm"}

\* Hosts that support every vector of the instructions and more, one without the
\* others, and one without #DB; NMI, 2, is never wanted.
Bitmaps == {{1, 2, 3, 6, 13, 14}, {1, 13}, {3, 6}}
NoBitmap == {{}}

StackPointers == {0, 4096}
====
