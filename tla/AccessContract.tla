--------------------------- MODULE AccessContract ---------------------------
(***************************************************************************)
(* What the accessors of X86Oracle promise (src/lib.rs, the trait): a write *)
(* is what the program then runs with and what the accessors then report,   *)
(* under every name the state has, and it changes nothing else.             *)
(*                                                                          *)
(* caps says how far one machine goes: the trait lets a backend leave a     *)
(* register out, hold fewer vector chunks, or have a bounded memory.        *)
(***************************************************************************)
EXTENDS Naturals, Sequences

CONSTANTS
  Cells,            \* registers an accessor names, as <<kind, index>>
  VecRegs,          \* vector registers in use
  AddrSpace,        \* addresses are 0..AddrSpace-1 and wrap
  Ranges,           \* <<address, length>> pairs read_mem is called with
  CellWrites,       \* <<register, value>> pairs a caller writes
  ZmmData,          \* chunk sequences given to set_zmm
  MemWrites,        \* <<address, bytes>> pairs given to write_mem
  Ops,              \* <<instruction, address>> pairs given to step_bytes
  ShadowRanges,     \* <<base, len>> pairs given to enable_shadow_stack
  Frame,            \* size of the frames a shadow stack is made of
  IdLimit,          \* end of the identity map
  Reserved          \* addresses of the backend's own page tables

VARIABLES
  caps,             \* fixed: [cells, narrow, refusable, rawFlags, vecs, chunks,
                    \*         phys, bounded, guest, cet]
  regs, vec, mem,   \* what the program runs with
  shadow, armed,    \* addresses on a shadow stack, and whether they are protected
  saved,            \* the snapshots a caller may restore
  call,             \* the last call, with its arguments
  out,              \* result of the last enable_shadow_stack or step
  view              \* what the accessors report

vars == <<caps, regs, vec, mem, shadow, armed, saved, call, out, view>>

RIP == <<"rip", 0>>
RFLAGS == <<"rflags", 0>>
CR0 == <<"cr", 0>>
CR4 == <<"cr", 4>>
CET == {<<"msr", "S_CET">>, <<"msr", "U_CET">>}

\* TF and RF belong to single-stepping, and bit 1 of RFLAGS is always one.
HarnessFlags == {"tf", "rf"}
Chunks == 0..7
Snapped == {c \in Cells : c[1] \in {"gpr", "rip", "rflags"}}

\* A value is its low half plus 2 when bits above 31 are set; the low half of CR0
\* is WP, that of CR4 is CET, and it is 1 for the CET controls both of whose
\* enables are set.
Low(v) == v % 2

-----------------------------------------------------------------------------
(* Registers *)

\* The bases of FS and GS have two names each.
FsBase == {<<"base", 4>>, <<"msr", "FS_BASE">>}
GsBase == {<<"base", 5>>, <<"msr", "GS_BASE">>}
Synonyms(c) == IF c \in FsBase THEN FsBase ELSE IF c \in GsBase THEN GsBase ELSE {c}

Kept(c, v) == IF c = RFLAGS
              THEN IF caps.rawFlags THEN v ELSE (v \ HarnessFlags) \cup {"one"}
              ELSE IF c \in caps.narrow THEN Low(v) ELSE v

\* The registers r after c was set to v.
After(r, c, v) == [d \in caps.cells |-> IF d \in Synonyms(c) THEN Kept(c, v) ELSE r[d]]

AfterAll(r, values) ==
  [d \in caps.cells |-> IF d \in Snapped THEN Kept(d, values[d]) ELSE r[d]]

Fit(n, data) == [c \in Chunks |-> IF n < caps.vecs /\ c < caps.chunks /\ c < Len(data)
                                  THEN data[c + 1] ELSE 0]

(* Memory *)

At(a, i) == ((a + i) % AddrSpace) % caps.phys
Lands(a, len) == caps.bounded => a + len <= caps.phys

Store(m, a, data) ==
  LET at == [i \in DOMAIN data |-> At(a, i - 1)]
  IN IF ~Lands(a, Len(data)) THEN m
     ELSE [x \in DOMAIN m |-> IF \E i \in DOMAIN data : at[i] = x
                              THEN data[CHOOSE i \in DOMAIN data : at[i] = x] ELSE m[x]]

Load(m, a, len) == [i \in 1..len |-> IF Lands(a, len) THEN m[At(a, i - 1)] ELSE 0]

-----------------------------------------------------------------------------
(* What the accessors report of the state *)

Seen == [regs |-> [c \in Cells |-> IF c \notin caps.cells THEN 0
                                   ELSE IF c = RFLAGS /\ ~caps.rawFlags
                                   THEN regs[c] \ HarnessFlags ELSE regs[c]],
         zmm |-> vec,
         held |-> <<caps.vecs, caps.chunks>>,
         mem |-> [r \in Ranges |-> Load(mem, r[1], r[2])]]

Init == /\ view = Seen
        /\ shadow = {} /\ ~armed /\ call = <<"new">> /\ out = "none"

(* Operations *)

Write(c, v) ==
  /\ IF c \notin caps.cells THEN UNCHANGED regs
     ELSE \/ regs' = After(regs, c, v)
          \/ c \in caps.refusable /\ UNCHANGED regs
  \* Clearing WP "leaves a state no CPU would accept": the protection is gone.
  /\ armed' = (armed /\ Low(regs'[CR0]) = 1)
  /\ UNCHANGED <<vec, mem, shadow, saved, out>>

SetZmm(n, data) == /\ vec' = [vec EXCEPT ![n] = Fit(n, data)]
                   /\ UNCHANGED <<regs, mem, shadow, armed, saved, out>>

WriteMem(a, data) == /\ mem' = Store(mem, a, data)
                     /\ UNCHANGED <<regs, vec, shadow, armed, saved, out>>

Snapshot == /\ saved' = saved \cup {[regs |-> [c \in Snapped |-> view.regs[c]],
                                     zmm |-> view.zmm]}
            /\ UNCHANGED <<regs, vec, mem, shadow, armed, out>>

\* Everything a snapshot captures, and nothing else.
Restore(s) == /\ regs' = AfterAll(regs, s.regs)
              /\ vec' = [n \in VecRegs |-> Fit(n, [i \in 1..8 |-> s.zmm[n][i - 1]])]
              /\ UNCHANGED <<mem, shadow, armed, saved, out>>

\* The frames of a range become shadow-stack frames, or the range is refused:
\* "outside the address space it maps, empty, or sharing a page-table frame".
Covered(base, len) == {x \in 0..(IdLimit - 1) :
                         \E i \in 0..(len - 1) : x \div Frame = (base + i) \div Frame}
ReservedFrames == {x \in 0..(IdLimit - 1) : \E p \in Reserved : p \div Frame = x \div Frame}
BadRange(base, len) == \/ len = 0 \/ base + len > IdLimit
                       \/ Covered(base, len) \cap ReservedFrames # {}

EnableShadowStack(base, len) ==
  /\ IF ~caps.cet \/ BadRange(base, len)
     THEN /\ out' = IF caps.cet THEN "bad_range" ELSE "unsupported"
          /\ UNCHANGED <<regs, shadow, armed>>
     ELSE /\ out' = "ok"
          /\ regs' = [d \in caps.cells |-> IF d \in {CR0, CR4} THEN regs[d] - Low(regs[d]) + 1
                                           ELSE IF d \in CET THEN 1 ELSE regs[d]]
          /\ shadow' = shadow \cup Covered(base, len)
          /\ armed' = TRUE
  /\ UNCHANGED <<vec, mem, saved>>

\* step_bytes: the code is written at RIP, and that code is what runs.
StepBytes(op, a) ==
  LET written == Store(mem, regs[RIP], <<1>>)
      retires == /\ out' = "retired"
                 /\ \E f \in {{}, {"tf"}, {"rf"}} :
                      regs' = [regs EXCEPT ![RIP] = @ + 1,
                                           ![RFLAGS] = IF caps.rawFlags THEN @ ELSE @ \cup f]
      faults == out' = "fault" /\ UNCHANGED <<regs, vec>> /\ mem' = written
  IN /\ \/ regs[RIP] >= caps.guest /\ faults
        \/ /\ regs[RIP] < caps.guest
           /\ \/ op \in {"nop", "load"} /\ retires /\ mem' = written /\ UNCHANGED vec
              \/ /\ op = "vzeroupper" /\ retires /\ mem' = written
                 /\ vec' = [n \in VecRegs |-> [c \in Chunks |->
                              IF n < 16 /\ c >= 2 THEN 0 ELSE vec[n][c]]]
              \* An ordinary store into a shadow stack faults.
              \/ op = "store" /\ a \in shadow /\ faults
              \/ /\ op = "store" /\ ~(armed /\ a \in shadow) /\ retires
                 /\ mem' = Store(written, a, <<2>>) /\ UNCHANGED vec
     /\ UNCHANGED <<shadow, armed, saved>>

Next ==
  /\ \/ \E w \in CellWrites : call' = <<"set", w>> /\ Write(w[1], w[2])
     \/ \E n \in VecRegs, data \in ZmmData : call' = <<"set_zmm", n, data>> /\ SetZmm(n, data)
     \/ \E w \in MemWrites : call' = <<"write_mem", w>> /\ WriteMem(w[1], w[2])
     \/ \E o \in Ops : call' = <<"step_bytes", o[1], o[2]>> /\ StepBytes(o[1], o[2])
     \/ \E r \in ShadowRanges :
          call' = <<"enable_shadow_stack", r>> /\ EnableShadowStack(r[1], r[2])
     \/ call' = <<"snapshot">> /\ Snapshot
     \/ \E s \in saved : call' = <<"restore", s>> /\ Restore(s)
  /\ view' = Seen'
  /\ UNCHANGED caps

Spec == Init /\ [][Next]_vars
=============================================================================
