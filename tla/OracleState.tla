---------------------------- MODULE OracleState ----------------------------
(***************************************************************************)
(* The state of one oracle and the accessors of its four backends           *)
(* (src/sail.rs, src/bochs.rs, src/kvm.rs, src/whp.rs, src/hw.rs): where    *)
(* each keeps a register, what it does to a value on the way, how the       *)
(* vector registers travel through an XSAVE image, which pages an access    *)
(* marks, and the shadow stacks of Bochs.                                   *)
(*                                                                          *)
(* Every API call runs under its backend's lock, so a call is one action.   *)
(* The processor, the hypervisors and Bochs' paging unit are external.      *)
(* Registers, values and the instructions step_bytes runs are those of      *)
(* AccessContract, which this module implements.                            *)
(***************************************************************************)
EXTENDS XsaveLayout, Sequences, FiniteSetsExt

CONSTANTS
  Machines,         \* [backend, host, inputs, calls]: host is the hypervisor's vCPU,
                    \* [cpuid, offered, accepted, kept, len, xcomp, base]; the last
                    \* two bound which calls are made to the oracle and how many
  Cells, VecRegs, AddrSpace, Ranges, CellWrites, ZmmData, MemWrites, Ops,
  ShadowRanges, Frame, IdLimit, \* as in AccessContract
  PtBase, PtBytes,  \* Bochs' page tables
  Phys,             \* Bochs' physical address space, a divisor of AddrSpace
  Ram,              \* RAM_SIZE of the hardware backends
  Page, Block       \* granularity of is_mapped: pages, and Sail's memory blocks

\* RAM ends below the last address, a page is at most half the address space, and a
\* frame (2 MiB) is made of pages (4 KiB).
ASSUME SizesAssumption ==
  /\ Page \in Nat \ {0} /\ AddrSpace \in Nat /\ Ram \in Nat
  /\ Frame \in Nat \ {0} /\ PtBase \in Nat /\ PtBytes \in Nat
  /\ Ram < AddrSpace /\ 2 * Page <= AddrSpace /\ Frame % Page = 0

\* Addresses are 64-bit; a slice is at most isize::MAX long, half of what they reach.
ASSUME InputsAssumption ==
  /\ {<<"rip", 0>>, <<"cr", 0>>} \subseteq Cells
  /\ \A m \in Machines :
       /\ m.backend \in {"sail", "bochs", "kvm", "whp"}
       /\ \A w \in m.inputs.cells : /\ w[1] = <<"rip", 0>> => w[2] \in 0..(AddrSpace - 1)
                                    /\ w[1] = <<"cr", 0>> => w[2] \in Nat
       /\ \A w \in m.inputs.mem : /\ w[1] \in 0..(AddrSpace - 1)
                                  /\ Len(w[2]) \in Nat /\ 2 * Len(w[2]) <= AddrSpace
       /\ m.inputs.shadow \subseteq Nat \X Nat
       /\ \A o \in m.inputs.ops : o[2] \in Nat

\* The registers an accessor names.
Registers ==
  ({"gpr"} \X (0..15)) \cup ({"cr"} \X {0, 1, 2, 3, 4, 8}) \cup ({"sel", "base", "limit"} \X (0..5))
  \cup ({"rip", "rflags", "ssp"} \X {0})
  \cup ({"msr"} \X {"EFER", "FS_BASE", "GS_BASE", "KERNEL_GS_BASE", "STAR", "LSTAR", "FMASK",
                    "U_CET", "S_CET", "OTHER"})

\* The calls are those that AccessContract knows.
ASSUME CallsAssumption ==
  /\ Cells \subseteq Registers /\ VecRegs \subseteq 0..(ZMM_REGS - 1)
  /\ Ranges \subseteq (0..(AddrSpace - 1)) \X Nat
  /\ \A m \in Machines :
       /\ \A w \in m.inputs.cells : w \in CellWrites /\ w = <<w[1], w[2]>> /\ w[1] \in Cells
       /\ \A w \in m.inputs.mem : w \in MemWrites /\ w = <<w[1], w[2]>> /\ w[2] \in Seq(Nat)
       /\ m.inputs.zmm \subseteq ZmmData \cap Seq(Nat)
       /\ m.inputs.shadow \subseteq ShadowRanges
       /\ m.inputs.ops \subseteq Ops \cap ({"nop", "load", "store", "vzeroupper"} \X Nat)

\* Memories have bytes, and Bochs maps whole frames.
ASSUME MemoriesAssumption ==
  /\ Phys \in Nat \ {0} /\ Ram # 0 /\ PtBytes # 0
  /\ IdLimit \in Nat /\ IdLimit % Frame = 0 /\ IdLimit <= AddrSpace

VARIABLES
  machine, xcr0, layout,    \* fixed at construction; layout is self.xsave
  slots,            \* the registers as the backend stores them, by storage name
  vec, inuse,       \* vector registers, and their components not in initial state
  mem,
  touched,          \* pages or blocks is_mapped answers true for
  pdeShadow, dtlb,  \* Bochs: frames mapped as shadow stack; pages the TLB lets
                    \* the program write
  saved, out, calls,
  call,             \* history: the last call, with its arguments
  caps, regs, view, \* history: how far this machine goes, the registers as an
                    \* instruction sees them, and what the accessors report
  armed,            \* history: shadow stacks on, and WP not cleared since
  written, stored,  \* history: addresses the caller wrote, step_bytes' code among them;
                    \* addresses the program stored to
  loaded            \* history: the units the program made Bochs load from

fixed == <<machine, xcr0, layout>>
paging == <<pdeShadow, dtlb, armed>>
memory == <<mem, touched, written, stored, loaded>>
observed == <<caps, regs, view>>
vars == <<fixed, slots, vec, inuse, memory, paging, saved, out, calls, call, observed>>

backend == machine.backend
host == machine.host
Hardware == backend \in {"kvm", "whp"}

RIP == <<"rip", 0>>
RFLAGS == <<"rflags", 0>>
CR0 == <<"cr", 0>>
CR4 == <<"cr", 4>>
HarnessFlags == {"tf", "rf"}
SEG_FS == 4
SEG_GS == 5

-----------------------------------------------------------------------------
(* Where a backend keeps a register *)

msr_slot == [EFER |-> 0, FS_BASE |-> 1, GS_BASE |-> 2, KERNEL_GS_BASE |-> 3,
             STAR |-> 4, LSTAR |-> 5, FMASK |-> 6]
HwMsrs == {"EFER", "KERNEL_GS_BASE", "STAR", "LSTAR", "FMASK"}
BochsMsrs == HwMsrs \cup {"U_CET", "S_CET"}
BaseMsrs == {"FS_BASE", "GS_BASE"}
SegName == [n \in 0..5 |-> <<"es", "cs", "ss", "ds", "fs", "gs">>[n + 1]]
GPR_NAMES == <<"rax", "rcx", "rdx", "rbx", "rsp", "rbp", "rsi", "rdi",
               "r8", "r9", "r10", "r11", "r12", "r13", "r14", "r15">>

\* The storage each setter of Sail writes: set_seg_base writes the segment and,
\* for FS and GS, the MSR that addressing uses in 64-bit mode.
SailSet(c) ==
  CASE c[1] = "msr" -> IF c[2] \in DOMAIN msr_slot THEN {<<"msr", msr_slot[c[2]]>>} ELSE {}
    [] c = <<"base", SEG_FS>> -> {c, <<"msr", msr_slot["FS_BASE"]>>}
    [] c = <<"base", SEG_GS>> -> {c, <<"msr", msr_slot["GS_BASE"]>>}
    [] c[1] = "ssp" -> {}
    [] OTHER -> {c}

\* The storage each getter of Sail reads.
SailGet(c) ==
  CASE c[1] = "msr" -> IF c[2] \in DOMAIN msr_slot THEN {<<"msr", msr_slot[c[2]]>>} ELSE {}
    [] c = <<"base", SEG_FS>> -> {<<"msr", msr_slot["FS_BASE"]>>}
    [] c = <<"base", SEG_GS>> -> {<<"msr", msr_slot["GS_BASE"]>>}
    [] c[1] = "ssp" -> {}
    [] OTHER -> {c}

\* Bochs: the MSR is a view of the descriptor cache.
BochsSlot(c) ==
  CASE c = <<"msr", "FS_BASE">> -> {<<"base", SEG_FS>>}
    [] c = <<"msr", "GS_BASE">> -> {<<"base", SEG_GS>>}
    [] c[1] = "msr" /\ c[2] \notin BaseMsrs \cup BochsMsrs -> {}
    [] c[1] = "cr" /\ c[2] \notin {0, 2, 3, 4} -> {}
    [] OTHER -> {c}

segment(n) == IF n < 5 THEN SegName[n] ELSE "gs"

\* KVM: kvm_regs, kvm_sregs, or KVM_SET_MSRS.
KvmSlot(c) ==
  CASE c[1] = "gpr" -> {<<"gpr", GPR_NAMES[(IF c[2] < 15 THEN c[2] ELSE 15) + 1]>>}
    [] c = <<"msr", "FS_BASE">> -> {<<"base", "fs">>}
    [] c = <<"msr", "GS_BASE">> -> {<<"base", "gs">>}
    [] c[1] = "msr" /\ c[2] \notin BaseMsrs \cup HwMsrs -> {}
    [] c[1] = "cr" /\ c[2] \notin {0, 2, 3, 4, 8} -> {}
    [] c[1] \in {"sel", "base", "limit"} -> {<<c[1], segment(c[2])>>}
    [] c[1] = "ssp" -> {}
    [] OTHER -> {c}

seg_name(n) == IF n < 5 THEN SegName[n] ELSE "gs"

\* WHP: one named register each; the FS and GS bases are in the segment registers only.
WhpSlot(c) ==
  CASE c[1] = "gpr" -> {<<"gpr", GPR_NAMES[(IF c[2] < 15 THEN c[2] ELSE 15) + 1]>>}
    [] c = <<"msr", "FS_BASE">> -> {<<"base", seg_name(SEG_FS)>>}
    [] c = <<"msr", "GS_BASE">> -> {<<"base", seg_name(SEG_GS)>>}
    [] c[1] = "msr" /\ c[2] \notin BaseMsrs \cup HwMsrs -> {}
    [] c[1] = "cr" /\ c[2] \notin {0, 2, 3, 4, 8} -> {}
    [] c[1] \in {"sel", "base", "limit"} -> {<<c[1], seg_name(c[2])>>}
    [] c[1] = "ssp" -> {}
    [] OTHER -> {c}

SetSlots(b, c) == CASE b = "sail" -> SailSet(c) [] b = "bochs" -> BochsSlot(c)
                    [] b = "kvm" -> KvmSlot(c) [] b = "whp" -> WhpSlot(c)
GetSlots(b, c) == IF b = "sail" THEN SailGet(c) ELSE SetSlots(b, c)

\* The registers Bochs holds in 32 bits.
BochsNarrow == {CR0, <<"msr", "EFER">>, <<"msr", "FMASK">>}

\* What a backend does to a value it stores: Bochs cuts it to 32 bits for some, and
\* all but Sail keep the flags of single-stepping out and bit 1 set.
Stored(b, c, v) ==
  IF c = RFLAGS THEN IF b = "sail" THEN v ELSE (v \ HarnessFlags) \cup {"one"}
  ELSE IF b = "bochs" /\ c \in BochsNarrow THEN v % 2 ELSE v

Put(s, c, v) == [name \in DOMAIN s |-> IF name \in SetSlots(backend, c)
                                       THEN Stored(backend, c, v) ELSE s[name]]

\* restore() puts back the general registers, RIP and RFLAGS, each in a slot of its own.
Restored(snapshot) == [name \in DOMAIN slots |->
  IF \E c \in DOMAIN snapshot : name \in SetSlots(backend, c)
  THEN LET c == CHOOSE c \in DOMAIN snapshot : name \in SetSlots(backend, c)
       IN Stored(backend, c, snapshot[c])
  ELSE slots[name]]

Get(c) ==
  IF GetSlots(backend, c) = {} THEN 0
  ELSE LET v == slots[CHOOSE name \in GetSlots(backend, c) : TRUE]
       IN IF c = RFLAGS /\ backend # "sail" THEN v \ HarnessFlags ELSE v

\* External: a hypervisor may refuse the value of a control register, an MSR or a
\* segment, and the write then does not happen.
Refusable(c) == Hardware /\ c[1] \in {"msr", "cr", "sel", "base", "limit"}

-----------------------------------------------------------------------------
(* Vector registers *)

\* External: the offset of a chunk in the images this vCPU trades, and which
\* chunks travel.  An image carries only what the component bitmap names; the
\* rest is in its initial state, zero.
ArchOffset(n, c) ==
  IF n >= 16 THEN host.base[7] + 64 * (n - 16) + 8 * c
  ELSE IF c < 2 THEN 160 + 16 * n + 8 * c
  ELSE IF c < 4 THEN host.base[2] + 16 * n + 8 * c - 16
  ELSE host.base[6] + 32 * n + 8 * c - 32

GetXsave(v, bv) ==
  LET offset == [nc \in {x \in VecRegs \X (0..7) : v[x[1]][x[2]] # 0} |->
                   ArchOffset(nc[1], nc[2])]
      word(o) == LET nc == CHOOSE x \in DOMAIN offset : offset[x] = o IN v[nc[1]][nc[2]]
  IN [words |-> [o \in {offset[nc] : nc \in DOMAIN offset} |-> word(o)],
      bv |-> bv, xcomp |-> host.xcomp, len |-> host.len]

SetXsave(image) ==
  [vec |-> [n \in VecRegs |-> [c \in 0..7 |->
              IF Component(n, c) \in image.bv \cap xcr0
              THEN Word(image, ArchOffset(n, c)) ELSE 0]],
   inuse |-> image.bv \cap xcr0]

\* get_zmm of every register; on the hardware backends out of one image.
Zmms ==
  LET image == GetXsave(vec, inuse)
  IN [n \in VecRegs |-> IF Hardware THEN xsave_get_zmm(image, layout, n) ELSE vec[n]]

set_zmm(state, n, data) ==
  IF Hardware
  THEN SetXsave(xsave_set_zmm(GetXsave(state.vec, state.inuse), layout, n, data))
  ELSE [state EXCEPT !.vec[n] = [c \in 0..7 |-> Chunk(data, c)]]

\* KVM is offered every feature the host has; WHP gets the widest candidate it
\* accepts and reports back with X87 and SSE in it.
X87_SSE == {0, 1}
AVX512 == {5, 6, 7}
OPTIONAL == {3, 4, 9}

Candidates(offered) ==
  << offered, offered \ OPTIONAL, X87_SSE \cup {2} \cup (offered \cap AVX512),
     X87_SSE \cup (offered \cap {2}), X87_SSE >>

Wanted(candidate) ==
  LET w == candidate \cup X87_SSE
  IN IF AVX512 \subseteq w /\ 2 \in w THEN w ELSE w \ AVX512

\* Mutant: the first refusal settles for X87 and SSE.
enable_widest_xcr0_once(h) ==
  LET w == Wanted(h.offered) IN IF w \in h.accepted THEN w \cap h.kept ELSE X87_SSE

enable_widest_xcr0(h) ==
  LET want(i) == Wanted(Candidates(h.offered)[i])
      good == {i \in 1..5 : want(i) \in h.accepted /\ X87_SSE \subseteq want(i) \cap h.kept}
      widest == CHOOSE i \in good : \A j \in good : i <= j
  IN IF good = {} THEN X87_SSE ELSE want(widest) \cap h.kept

EffectiveXcr0(m) == CASE m.backend = "kvm" -> m.host.offered
                      [] m.backend = "whp" -> enable_widest_xcr0(m.host)
                      [] OTHER -> {}

\* External: the masks a processor can have, and the sizes of the vector components.
Valid(x) == X87_SSE \subseteq x /\ (AVX512 \cap x # {} => AVX512 \cup {2} \subseteq x)
VectorSize == [i \in {2, 6, 7} |-> IF i = 2 THEN 256 ELSE IF i = 6 THEN 512 ELSE 1024]

\* External: KVM offers a mask that a processor can have.  A hypervisor that takes masks
\* has a widest one within what the host has, takes the mask of a vector extension in it
\* alone, and reports one that a processor can have.
OffersVectors(m) ==
  LET h == m.host
  IN IF m.backend = "kvm" THEN Valid(h.offered)
     ELSE \E top \in h.accepted :
            /\ \A x \in h.accepted : x \subseteq top
            /\ top \subseteq h.offered /\ Valid(top) /\ Valid(top \cap h.kept)
            /\ \A x \in {X87_SSE \cup {2}, X87_SSE \cup {2} \cup AVX512} :
                 x \subseteq top => x \in h.accepted

\* External: the components below Hi16_ZMM that a compacted image has, and their places:
\* each at the end of the one before it, the first after the header, aligned if it says so.
Packed(h) == {i \in 2..7 : i \in h.xcomp /\ CpuidSize(h.cpuid, i) # 0}

PackedInOrder(h) ==
  LET place(i, from) == IF h.cpuid[i].aligned THEN Align64(from) ELSE from
  IN \A i \in Packed(h) :
       \/ /\ \A j \in Packed(h) : i <= j
          /\ h.base[i] = place(i, XSAVE_COMPACT_BASE)
       \/ \E j \in Packed(h) :
            /\ j < i /\ \A k \in Packed(h) : k <= j \/ i <= k
            /\ h.base[i] = place(i, h.base[j] + h.cpuid[j].size)

\* External: the vector components of an image have the sizes of the manual, lie where
\* CPUID says and within the image; the standard offsets are apart, above the header.
ImagesAreArchitectural(m) ==
  LET h == m.host
      components == {2, 6, 7} \cap EffectiveXcr0(m)
  IN /\ h.len \in Nat
     /\ \A i \in DOMAIN h.cpuid : h.cpuid[i] \in [size : Nat, offset : Nat, aligned : BOOLEAN]
     /\ \A i \in components : /\ i \in DOMAIN h.cpuid /\ h.cpuid[i].size = VectorSize[i]
                              /\ h.base[i] \in Nat /\ h.base[i] + VectorSize[i] <= h.len
     /\ IF COMPACTED \in h.xcomp
        THEN /\ components \subseteq h.xcomp /\ PackedInOrder(h)
             /\ \A i \in Packed(h) : h.base[i] \in Nat
        ELSE /\ \A i \in components : /\ h.base[i] = h.cpuid[i].offset
                                      /\ h.base[i] >= XSAVE_COMPACT_BASE
             /\ \A i, j \in components :
                  i < j => \/ h.base[i] + VectorSize[i] <= h.base[j]
                           \/ h.base[j] + VectorSize[j] <= h.base[i]

ASSUME HostsAssumption ==
  \A m \in Machines : m.backend \in {"kvm", "whp"} =>
    OffersVectors(m) /\ ImagesAreArchitectural(m)

vector_chunks == IF Hardware THEN vector_width(layout) \div 64 ELSE ZMM_CHUNKS
VectorRegs == IF Hardware THEN vector_regs(layout) ELSE ZMM_REGS

-----------------------------------------------------------------------------
(* Memory *)

PageOf(a) == a - (a % Page)
Unit(a) == CASE backend = "sail" -> a - (a % Block)
             [] backend = "bochs" -> PageOf(a % Phys)
             [] Hardware -> PageOf(a)

PutBytes(m, at, data) ==
  [x \in DOMAIN m |-> IF \E i \in DOMAIN data : at[i] = x
                      THEN data[CHOOSE i \in DOMAIN data : at[i] = x] ELSE m[x]]

\* GuestRam drops an access that is not wholly inside it.
Inside(a, len) == a + len < AddrSpace /\ a + len <= Ram

GuestRamRead(m, a, len) == [i \in 1..len |-> IF Inside(a, len) THEN m[a + i - 1] ELSE 0]

GuestRamWrite(m, a, data) ==
  IF Inside(a, Len(data)) THEN PutBytes(m, [i \in DOMAIN data |-> a + i - 1], data) ELSE m

Address(a, i) == IF backend = "sail" THEN (a + i) % AddrSpace ELSE ((a + i) % AddrSpace) % Phys

read_mem(a, len) ==
  IF Hardware THEN GuestRamRead(mem, a, len) ELSE [i \in 1..len |-> mem[Address(a, i - 1)]]

WriteBytes(m, a, data) ==
  IF Hardware THEN GuestRamWrite(m, a, data)
  ELSE PutBytes(m, [i \in DOMAIN data |-> Address(a, i - 1)], data)

\* Mutant: only the page of the first byte is marked.
Marked_first(a, len) ==
  IF Hardware THEN {PageOf(a)} ELSE {Unit((a + i) % AddrSpace) : i \in 0..(len - 1)}

\* The units write_mem marks.  On the hardware backends they run up to the page of
\* the first byte after the data, and none is left when that address overflows.
Marked(a, len) ==
  IF Hardware
  THEN {p \in PageOf(a)..PageOf((a + len) % AddrSpace) : p % Page = 0}
  ELSE {Unit((a + i) % AddrSpace) : i \in 0..(len - 1)}

\* What a call to write_mem names; an empty one names its address on hardware.
Named(a, len) ==
  IF ~Hardware THEN {(a + i) % AddrSpace : i \in 0..(len - 1)}
  ELSE IF a + len >= AddrSpace THEN {} ELSE {a} \cup (a..(a + len - 1))

-----------------------------------------------------------------------------
(* Shadow stacks of Bochs *)

FrameOf(a) == a - (a % Frame)

\* Mutant: the page tables are compared with the range itself, not its frames.
map_shadow_stack_exact(base, len) ==
  IF \/ len = 0 \/ base >= IdLimit \/ len > IdLimit - base
     \/ base <= PtBase + PtBytes - 1 /\ PtBase <= base + len - 1
  THEN {}
  ELSE {f \in FrameOf(base)..(base + len - 1) : f % Frame = 0}

\* The frames to convert; none when the range is refused.
map_shadow_stack(base, len) ==
  LET first == FrameOf(base)
      last == FrameOf(base + len - 1) + Frame - 1
      pt_first == FrameOf(PtBase)
      pt_last == FrameOf(PtBase + PtBytes - 1) + Frame - 1
  IN IF \/ len = 0 \/ base >= IdLimit \/ len > IdLimit - base
        \/ first <= pt_last /\ pt_first <= last
     THEN {} ELSE {f \in first..last : f % Frame = 0}

\* Mutant: WP is left as the caller had it.
Enabling_cet_alone == {CR4}

\* The control registers of which enable_shadow_stack sets a bit: WP and CET.
Enabling == {CR0, CR4}

WP == slots[CR0] % 2 = 1

\* External: Bochs' walk of the identity map.  A page the TLB lets the program
\* write is not walked again; a read-only page is writable while WP is clear.
StorePermitted(a) == PageOf(a) \in dtlb \/ FrameOf(a) \notin pdeShadow \/ ~WP

-----------------------------------------------------------------------------
(* The program's view, for AccessContract: what an instruction works with *)

\* External: the registers in the order that instructions number them, and the MSR
\* file of the Sail model.
GprCodes == <<"rax", "rcx", "rdx", "rbx", "rsp", "rbp", "rsi", "rdi",
              "r8", "r9", "r10", "r11", "r12", "r13", "r14", "r15">>
SegCodes == <<"es", "cs", "ss", "ds", "fs", "gs">>
SailMsrs == [EFER |-> 0, KERNEL_GS_BASE |-> 3, STAR |-> 4, LSTAR |-> 5, FMASK |-> 6]

\* External: the storage an instruction uses for a register.
ArchSlot(c) ==
  CASE c \in {<<"base", SEG_FS>>, <<"msr", "FS_BASE">>} ->
         IF backend = "sail" THEN <<"msr", 1>>
         ELSE <<"base", IF Hardware THEN "fs" ELSE SEG_FS>>
    [] c \in {<<"base", SEG_GS>>, <<"msr", "GS_BASE">>} ->
         IF backend = "sail" THEN <<"msr", 2>>
         ELSE <<"base", IF Hardware THEN "gs" ELSE SEG_GS>>
    [] c[1] = "msr" /\ c[2] \in DOMAIN SailMsrs /\ backend = "sail" -> <<"msr", SailMsrs[c[2]]>>
    [] c[1] = "gpr" /\ Hardware -> <<"gpr", GprCodes[c[2] + 1]>>
    [] c[1] \in {"sel", "base", "limit"} /\ Hardware -> <<c[1], SegCodes[c[2] + 1]>>
    [] OTHER -> c

\* The registers each backend leaves out.
LeftOut ==
  {<<"msr", "OTHER">>}
  \cup IF backend = "bochs" THEN {<<"cr", 1>>, <<"cr", 8>>}
       ELSE {<<"ssp", 0>>, <<"msr", "U_CET">>, <<"msr", "S_CET">>}
            \cup IF Hardware THEN {<<"cr", 1>>} ELSE {}
Supported == Cells \ LeftOut

GuestLimit == CASE backend = "sail" -> AddrSpace [] backend = "bochs" -> IdLimit
                [] Hardware -> Ram

\* How far this machine goes: the vector width is the widest the host accepts.
VcpuXcr0 == IF backend = "kvm" THEN host.offered
            ELSE CHOOSE x \in {y \cap host.kept : y \in host.accepted} :
                   \A y \in host.accepted : y \cap host.kept \subseteq x

Caps ==
  [cells |-> Supported,
   narrow |-> IF backend = "bochs" THEN BochsNarrow ELSE {},
   refusable |-> {c \in Supported : Refusable(c)},
   rawFlags |-> backend = "sail",
   vecs |-> IF Hardware /\ 7 \notin VcpuXcr0 THEN 16 ELSE ZMM_REGS,
   chunks |-> IF ~Hardware \/ 6 \in VcpuXcr0 THEN 8 ELSE IF 2 \in VcpuXcr0 THEN 4 ELSE 2,
   phys |-> CASE backend = "sail" -> AddrSpace [] backend = "bochs" -> Phys [] Hardware -> Ram,
   bounded |-> Hardware,
   guest |-> GuestLimit,
   cet |-> backend = "bochs"]

Regs == [c \in Supported |-> slots[ArchSlot(c)]]

View == [regs |-> [c \in Cells |-> Get(c)],
         zmm |-> Zmms,
         held |-> <<VectorRegs, vector_chunks>>,
         mem |-> [r \in Ranges |-> read_mem(r[1], r[2])]]

-----------------------------------------------------------------------------
ResetValue(c) ==
  CASE c = RFLAGS -> {"one"}
    [] c = <<"msr", "EFER">> -> 1
    [] c \in {CR0, <<"cr", 3>>} \/ c[1] \in {"sel", "limit"} ->
         IF backend = "sail" THEN 0 ELSE 1
    [] OTHER -> 0

Blank == [n \in VecRegs |-> [c \in 0..7 |-> 0]]

\* A fresh oracle, in the reset state; CpuState::default() is a snapshot that a
\* caller can restore without having taken it.
Init ==
  /\ machine \in Machines
  /\ xcr0 = EffectiveXcr0(machine)
  /\ layout = probe(host.cpuid, xcr0, host.xcomp)
  /\ slots = [name \in {ArchSlot(c) : c \in Supported}
                       \cup (UNION {SetSlots(backend, c) : c \in Cells}) |->
                IF \E c \in Supported : ArchSlot(c) = name
                THEN ResetValue(CHOOSE c \in Supported : ArchSlot(c) = name) ELSE 0]
  /\ LET start == IF Hardware
                  THEN SetXsave(xsave_reset_vectors(GetXsave(Blank, {}), layout))
                  ELSE [vec |-> Blank, inuse |-> {}]
     IN vec = start.vec /\ inuse = start.inuse
  /\ mem = [x \in 0..(Caps.phys - 1) |-> 0]
  \* build_identity_map writes Bochs' tables; build_control_structures marks nothing.
  /\ touched = IF backend = "bochs" THEN {PageOf(p) : p \in PtBase..(PtBase + PtBytes - 1)}
               ELSE {}
  /\ pdeShadow = {} /\ dtlb = {} /\ armed = FALSE
  /\ saved = {[regs |-> [c \in {d \in Cells : d[1] \in {"gpr", "rip", "rflags"}} |->
                           IF c = RFLAGS THEN {} ELSE 0],
               zmm |-> Blank]}
  /\ out = "none" /\ calls = 0 /\ call = <<"new">>
  /\ caps = Caps /\ regs = Regs /\ view = View
  /\ written = {} /\ stored = {} /\ loaded = {}

Call(c) == calls < machine.calls /\ calls' = calls + 1 /\ call' = c /\ UNCHANGED fixed
Observed == UNCHANGED caps /\ regs' = Regs' /\ view' = View'

Flushes(c) == backend = "bochs" /\ c \in {<<"cr", 3>>, CR4}

\* set_gpr, set_rip, set_rflags, set_msr, set_cr, set_ssp, set_seg_*.
SetCell(c, v) ==
  /\ Call(<<"set", <<c, v>>>>)
  /\ \/ slots' = Put(slots, c, v)
     \/ Refusable(c) /\ UNCHANGED slots
  /\ dtlb' = IF Flushes(c) THEN {} ELSE dtlb
  /\ armed' = (armed /\ slots'[CR0] % 2 = 1)
  /\ UNCHANGED <<vec, inuse, memory, pdeShadow, saved, out>>
  /\ Observed

SetZmm(n, data) ==
  /\ Call(<<"set_zmm", n, data>>)
  /\ LET new == set_zmm([vec |-> vec, inuse |-> inuse], n, data)
     IN vec' = new.vec /\ inuse' = new.inuse
  /\ UNCHANGED <<slots, memory, paging, saved, out>>
  /\ Observed

WriteMem(a, data) ==
  /\ Call(<<"write_mem", <<a, data>>>>)
  /\ mem' = WriteBytes(mem, a, data)
  /\ touched' = touched \cup Marked(a, Len(data))
  /\ written' = written \cup Named(a, Len(data))
  /\ UNCHANGED <<slots, vec, inuse, stored, loaded, paging, saved, out>>
  /\ Observed

\* One byte marks one page, whether or not there is memory behind it.
WriteMemByte(a, data) ==
  /\ Call(<<"write_mem", <<a, data>>>>)
  /\ Len(data) = 1
  /\ mem' = WriteBytes(mem, a, data)
  /\ touched' = touched \cup {Unit(a)}
  /\ written' = written \cup {a}
  /\ UNCHANGED <<slots, vec, inuse, stored, loaded, paging, saved, out>>
  /\ Observed

Snapshot ==
  /\ Call(<<"snapshot">>)
  /\ saved' = saved \cup {[regs |-> [c \in {d \in Cells : d[1] \in {"gpr", "rip", "rflags"}} |->
                                       Get(c)],
                           zmm |-> Zmms]}
  /\ UNCHANGED <<slots, vec, inuse, memory, paging, out>>
  /\ Observed

Restore(s) ==
  /\ Call(<<"restore", s>>)
  /\ slots' = Restored(s.regs)
  /\ LET new == FoldSet(LAMBDA n, acc : set_zmm(acc, n, [i \in 1..8 |-> s.zmm[n][i - 1]]),
                        [vec |-> vec, inuse |-> inuse], VecRegs)
     IN vec' = new.vec /\ inuse' = new.inuse
  /\ UNCHANGED <<memory, paging, saved, out>>
  /\ Observed

EnableShadowStack(base, len) ==
  /\ Call(<<"enable_shadow_stack", <<base, len>>>>)
  /\ LET frames == map_shadow_stack(base, len)
     IN IF backend # "bochs" \/ frames = {}
        THEN /\ out' = IF backend = "bochs" THEN "bad_range" ELSE "unsupported"
             /\ UNCHANGED <<slots, paging>>
        ELSE /\ out' = "ok"
             /\ pdeShadow' = pdeShadow \cup frames
             /\ slots' = [name \in DOMAIN slots |->
                            IF name \in Enabling THEN slots[name] - (slots[name] % 2) + 1
                            ELSE IF name \in {<<"msr", "S_CET">>, <<"msr", "U_CET">>} THEN 1
                            ELSE slots[name]]
             /\ dtlb' = {}
             /\ armed' = TRUE
  /\ UNCHANGED <<vec, inuse, memory, saved>>
  /\ Observed

\* step_bytes: write the code at RIP, then step.  The instruction is one of those
\* AccessContract knows; Sail has no VZEROUPPER, and a vCPU needs AVX for it.
StepBytes(op, a) ==
  /\ Call(<<"step_bytes", op, a>>)
  /\ op = "vzeroupper" => backend = "bochs" \/ 2 \in xcr0
  /\ op \in {"load", "store"} => a < GuestLimit
  /\ LET rip == Get(RIP)
         code == WriteBytes(mem, rip, <<1>>)
         fetched == rip < GuestLimit
         stores == op = "store" /\ StorePermitted(a)
         retires == fetched /\ (op # "store" \/ stores)
         leftover == CASE backend = "kvm" -> {{}, {"tf"}} [] backend = "bochs" -> {{}, {"rf"}}
                       [] OTHER -> {{}}
     IN /\ out' = IF retires THEN "retired" ELSE "fault"
        /\ \E f \in leftover :
             slots' = IF retires
                      THEN [slots EXCEPT ![RIP] = @ + 1, ![RFLAGS] = @ \cup f]
                      ELSE slots
        /\ mem' = IF fetched /\ stores THEN PutBytes(code, <<a % caps.phys>>, <<2>>) ELSE code
        /\ IF fetched /\ op = "vzeroupper"
           THEN /\ vec' = [n \in VecRegs |-> [c \in 0..7 |->
                             IF n < 16 /\ c >= 2 THEN 0 ELSE vec[n][c]]]
                /\ inuse' = inuse \ {2, 6}
           ELSE UNCHANGED <<vec, inuse>>
        \* A vCPU's stores go to its RAM past the driver, which marks nothing for them.
        /\ LET guest == {x \in {a} : fetched /\ stores}
               tracked == {x \in guest : ~Hardware}
               loads == {x \in {a} : fetched /\ op = "load" /\ backend = "bochs"}
           IN /\ touched' = touched \cup Marked(rip, 1) \cup {Unit(x) : x \in tracked \cup loads}
              /\ written' = written \cup Named(rip, 1)
              /\ stored' = stored \cup guest
              /\ loaded' = loaded \cup {Unit(x) : x \in loads}
        /\ dtlb' = IF fetched /\ stores /\ backend = "bochs" THEN dtlb \cup {PageOf(a)} ELSE dtlb
  /\ UNCHANGED <<pdeShadow, armed, saved>>
  /\ Observed

Next ==
  \/ \E w \in machine.inputs.cells : SetCell(w[1], w[2])
  \/ \E n \in VecRegs, data \in machine.inputs.zmm : SetZmm(n, data)
  \/ \E w \in machine.inputs.mem : WriteMem(w[1], w[2])
  \/ \E w \in machine.inputs.mem : WriteMemByte(w[1], w[2])
  \/ Snapshot
  \/ \E s \in saved : Restore(s)
  \/ \E r \in machine.inputs.shadow : EnableShadowStack(r[1], r[2])
  \/ \E o \in machine.inputs.ops : StepBytes(o[1], o[2])
  \/ calls = machine.calls /\ UNCHANGED vars   \* the bound: no more calls

Spec == Init /\ [][Next]_vars

-----------------------------------------------------------------------------
(* Properties *)

\* What is_mapped can know of: the caller's writes and, on Sail and Bochs only, the
\* program's stores: "guest stores are invisible" to the drivers of KVM and WHP.
Visible == IF Hardware THEN written ELSE written \cup stored

\* is_mapped tells a byte that was written from one that never was, within its
\* granularity, as far as the backend sees writes: whatever the caller wrote is in a
\* marked unit, and on Sail and Bochs whatever the program stored; and a marked unit
\* holds something so written, was loaded from (Bochs), belongs to the page tables
\* (Bochs), or is the page right after something the caller wrote (KVM and WHP).  On
\* KVM and WHP a page that only the program has stored to is not marked: the property
\* excludes those stores, although the trait says "ever written" without exception.
MappedTracksWrites ==
  /\ \A a \in Visible : Unit(a) \in touched
  /\ \A u \in touched :
       \/ \E a \in Visible : Unit(a) = u \/ (Hardware /\ Unit(a) + Page = u)
       \/ u \in loaded
       \/ backend = "bochs" /\ \E p \in PtBase..(PtBase + PtBytes - 1) : PageOf(p) = u

\* Bochs' own page tables are never made read-only; and once enable_shadow_stack has
\* succeeded, until the caller clears CR0.WP, no ordinary store of the program reaches a
\* shadow stack: not through a translation cached when the page was data, nor because
\* WP was off when it became a shadow stack.
ShadowStacksHold ==
  /\ pdeShadow \cap {FrameOf(p) : p \in PtBase..(PtBase + PtBytes - 1)} = {}
  /\ armed => \A f \in pdeShadow : \A a \in f..(f + Frame - 1) : ~StorePermitted(a)

Contract == INSTANCE AccessContract WITH
  shadow <- UNION {f..(f + Frame - 1) : f \in pdeShadow},
  Reserved <- PtBase..(PtBase + PtBytes - 1)

\* The accessors keep the trait's promise on every backend: what a caller writes
\* is what the program runs with and what the accessors report, in each name of
\* it and nowhere else; snapshots restore what they captured; and an ordinary
\* store never reaches a shadow stack.
ImplementsAccessContract == Contract!Init /\ [][Contract!Next]_(Contract!vars)
=============================================================================
