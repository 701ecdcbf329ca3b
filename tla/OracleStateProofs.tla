------------------------- MODULE OracleStateProofs -------------------------
(***************************************************************************)
(* Proofs about OracleState, for any backend, host, sizes and calls: what   *)
(* is_mapped answers, the shadow stacks of Bochs, and, from "The registers" *)
(* on, that the accessors implement AccessContract.                         *)
(***************************************************************************)
EXTENDS OracleState, Integers, FiniteSetTheorems, TLAPS

-----------------------------------------------------------------------------
(* The inductive invariant *)

\* On the hardware backends the program counter of the machine, and of every snapshot,
\* is an address: a step writes its bytes there.
RipsAreAddresses ==
  Hardware => /\ slots[RIP] \in 0..(AddrSpace - 1)
              /\ \A s \in saved : RIP \in DOMAIN s.regs => s.regs[RIP] \in 0..(AddrSpace - 1)

AInv == machine \in Machines /\ RIP \in DOMAIN slots /\ RipsAreAddresses /\ MappedTracksWrites

-----------------------------------------------------------------------------
(* Arithmetic of pages *)

LEMMA Division ==
  ASSUME NEW P \in Nat \ {0}, NEW a \in Nat
  PROVE  a % P \in 0..(P - 1) /\ a = P * (a \div P) + (a % P) /\ a \div P \in Nat
OBVIOUS

LEMMA Multiples ==
  ASSUME NEW P \in Nat \ {0}, NEW i \in Nat, NEW j \in Nat, i < j
  PROVE  P * i + P <= P * j
OBVIOUS

LEMMA MultipleHasNoRest ==
  ASSUME NEW P \in Nat \ {0}, NEW q \in Nat
  PROVE  (P * q) % P = 0
OBVIOUS

\* What PageOf and FrameOf compute.
Floor(a, size) == a - (a % size)

LEMMA FloorFacts ==
  ASSUME NEW P \in Nat \ {0}, NEW a \in Nat
  PROVE  /\ Floor(a, P) = P * (a \div P) /\ a \div P \in Nat /\ Floor(a, P) \in Nat
         /\ Floor(a, P) <= a /\ a < Floor(a, P) + P /\ Floor(a, P) % P = 0
<1>1. a % P \in 0..(P - 1) /\ a = P * (a \div P) + (a % P) /\ a \div P \in Nat
  BY Division
<1>2. P * (a \div P) \in Nat
  BY <1>1
<1>3. Floor(a, P) = P * (a \div P)
  BY <1>1, <1>2 DEF Floor
<1>4. Floor(a, P) % P = 0
  BY <1>1, <1>3, MultipleHasNoRest
<1> QED BY <1>1, <1>2, <1>3, <1>4

LEMMA FloorsAreOrdered ==
  ASSUME NEW P \in Nat \ {0}, NEW a \in Nat, NEW b \in Nat, a <= b
  PROVE  Floor(a, P) <= Floor(b, P)
<1>1. /\ Floor(a, P) = P * (a \div P) /\ a \div P \in Nat
      /\ Floor(a, P) <= a /\ a < Floor(a, P) + P
  BY FloorFacts
<1>2. /\ Floor(b, P) = P * (b \div P) /\ b \div P \in Nat
      /\ Floor(b, P) <= b /\ b < Floor(b, P) + P /\ Floor(b, P) \in Nat
  BY FloorFacts
<1>3. ~(b \div P < a \div P)
  <2> SUFFICES ASSUME b \div P < a \div P PROVE FALSE
    OBVIOUS
  <2>1. P * (b \div P) + P <= P * (a \div P)
    BY <1>1, <1>2, Multiples
  <2> QED BY <1>1, <1>2, <2>1
<1>4. a \div P = b \div P \/ a \div P < b \div P
  BY <1>1, <1>2, <1>3
<1>5. CASE a \div P < b \div P
  BY <1>1, <1>2, <1>5, Multiples
<1> QED BY <1>1, <1>2, <1>4, <1>5

\* A page begins at the multiple of Page at or below its addresses.
LEMMA PageFacts ==
  ASSUME NEW a \in Nat
  PROVE  /\ PageOf(a) = Page * (a \div Page) /\ a \div Page \in Nat /\ PageOf(a) \in Nat
         /\ PageOf(a) <= a /\ a < PageOf(a) + Page /\ PageOf(a) % Page = 0
BY SizesAssumption, FloorFacts DEF PageOf, Floor

LEMMA PagesAreOrdered ==
  ASSUME NEW a \in Nat, NEW b \in Nat, a <= b
  PROVE  PageOf(a) <= PageOf(b)
<1>1. Floor(a, Page) <= Floor(b, Page)
  BY SizesAssumption, FloorsAreOrdered
<1> QED BY <1>1 DEF PageOf, Floor

\* A page that begins in a range is the page of an address in it.
LEMMA PageIsItsOwn ==
  ASSUME NEW p \in Nat, p % Page = 0
  PROVE  PageOf(p) = p
BY SizesAssumption DEF PageOf

\* Two pages that begin less than a page apart are one.
LEMMA PagesDoNotOverlap ==
  ASSUME NEW p \in Nat, NEW a \in Nat, p % Page = 0, PageOf(a) <= p, p <= a
  PROVE  p = PageOf(a)
<1>1. PageOf(p) = p /\ PageOf(p) <= PageOf(a)
  BY PageIsItsOwn, PagesAreOrdered
<1> QED BY <1>1, PageFacts

-----------------------------------------------------------------------------
(* What a call marks, and what it names *)

LEMMA BackendFacts ==
  ASSUME machine \in Machines
  PROVE  /\ backend \in {"sail", "bochs", "kvm", "whp"}
         /\ Hardware <=> backend \in {"kvm", "whp"}
BY InputsAssumption DEF backend, Hardware

\* On the hardware backends an address marks the page it is in.
LEMMA HardwareUnit ==
  ASSUME Hardware, NEW a
  PROVE  Unit(a) = PageOf(a)
BY DEF Hardware, Unit

\* The loop of write_mem ends one page late when the data end on a page boundary, and
\* does not begin when the address after the data overflows; a page is marked for every
\* byte named in between, and no other.
LEMMA HardwareMarks ==
  ASSUME Hardware, NEW a \in 0..(AddrSpace - 1), NEW len \in Nat, 2 * len <= AddrSpace
  PROVE  /\ \A x \in Named(a, len) : Unit(x) \in Marked(a, len)
         /\ \A u \in Marked(a, len) : \E x \in Named(a, len) : Unit(x) = u \/ Unit(x) + Page = u
<1>1. /\ Page \in Nat \ {0} /\ AddrSpace \in Nat /\ 2 * Page <= AddrSpace
      /\ a \in Nat /\ a < AddrSpace /\ a + len \in Nat
  BY SizesAssumption
<1>2. Marked(a, len) = {p \in PageOf(a)..PageOf((a + len) % AddrSpace) : p % Page = 0}
  BY DEF Marked
<1>3. CASE a + len >= AddrSpace
  <2>1. (a + len) % AddrSpace = a + len - AddrSpace
    <3>1. a + len - AddrSpace \in 0..(AddrSpace - 1)
      BY <1>1, <1>3
    <3> QED BY <1>1, <3>1
  <2>2. a + len - AddrSpace \in Nat /\ PageOf(a + len - AddrSpace) <= a + len - AddrSpace
    BY <1>1, <1>3, PageFacts
  <2>3. PageOf(a) \in Nat /\ a < PageOf(a) + Page
    BY <1>1, PageFacts
  <2>4. PageOf(a + len - AddrSpace) < PageOf(a)
    <3>1. PageOf(a + len - AddrSpace) \in Nat
      BY <2>2, PageFacts
    <3> QED BY <1>1, <2>2, <2>3, <3>1
  <2>5. PageOf(a)..PageOf(a + len - AddrSpace) = {}
    <3>1. PageOf(a + len - AddrSpace) \in Nat
      BY <2>2, PageFacts
    <3> QED BY <2>3, <2>4, <3>1
  <2>6. Marked(a, len) = {}
    BY <1>2, <2>1, <2>5
  <2>7. Named(a, len) = {}
    BY <1>3 DEF Named
  <2> QED BY <2>6, <2>7
<1>4. CASE a + len < AddrSpace
  <2>1. (a + len) % AddrSpace = a + len
    BY <1>1, <1>4
  <2>2. Named(a, len) = {a} \cup (a..(a + len - 1))
    BY <1>1, <1>4 DEF Named
  <2>3. ASSUME NEW x \in Named(a, len) PROVE Unit(x) \in Marked(a, len)
    <3>1. x \in Nat /\ a <= x /\ x <= a + len
      BY <1>1, <2>2, <2>3
    <3>2. PageOf(a) <= PageOf(x) /\ PageOf(x) <= PageOf(a + len)
      BY <1>1, <3>1, PagesAreOrdered
    <3>3. PageOf(x) \in Nat /\ PageOf(x) % Page = 0 /\ PageOf(a) \in Nat /\ PageOf(a + len) \in Nat
      BY <1>1, <3>1, PageFacts
    <3>4. Unit(x) = PageOf(x)
      BY HardwareUnit
    <3> QED BY <1>2, <2>1, <3>2, <3>3, <3>4
  <2>4. ASSUME NEW u \in Marked(a, len)
        PROVE  \E x \in Named(a, len) : Unit(x) = u \/ Unit(x) + Page = u
    <3>1. /\ PageOf(a) \in Nat /\ PageOf(a) <= a
          /\ PageOf(a + len) \in Nat /\ PageOf(a + len) <= a + len
      BY <1>1, PageFacts
    <3>2. u \in Nat /\ u % Page = 0 /\ PageOf(a) <= u /\ u <= a + len
      BY <1>1, <1>2, <2>1, <2>4, <3>1
    <3>3. PageOf(u) = u
      BY <3>2, PageIsItsOwn
    <3>4. CASE u <= a
      <4>1. u = PageOf(a)
        BY <1>1, <3>2, <3>4, PagesDoNotOverlap
      <4>2. a \in Named(a, len) /\ Unit(a) = u
        BY <2>2, <4>1, HardwareUnit
      <4> QED BY <4>2
    <3>5. CASE a < u /\ u < a + len
      <4>1. u \in Named(a, len) /\ Unit(u) = u
        BY <1>1, <2>2, <3>2, <3>3, <3>5, HardwareUnit
      <4> QED BY <4>1
    <3>6. CASE a < u /\ u = a + len
      <4>1. u - 1 \in Nat /\ u - 1 \in Named(a, len)
        BY <1>1, <2>2, <3>2, <3>6
      <4>2. PageOf(u - 1) + Page = u
        <5>1. /\ PageOf(u - 1) \in Nat /\ PageOf(u - 1) <= u - 1 /\ u - 1 < PageOf(u - 1) + Page
              /\ PageOf(u - 1) = Page * ((u - 1) \div Page) /\ (u - 1) \div Page \in Nat
          BY <4>1, PageFacts
        <5>2. PageOf(u) = Page * (u \div Page) /\ u \div Page \in Nat
          BY <3>2, PageFacts
        <5>3. (u - 1) \div Page < u \div Page
          <6> SUFFICES ASSUME ~((u - 1) \div Page < u \div Page) PROVE FALSE
            OBVIOUS
          <6>1. u \div Page = (u - 1) \div Page \/ u \div Page < (u - 1) \div Page
            BY <5>1, <5>2
          <6>2. CASE u \div Page < (u - 1) \div Page
            BY <1>1, <3>2, <3>3, <5>1, <5>2, <6>2, Multiples
          <6> QED BY <3>2, <3>3, <5>1, <5>2, <6>1, <6>2
        <5>4. Page * ((u - 1) \div Page) + Page <= Page * (u \div Page)
          BY <1>1, <5>1, <5>2, <5>3, Multiples
        <5> QED BY <1>1, <3>2, <3>3, <5>1, <5>2, <5>4
      <4>3. Unit(u - 1) = PageOf(u - 1)
        BY HardwareUnit
      <4> QED BY <4>1, <4>2, <4>3
    <3> QED BY <1>1, <3>2, <3>4, <3>5, <3>6
  <2> QED BY <2>3, <2>4
<1> QED BY <1>1, <1>3, <1>4

\* Every backend: write_mem marks what it names.
LEMMA MarksAreNamed ==
  ASSUME machine \in Machines, NEW a, NEW len \in Nat,
         Hardware => a \in 0..(AddrSpace - 1) /\ 2 * len <= AddrSpace
  PROVE  /\ \A x \in Named(a, len) : Unit(x) \in Marked(a, len)
         /\ \A u \in Marked(a, len) :
              \E x \in Named(a, len) : Unit(x) = u \/ (Hardware /\ Unit(x) + Page = u)
<1>1. CASE Hardware
  BY <1>1, HardwareMarks
<1>2. CASE ~Hardware
  <2>1. /\ Named(a, len) = {(a + i) % AddrSpace : i \in 0..(len - 1)}
        /\ Marked(a, len) = {Unit((a + i) % AddrSpace) : i \in 0..(len - 1)}
    BY <1>2 DEF Named, Marked
  <2> QED BY <2>1
<1> QED BY <1>1, <1>2

\* A call that visibly writes W, loads from L and marks T, and marks right.
Marks(W, T, L) ==
  /\ UNCHANGED machine
  /\ Visible' = Visible \cup W /\ touched' = touched \cup T /\ loaded' = loaded \cup L
  /\ \A a \in W : Unit(a) \in T
  /\ \A u \in T : \/ \E a \in W : Unit(a) = u \/ (Hardware /\ Unit(a) + Page = u)
                  \/ u \in L

LEMMA MarksKeep ==
  ASSUME AInv, NEW W, NEW T, NEW L, Marks(W, T, L)
  PROVE  MappedTracksWrites'
<1> USE DEF Marks
<1>1. Hardware' = Hardware /\ (\A a : Unit(a)' = Unit(a)) /\ backend' = backend
  BY DEF Hardware, Unit, backend
<1>2. /\ \A a \in Visible : Unit(a) \in touched
      /\ \A u \in touched :
           \/ \E a \in Visible : Unit(a) = u \/ (Hardware /\ Unit(a) + Page = u)
           \/ u \in loaded
           \/ backend = "bochs" /\ \E p \in PtBase..(PtBase + PtBytes - 1) : PageOf(p) = u
  BY DEF AInv, MappedTracksWrites
<1> HIDE DEF Hardware, backend
<1>3. \A a \in Visible' : Unit(a) \in touched'
  BY <1>2
<1>4. ASSUME NEW u \in touched'
      PROVE  \/ \E a \in Visible' : Unit(a) = u \/ (Hardware /\ Unit(a) + Page = u)
             \/ u \in loaded'
             \/ backend = "bochs" /\ \E p \in PtBase..(PtBase + PtBytes - 1) : PageOf(p) = u
  <2>1. CASE u \in touched
    BY <1>2, <2>1
  <2>2. CASE u \in T
    BY <2>2
  <2> QED BY <1>4, <2>1, <2>2
<1> QED BY <1>1, <1>3, <1>4 DEF MappedTracksWrites

\* A call that leaves memory alone.
LEMMA MemoryKeeps ==
  ASSUME AInv, UNCHANGED <<machine, written, stored, touched, loaded>>
  PROVE  MappedTracksWrites'
<1>1. Marks({}, {}, {})
  BY DEF Marks, Visible, Hardware, backend
<1> QED BY <1>1, MarksKeep

\* On the hardware backends nothing but RIP is kept where RIP is, and it is kept as it is.
LEMMA RipSlot ==
  ASSUME Hardware, machine \in Machines, NEW c
  PROVE  /\ RIP \in SetSlots(backend, c) <=> c = RIP
         /\ GetSlots(backend, RIP) = {RIP}
         /\ \A v : Stored(backend, RIP, v) = v
<1>1. backend = "kvm" \/ backend = "whp"
  BY BackendFacts
<1>2. RIP \in KvmSlot(c) => c = RIP
  BY DEF KvmSlot, RIP
<1>3. RIP \in WhpSlot(c) => c = RIP
  BY DEF WhpSlot, RIP
<1>4. KvmSlot(RIP) = {RIP} /\ WhpSlot(RIP) = {RIP}
  BY DEF KvmSlot, WhpSlot, RIP
<1>5. \A d : SetSlots("kvm", d) = KvmSlot(d) /\ SetSlots("whp", d) = WhpSlot(d)
  BY DEF SetSlots
<1>6. GetSlots(backend, RIP) = SetSlots(backend, RIP)
  BY <1>1 DEF GetSlots
<1>7. \A v : Stored(backend, RIP, v) = v
  BY <1>1 DEF Stored, RIP, RFLAGS, CR0
<1> QED BY <1>1, <1>2, <1>3, <1>4, <1>5, <1>6, <1>7

LEMMA GetRip ==
  ASSUME AInv, Hardware
  PROVE  Get(RIP) = slots[RIP]
<1>1. GetSlots(backend, RIP) = {RIP} /\ RIP # RFLAGS
  BY RipSlot DEF AInv, RIP, RFLAGS
<1>2. (CHOOSE name \in {RIP} : TRUE) = RIP
  OBVIOUS
<1> HIDE DEF RIP, RFLAGS, GetSlots, backend
<1> QED BY <1>1, <1>2 DEF Get

-----------------------------------------------------------------------------
(* The calls *)

LEMMA SetCellKeeps ==
  ASSUME AInv, NEW w \in machine.inputs.cells, SetCell(w[1], w[2])
  PROVE  AInv'
<1>1. /\ UNCHANGED <<machine, written, stored, touched, loaded, saved>>
      /\ slots' = Put(slots, w[1], w[2]) \/ slots' = slots
  BY DEF SetCell, Call, fixed, memory
<1>2. MappedTracksWrites'
  BY <1>1, MemoryKeeps
<1>3. RIP \in DOMAIN slots'
  BY <1>1 DEF AInv, Put
<1>4. CASE Hardware
  <2>1. w[1] = RIP => w[2] \in 0..(AddrSpace - 1)
    BY InputsAssumption DEF AInv, RIP
  <2>2. Put(slots, w[1], w[2])[RIP] = IF w[1] = RIP THEN w[2] ELSE slots[RIP]
    BY <1>4, RipSlot DEF AInv, Put
  <2>3. slots'[RIP] \in 0..(AddrSpace - 1)
    BY <1>1, <1>4, <2>1, <2>2 DEF AInv, RipsAreAddresses
  <2>4. RipsAreAddresses'
    BY <1>1, <1>4, <2>3 DEF AInv, RipsAreAddresses, RIP
  <2> QED BY <1>1, <1>2, <1>3, <2>4 DEF AInv, RIP
<1>5. CASE ~Hardware
  <2>1. ~Hardware'
    BY <1>1, <1>5 DEF Hardware, backend
  <2> QED BY <1>1, <1>2, <1>3, <2>1 DEF AInv, RipsAreAddresses, RIP
<1> QED BY <1>4, <1>5

\* What keeps the registers and the snapshots keeps the invariant, if is_mapped stays right.
LEMMA RegistersKept ==
  ASSUME AInv, UNCHANGED <<machine, slots, saved>>, MappedTracksWrites'
  PROVE  AInv'
BY DEF AInv, RipsAreAddresses, Hardware, backend, RIP

LEMMA SetZmmKeeps ==
  ASSUME AInv, NEW n, NEW data, SetZmm(n, data)
  PROVE  AInv'
<1>1. UNCHANGED <<machine, written, stored, touched, loaded, slots, saved>>
  BY DEF SetZmm, Call, fixed, memory
<1> QED BY <1>1, MemoryKeeps, RegistersKept

LEMMA WriteMemKeeps ==
  ASSUME AInv, NEW w \in machine.inputs.mem, WriteMem(w[1], w[2]) \/ WriteMemByte(w[1], w[2])
  PROVE  AInv'
<1>1. UNCHANGED <<machine, slots, saved, stored, loaded>>
  BY DEF WriteMem, WriteMemByte, Call, fixed
<1>2. /\ w[1] \in 0..(AddrSpace - 1)
      /\ Len(w[2]) \in Nat /\ 2 * Len(w[2]) <= AddrSpace
  BY InputsAssumption DEF AInv
<1>3. UNCHANGED machine /\ loaded' = loaded \cup {}
  BY <1>1
<1>4. ASSUME NEW W, written' = written \cup W PROVE Visible' = Visible \cup W
  BY <1>1, <1>4 DEF Visible, Hardware, backend
<1>5. MappedTracksWrites'
  <2>1. CASE WriteMem(w[1], w[2])
    <3>1. /\ written' = written \cup Named(w[1], Len(w[2]))
          /\ touched' = touched \cup Marked(w[1], Len(w[2]))
      BY <2>1 DEF WriteMem
    <3>2. /\ \A x \in Named(w[1], Len(w[2])) : Unit(x) \in Marked(w[1], Len(w[2]))
          /\ \A u \in Marked(w[1], Len(w[2])) :
               \E x \in Named(w[1], Len(w[2])) : Unit(x) = u \/ (Hardware /\ Unit(x) + Page = u)
      <4>1. machine \in Machines
        BY DEF AInv
      <4> QED BY <1>2, <4>1, MarksAreNamed
    <3> HIDE DEF Named, Marked, Unit, Hardware
    <3>3. Marks(Named(w[1], Len(w[2])), Marked(w[1], Len(w[2])), {})
      BY <1>3, <1>4, <3>1, <3>2 DEF Marks
    <3> QED BY <3>3, MarksKeep
  <2>2. CASE WriteMemByte(w[1], w[2])
    <3>1. written' = written \cup {w[1]} /\ touched' = touched \cup {Unit(w[1])}
      BY <2>2 DEF WriteMemByte
    <3>2. Marks({w[1]}, {Unit(w[1])}, {})
      BY <1>3, <1>4, <3>1 DEF Marks
    <3> QED BY <3>2, MarksKeep
  <2> QED BY <2>1, <2>2
<1> QED BY <1>1, <1>5, RegistersKept

LEMMA SnapshotKeeps ==
  ASSUME AInv, Snapshot
  PROVE  AInv'
<1>1. UNCHANGED <<machine, written, stored, touched, loaded, slots>>
  BY DEF Snapshot, Call, fixed, memory
<1> DEFINE names == {d \in Cells : d[1] \in {"gpr", "rip", "rflags"}}
           s == [regs |-> [c \in names |-> Get(c)], zmm |-> Zmms]
<1>2. saved' = saved \cup {s} /\ s.regs = [c \in names |-> Get(c)]
  BY DEF Snapshot
<1> HIDE DEF names, s
<1>3. Hardware /\ RIP \in DOMAIN s.regs => s.regs[RIP] = slots[RIP]
  BY <1>2, GetRip
<1>4. RipsAreAddresses'
  BY <1>1, <1>2, <1>3 DEF AInv, RipsAreAddresses, Hardware, backend, RIP
<1> QED BY <1>1, <1>4, MemoryKeeps DEF AInv, RIP

LEMMA RestoreKeeps ==
  ASSUME AInv, NEW s \in saved, Restore(s)
  PROVE  AInv'
<1>1. UNCHANGED <<machine, written, stored, touched, loaded, saved>> /\ slots' = Restored(s.regs)
  BY DEF Restore, Call, fixed, memory
<1>2. RIP \in DOMAIN slots'
  BY <1>1 DEF AInv, Restored
<1>3. CASE Hardware
  <2>1. CASE \E c \in DOMAIN s.regs : RIP \in SetSlots(backend, c)
    <3>1. PICK c \in DOMAIN s.regs : c = (CHOOSE d \in DOMAIN s.regs : RIP \in SetSlots(backend, d))
                                     /\ RIP \in SetSlots(backend, c)
      BY <2>1
    <3>2. c = RIP
      BY <1>3, <3>1, RipSlot DEF AInv
    <3>3. slots'[RIP] = Stored(backend, c, s.regs[c])
      BY <1>1, <2>1, <3>1 DEF AInv, Restored
    <3>4. slots'[RIP] = s.regs[RIP]
      BY <1>3, <3>2, <3>3, RipSlot DEF AInv
    <3> QED BY <1>1, <1>2, <1>3, <3>1, <3>2, <3>4, MemoryKeeps DEF AInv, RipsAreAddresses, Hardware, backend, RIP
  <2>2. CASE ~\E c \in DOMAIN s.regs : RIP \in SetSlots(backend, c)
    <3>1. slots'[RIP] = slots[RIP]
      BY <1>1, <2>2 DEF AInv, Restored
    <3> QED BY <1>1, <1>2, <1>3, <3>1, MemoryKeeps DEF AInv, RipsAreAddresses, Hardware, backend, RIP
  <2> QED BY <2>1, <2>2
<1>4. CASE ~Hardware
  BY <1>1, <1>2, <1>4, MemoryKeeps DEF AInv, RipsAreAddresses, Hardware, backend, RIP
<1> QED BY <1>3, <1>4

LEMMA EnableShadowStackKeeps ==
  ASSUME AInv, NEW base, NEW len, EnableShadowStack(base, len)
  PROVE  AInv'
<1>1. UNCHANGED <<machine, written, stored, touched, loaded, saved>>
  BY DEF EnableShadowStack, Call, fixed, memory
<1>2. DOMAIN slots' = DOMAIN slots /\ (Hardware => slots' = slots)
  <2>1. Hardware => backend # "bochs"
    BY DEF Hardware
  <2> QED BY <2>1 DEF EnableShadowStack
<1> QED BY <1>1, <1>2, MemoryKeeps DEF AInv, RipsAreAddresses, Hardware, backend, RIP

\* step_bytes marks the byte at RIP like a write, and what the instruction touches.
LEMMA StepBytesKeeps ==
  ASSUME AInv, NEW op, NEW a, StepBytes(op, a)
  PROVE  AInv'
<1> DEFINE rip == Get(RIP)
           fetched == rip < GuestLimit
           stores == op = "store" /\ StorePermitted(a)
           guest == {x \in {a} : fetched /\ stores}
           tracked == {x \in guest : ~Hardware}
           loads == {x \in {a} : fetched /\ op = "load" /\ backend = "bochs"}
<1>1. UNCHANGED <<machine, saved>>
  BY DEF StepBytes, Call, fixed
<1>2. /\ touched' = touched \cup Marked(rip, 1) \cup {Unit(x) : x \in tracked \cup loads}
      /\ written' = written \cup Named(rip, 1) /\ stored' = stored \cup guest
      /\ loaded' = loaded \cup {Unit(x) : x \in loads}
  BY DEF StepBytes
<1>3. \/ slots' = slots
      \/ fetched /\ \E f : slots' = [slots EXCEPT ![RIP] = @ + 1, ![RFLAGS] = @ \cup f]
  BY DEF StepBytes
<1> HIDE DEF guest, loads, stores
<1>4. Visible' = Visible \cup (Named(rip, 1) \cup tracked)
  BY <1>1, <1>2 DEF Visible, Hardware, backend
<1> HIDE DEF tracked
<1>5. Hardware => rip \in 0..(AddrSpace - 1) /\ rip = slots[RIP]
  BY GetRip DEF AInv, RipsAreAddresses
<1>6. MappedTracksWrites'
  <2>1. 2 * 1 <= AddrSpace
    BY SizesAssumption
  <2>2. machine \in Machines
    BY DEF AInv
  <2> HIDE DEF rip
  <2>3. /\ \A x \in Named(rip, 1) : Unit(x) \in Marked(rip, 1)
        /\ \A u \in Marked(rip, 1) :
             \E x \in Named(rip, 1) : Unit(x) = u \/ (Hardware /\ Unit(x) + Page = u)
    BY <1>5, <2>1, <2>2, MarksAreNamed
  <2> HIDE DEF Named, Marked, Unit, Hardware
  <2>4. Marks(Named(rip, 1) \cup tracked, Marked(rip, 1) \cup {Unit(x) : x \in tracked \cup loads},
              {Unit(x) : x \in loads})
    BY <1>1, <1>2, <1>4, <2>3 DEF Marks
  <2> QED BY <2>4, MarksKeep
<1>7. DOMAIN slots' = DOMAIN slots
  BY <1>3
<1>8. CASE Hardware
  <2>1. fetched => rip + 1 \in 0..(AddrSpace - 1)
    <3>1. GuestLimit = Ram
      BY <1>8 DEF GuestLimit, Hardware
    <3> QED BY <1>5, <1>8, <3>1, SizesAssumption
  <2>2. slots'[RIP] \in 0..(AddrSpace - 1)
    <3>1. RIP # RFLAGS
      BY DEF RIP, RFLAGS
    <3>2. \A f : [slots EXCEPT ![RIP] = @ + 1, ![RFLAGS] = @ \cup f][RIP] = slots[RIP] + 1
      BY <3>1 DEF AInv
    <3> QED BY <1>3, <1>5, <1>8, <2>1, <3>2
  <2>3. RipsAreAddresses'
    BY <1>1, <2>2, <1>8 DEF AInv, RipsAreAddresses, Hardware, backend, RIP
  <2> QED BY <1>1, <1>6, <1>7, <2>3 DEF AInv, RIP
<1>9. CASE ~Hardware
  BY <1>1, <1>6, <1>7, <1>9 DEF AInv, RipsAreAddresses, Hardware, backend, RIP
<1> QED BY <1>8, <1>9

-----------------------------------------------------------------------------
(* The invariant *)

LEMMA AInit == Init => AInv
<1> SUFFICES ASSUME Init PROVE AInv
  OBVIOUS
<1>1. machine \in Machines /\ Visible = {} /\ loaded = {}
  BY DEF Init, Visible
<1>2. MappedTracksWrites
  <2>1. touched = IF backend = "bochs" THEN {PageOf(p) : p \in PtBase..(PtBase + PtBytes - 1)} ELSE {}
    BY DEF Init
  <2> QED BY <1>1, <2>1 DEF MappedTracksWrites
<1>3. RIP \in DOMAIN slots /\ (Hardware => slots[RIP] = 0)
  <2>1. RIP \in Supported /\ ArchSlot(RIP) = RIP
    BY InputsAssumption DEF Supported, LeftOut, ArchSlot, RIP
  <2>2. slots = [name \in {ArchSlot(c) : c \in Supported}
                           \cup (UNION {SetSlots(backend, c) : c \in Cells}) |->
                   IF \E c \in Supported : ArchSlot(c) = name
                   THEN ResetValue(CHOOSE c \in Supported : ArchSlot(c) = name) ELSE 0]
    BY DEF Init
  <2>3. \A c \in Supported : ArchSlot(c) = RIP => c = RIP
    BY DEF ArchSlot, RIP
  <2>4. ResetValue(RIP) = 0
    BY DEF ResetValue, RIP, RFLAGS, CR0
  <2>5. (CHOOSE c \in Supported : ArchSlot(c) = RIP) = RIP
    BY <2>1, <2>3
  <2> HIDE DEF RIP, Supported, ArchSlot, ResetValue, SetSlots
  <2> QED BY <2>1, <2>2, <2>4, <2>5
<1>4. \A s \in saved : RIP \in DOMAIN s.regs => s.regs[RIP] = 0
  <2>1. saved = {[regs |-> [c \in {d \in Cells : d[1] \in {"gpr", "rip", "rflags"}} |->
                             IF c = RFLAGS THEN {} ELSE 0],
                  zmm |-> Blank]}
    BY DEF Init
  <2>2. RIP # RFLAGS
    BY DEF RIP, RFLAGS
  <2> HIDE DEF RIP, RFLAGS
  <2> QED BY <2>1, <2>2
<1>5. 0 \in 0..(AddrSpace - 1)
  BY SizesAssumption
<1> QED BY <1>1, <1>2, <1>3, <1>4, <1>5 DEF AInv, RipsAreAddresses

LEMMA AStep == AInv /\ [Next]_vars => AInv'
<1> SUFFICES ASSUME AInv, [Next]_vars PROVE AInv'
  OBVIOUS
<1>1. CASE UNCHANGED vars
  <2>1. UNCHANGED <<machine, slots, saved, written, stored, touched, loaded>>
    BY <1>1 DEF vars, fixed, memory
  <2> QED BY <2>1, MemoryKeeps, RegistersKept
<1>2. CASE \E w \in machine.inputs.cells : SetCell(w[1], w[2])
  BY <1>2, SetCellKeeps
<1>3. CASE \E n \in VecRegs, data \in machine.inputs.zmm : SetZmm(n, data)
  BY <1>3, SetZmmKeeps
<1>4. CASE \E w \in machine.inputs.mem : WriteMem(w[1], w[2]) \/ WriteMemByte(w[1], w[2])
  BY <1>4, WriteMemKeeps
<1>5. CASE Snapshot
  BY <1>5, SnapshotKeeps
<1>6. CASE \E s \in saved : Restore(s)
  BY <1>6, RestoreKeeps
<1>7. CASE \E r \in machine.inputs.shadow : EnableShadowStack(r[1], r[2])
  BY <1>7, EnableShadowStackKeeps
<1>8. CASE \E o \in machine.inputs.ops : StepBytes(o[1], o[2])
  BY <1>8, StepBytesKeeps
<1> QED BY <1>1, <1>2, <1>3, <1>4, <1>5, <1>6, <1>7, <1>8 DEF Next

\* is_mapped tells memory that the caller wrote or, on Sail and Bochs, the program stored
\* to from memory that neither did, to within its pages or blocks, whatever the sizes and
\* however the calls are mixed: even where the data of a write end at a page, or at the
\* end of the address space.  Of the program's stores on KVM and WHP it says nothing, as
\* is_mapped does not see them.
THEOREM IsMappedIsRight == Spec => []MappedTracksWrites
<1>1. AInv => MappedTracksWrites
  BY DEF AInv
<1> QED BY <1>1, AInit, AStep, PTL DEF Spec

-----------------------------------------------------------------------------
(* Bochs' page tables *)

FramesOfTables == {FrameOf(p) : p \in PtBase..(PtBase + PtBytes - 1)}

\* A range is refused when one of its frames is one of the tables': map_shadow_stack
\* compares the first and last frames of both.
LEMMA TablesAreRefused ==
  ASSUME NEW base \in Nat, NEW len \in Nat
  PROVE  map_shadow_stack(base, len) \cap FramesOfTables = {}
<1> SUFFICES ASSUME NEW p \in PtBase..(PtBase + PtBytes - 1), FrameOf(p) \in map_shadow_stack(base, len)
             PROVE  FALSE
  BY DEF FramesOfTables
<1> DEFINE first == FrameOf(base)
           last == FrameOf(base + len - 1) + Frame - 1
           pt_first == FrameOf(PtBase)
           pt_last == FrameOf(PtBase + PtBytes - 1) + Frame - 1
<1>1. Frame \in Nat \ {0} /\ PtBase \in Nat /\ PtBytes \in Nat /\ p \in Nat
      /\ PtBase <= p /\ p <= PtBase + PtBytes - 1 /\ PtBase + PtBytes - 1 \in Nat
  BY SizesAssumption
<1>2. len # 0 /\ ~(first <= pt_last /\ pt_first <= last) /\ FrameOf(p) \in first..last
  BY DEF map_shadow_stack
<1>3. \A a \in Nat : FrameOf(a) = Floor(a, Frame)
  BY DEF FrameOf, Floor
<1>4. FrameOf(p) \in Nat /\ FrameOf(p) <= p /\ p < FrameOf(p) + Frame
  BY <1>1, <1>3, FloorFacts
<1>5. pt_first \in Nat /\ pt_first <= FrameOf(p)
  BY <1>1, <1>3, FloorFacts, FloorsAreOrdered
<1>6. FrameOf(PtBase + PtBytes - 1) \in Nat /\ FrameOf(p) <= FrameOf(PtBase + PtBytes - 1)
  BY <1>1, <1>3, FloorFacts, FloorsAreOrdered
<1>7. base + len - 1 \in Nat
  BY <1>2
<1>8. first \in Nat /\ FrameOf(base + len - 1) \in Nat
  BY <1>1, <1>3, <1>7, FloorFacts
<1> QED BY <1>1, <1>2, <1>4, <1>5, <1>6, <1>8

TablesStayWritable == machine \in Machines /\ pdeShadow \cap FramesOfTables = {}

LEMMA TablesStep == TablesStayWritable /\ [Next]_vars => TablesStayWritable'
<1> SUFFICES ASSUME TablesStayWritable, [Next]_vars PROVE TablesStayWritable'
  OBVIOUS
<1>1. UNCHANGED machine
  BY DEF Next, vars, fixed, SetCell, SetZmm, WriteMem, WriteMemByte, Snapshot, Restore,
         EnableShadowStack, StepBytes, Call
<1>2. CASE UNCHANGED pdeShadow
  BY <1>1, <1>2 DEF TablesStayWritable, FramesOfTables
<1>3. CASE \E r \in machine.inputs.shadow : EnableShadowStack(r[1], r[2])
  <2>1. PICK r \in machine.inputs.shadow : EnableShadowStack(r[1], r[2])
    BY <1>3
  <2>2. r[1] \in Nat /\ r[2] \in Nat
    BY InputsAssumption DEF TablesStayWritable
  <2>3. pdeShadow' = pdeShadow \/ pdeShadow' = pdeShadow \cup map_shadow_stack(r[1], r[2])
    BY <2>1 DEF EnableShadowStack, paging
  <2> QED BY <1>1, <2>2, <2>3, TablesAreRefused DEF TablesStayWritable, FramesOfTables
<1>4. UNCHANGED pdeShadow \/ \E r \in machine.inputs.shadow : EnableShadowStack(r[1], r[2])
  BY DEF Next, vars, paging, SetCell, SetZmm, WriteMem, WriteMemByte, Snapshot, Restore, StepBytes
<1> QED BY <1>2, <1>3, <1>4

\* No call to enable_shadow_stack makes a frame of Bochs' own page tables read-only,
\* whatever its range.
THEOREM TablesAreWritable == Spec => []TablesStayWritable
<1>1. Init => TablesStayWritable
  BY DEF Init, TablesStayWritable
<1> QED BY <1>1, TablesStep, PTL DEF Spec

-----------------------------------------------------------------------------
(* Shadow stacks *)

\* While armed: WP is on, and the TLB lets the program write no page of a shadow stack.
Protected ==
  armed => /\ slots[CR0] % 2 = 1
           /\ \A a \in Nat : PageOf(a) \in dtlb => FrameOf(a) \notin pdeShadow

\* Bochs alone arms them; their frames are frames; a snapshot has no control register.
CetInv ==
  /\ machine \in Machines
  /\ armed \in BOOLEAN /\ (armed => backend = "bochs")
  /\ backend = "bochs" => CR0 \in DOMAIN slots /\ slots[CR0] \in Nat
  /\ \A f \in pdeShadow : f \in Nat /\ f % Frame = 0
  /\ \A s \in saved : CR0 \notin DOMAIN s.regs
  /\ Protected

\* A page lies in one frame.
LEMMA PagesLieInFrames ==
  ASSUME NEW a \in Nat, NEW b \in Nat, PageOf(a) = PageOf(b)
  PROVE  FrameOf(a) = FrameOf(b)
<1>1. Page \in Nat \ {0} /\ Frame \in Nat \ {0} /\ Frame % Page = 0
  BY SizesAssumption
<1>2. \A x \in Nat : FrameOf(x) = Floor(x, Frame) /\ PageOf(x) = Floor(x, Page)
  BY DEF FrameOf, PageOf, Floor
<1> DEFINE k == Frame \div Page
<1>3. Frame = Page * k /\ k \in Nat
  <2>1. Frame \in Nat
    BY <1>1
  <2>2. Frame = Page * k + (Frame % Page) /\ k \in Nat
    BY <1>1, <2>1, Division
  <2>3. Page * k \in Nat
    BY <1>1, <2>2
  <2> QED BY <1>1, <2>2, <2>3
<1> HIDE DEF k
<1>4. ASSUME NEW x \in Nat PROVE FrameOf(PageOf(x)) = FrameOf(x)
  <2> DEFINE m == x \div Frame
             q == x \div Page
  <2>1. /\ m \in Nat /\ FrameOf(x) = Frame * m /\ Frame * m \in Nat /\ Frame * m <= x
        /\ x < Frame * m + Frame
    BY <1>1, <1>2, FloorFacts
  <2>2. /\ q \in Nat /\ PageOf(x) = Page * q /\ Page * q \in Nat /\ Page * q <= x
        /\ x < Page * q + Page
    BY <1>1, <1>2, FloorFacts
  <2> HIDE DEF m, q
  <2>3. Frame * m = Page * (k * m) /\ k * m \in Nat
    BY <1>1, <1>3, <2>1
  <2>4. ~(q < k * m)
    <3> SUFFICES ASSUME q < k * m PROVE FALSE
      OBVIOUS
    <3>1. Page * q + Page <= Page * (k * m)
      BY <1>1, <2>2, <2>3, Multiples
    <3> QED BY <1>1, <2>1, <2>2, <2>3, <3>1
  <2>5. Frame * m <= Page * q
    <3>1. q = k * m \/ k * m < q
      BY <2>2, <2>3, <2>4
    <3>2. CASE k * m < q
      <4>1. Page * (k * m) + Page <= Page * q
        BY <1>1, <2>2, <2>3, <3>2, Multiples
      <4> QED BY <1>1, <2>1, <2>2, <2>3, <4>1
    <3> QED BY <2>1, <2>3, <3>1, <3>2
  <2>6. Floor(Page * q, Frame) <= Floor(x, Frame)
    BY <1>1, <2>2, FloorsAreOrdered
  <2>7. Floor(Frame * m, Frame) <= Floor(Page * q, Frame)
    BY <1>1, <2>1, <2>2, <2>5, FloorsAreOrdered
  <2>8. Floor(Frame * m, Frame) = Frame * m
    <3>1. (Frame * m) % Frame = 0
      BY <1>1, <2>1, MultipleHasNoRest
    <3> QED BY <2>1, <3>1 DEF Floor
  <2>9. Floor(Page * q, Frame) \in Nat
    BY <1>1, <2>2, FloorFacts
  <2> QED BY <1>2, <2>1, <2>2, <2>6, <2>7, <2>8, <2>9
<1> QED BY <1>4

\* The addresses of a frame.
LEMMA FrameIsItsOwn ==
  ASSUME NEW f \in Nat, f % Frame = 0, NEW a \in f..(f + Frame - 1)
  PROVE  a \in Nat /\ FrameOf(a) = f
<1>1. Frame \in Nat \ {0} /\ a \in Nat /\ f <= a /\ a < f + Frame
  BY SizesAssumption
<1>2. /\ FrameOf(a) = Frame * (a \div Frame) /\ a \div Frame \in Nat /\ FrameOf(a) \in Nat
      /\ FrameOf(a) <= a /\ a < FrameOf(a) + Frame
  BY <1>1, FloorFacts DEF FrameOf, Floor
<1>3. f = Frame * (f \div Frame) /\ f \div Frame \in Nat
  BY <1>1, Division
<1>4. ~(f \div Frame < a \div Frame)
  <2> SUFFICES ASSUME f \div Frame < a \div Frame PROVE FALSE
    OBVIOUS
  <2>1. Frame * (f \div Frame) + Frame <= Frame * (a \div Frame)
    BY <1>1, <1>2, <1>3, Multiples
  <2> QED BY <1>1, <1>2, <1>3, <2>1
<1>5. ~(a \div Frame < f \div Frame)
  <2> SUFFICES ASSUME a \div Frame < f \div Frame PROVE FALSE
    OBVIOUS
  <2>1. Frame * (a \div Frame) + Frame <= Frame * (f \div Frame)
    BY <1>1, <1>2, <1>3, Multiples
  <2> QED BY <1>1, <1>2, <1>3, <2>1
<1>6. f \div Frame = a \div Frame
  BY <1>2, <1>3, <1>4, <1>5
<1> QED BY <1>1, <1>2, <1>3, <1>6

LEMMA ProtectedSuffices == TablesStayWritable /\ CetInv => ShadowStacksHold
<1> SUFFICES ASSUME CetInv, armed, NEW f \in pdeShadow, NEW a \in f..(f + Frame - 1)
             PROVE  ~StorePermitted(a)
  BY DEF ShadowStacksHold, TablesStayWritable, FramesOfTables
<1>1. a \in Nat /\ FrameOf(a) = f
  BY FrameIsItsOwn DEF CetInv
<1> QED BY <1>1 DEF CetInv, Protected, StorePermitted, WP

\* The calls that leave the registers of Bochs that matter here, and its pages, alone.
LEMMA ProtectedKept ==
  ASSUME CetInv, UNCHANGED <<machine, armed, pdeShadow, dtlb>>,
         CR0 \in DOMAIN slots => CR0 \in DOMAIN slots' /\ slots'[CR0] = slots[CR0],
         \A s \in saved' \ saved : CR0 \notin DOMAIN s.regs
  PROVE  CetInv'
<1>1. backend' = backend
  BY DEF backend
<1>2. \A a \in Nat : PageOf(a)' = PageOf(a) /\ FrameOf(a)' = FrameOf(a)
  BY DEF PageOf, FrameOf
<1>3. Protected'
  BY <1>2 DEF CetInv, Protected, CR0
<1> QED BY <1>1, <1>3 DEF CetInv, CR0

\* Nothing but CR0 is kept where Bochs keeps CR0.
LEMMA CR0Slot ==
  ASSUME backend = "bochs", NEW c
  PROVE  CR0 \in SetSlots(backend, c) <=> c = CR0
<1>1. CR0 \in BochsSlot(c) => c = CR0
  BY DEF BochsSlot, CR0
<1>2. CR0 \in BochsSlot(CR0)
  BY DEF BochsSlot, CR0
<1>3. SetSlots(backend, c) = BochsSlot(c)
  BY DEF SetSlots
<1> QED BY <1>1, <1>2, <1>3

LEMMA SetCellKeepsProtected ==
  ASSUME CetInv, NEW w \in machine.inputs.cells, SetCell(w[1], w[2])
  PROVE  CetInv'
<1>1. /\ UNCHANGED <<machine, pdeShadow, saved>>
      /\ armed' = (armed /\ slots'[CR0] % 2 = 1)
      /\ dtlb' = {} \/ dtlb' = dtlb
      /\ slots' = Put(slots, w[1], w[2]) \/ slots' = slots
  BY DEF SetCell, Call, fixed
<1>2. CASE backend = "bochs"
  <2>1. Put(slots, w[1], w[2])[CR0] = IF w[1] = CR0 THEN Stored(backend, w[1], w[2]) ELSE slots[CR0]
    BY <1>2, CR0Slot DEF CetInv, Put
  <2>2. CR0 \in DOMAIN Put(slots, w[1], w[2])
    BY <1>2 DEF CetInv, Put
  <2>3. w[1] = CR0 => Stored(backend, w[1], w[2]) \in Nat
    <3>1. w[1] = CR0 => w[2] \in Nat
      BY InputsAssumption DEF CetInv, CR0
    <3>2. w[1] = CR0 => Stored(backend, w[1], w[2]) = w[2] % 2
      BY <1>2 DEF Stored, BochsNarrow, CR0, RFLAGS
    <3> QED BY <3>1, <3>2
  <2>4. CR0 \in DOMAIN slots' /\ slots'[CR0] \in Nat
    BY <1>1, <1>2, <2>1, <2>2, <2>3 DEF CetInv
  <2>5. Protected'
    BY <1>1 DEF CetInv, Protected, PageOf, FrameOf, CR0
  <2> QED BY <1>1, <1>2, <2>4, <2>5 DEF CetInv, backend, CR0
<1>3. CASE backend # "bochs"
  <2>1. armed = FALSE
    BY <1>3 DEF CetInv
  <2> QED BY <1>1, <1>3, <2>1 DEF CetInv, Protected, backend, CR0
<1> QED BY <1>2, <1>3

\* What a snapshot holds never reaches a control register.
LEMMA SnapshotsKeepProtected ==
  ASSUME CetInv, Snapshot \/ \E s \in saved : Restore(s)
  PROVE  CetInv'
<1>1. CASE Snapshot
  <2> DEFINE names == {d \in Cells : d[1] \in {"gpr", "rip", "rflags"}}
  <2>1. UNCHANGED <<machine, armed, pdeShadow, dtlb, slots>>
    BY <1>1 DEF Snapshot, Call, fixed, paging
  <2>2. saved' = saved \cup {[regs |-> [c \in names |-> Get(c)], zmm |-> Zmms]}
    BY <1>1 DEF Snapshot
  <2>3. CR0 \notin names
    BY DEF CR0
  <2> HIDE DEF names
  <2>4. \A s \in saved' \ saved : CR0 \notin DOMAIN s.regs
    BY <2>2, <2>3
  <2> QED BY <2>1, <2>4, ProtectedKept DEF CR0
<1>2. ASSUME NEW s \in saved, Restore(s) PROVE CetInv'
  <2>1. UNCHANGED <<machine, armed, pdeShadow, dtlb, saved>> /\ slots' = Restored(s.regs)
    BY <1>2 DEF Restore, Call, fixed, paging
  <2>2. CASE backend = "bochs"
    <3>1. ~\E c \in DOMAIN s.regs : CR0 \in SetSlots(backend, c)
      BY <2>2, CR0Slot DEF CetInv
    <3>2. CR0 \in DOMAIN slots => CR0 \in DOMAIN slots' /\ slots'[CR0] = slots[CR0]
      BY <2>1, <3>1 DEF Restored
    <3> QED BY <2>1, <3>2, ProtectedKept
  <2>3. CASE backend # "bochs"
    BY <2>1, <2>3 DEF CetInv, Protected, backend
  <2> QED BY <2>2, <2>3
<1> QED BY <1>1, <1>2

\* The range is all frames.
LEMMA FramesOnly ==
  ASSUME NEW base \in Nat, NEW len \in Nat
  PROVE  \A f \in map_shadow_stack(base, len) : f \in Nat /\ f % Frame = 0
<1>1. Frame \in Nat \ {0}
  BY SizesAssumption
<1>2. FrameOf(base) \in Nat
  BY <1>1, FloorFacts DEF FrameOf, Floor
<1> QED BY <1>2 DEF map_shadow_stack

LEMMA EnablingProtects ==
  ASSUME CetInv, NEW base \in Nat, NEW len \in Nat, EnableShadowStack(base, len)
  PROVE  CetInv'
<1>1. UNCHANGED <<machine, saved>>
  BY DEF EnableShadowStack, Call, fixed
<1>2. CASE UNCHANGED <<slots, paging>>
  BY <1>1, <1>2, ProtectedKept DEF paging
<1>3. CASE /\ backend = "bochs" /\ armed' = TRUE /\ dtlb' = {}
           /\ pdeShadow' = pdeShadow \cup map_shadow_stack(base, len)
           /\ DOMAIN slots' = DOMAIN slots
           /\ CR0 \in DOMAIN slots => slots'[CR0] = slots[CR0] - (slots[CR0] % 2) + 1
  <2>1. CR0 \in DOMAIN slots' /\ slots'[CR0] \in Nat /\ slots'[CR0] % 2 = 1
    <3>1. CR0 \in DOMAIN slots /\ slots[CR0] \in Nat
      BY <1>3 DEF CetInv
    <3> DEFINE v == slots[CR0]
    <3>2. v \in Nat => v - (v % 2) + 1 \in Nat /\ (v - (v % 2) + 1) % 2 = 1
      <4> HIDE DEF v
      <4> QED OBVIOUS
    <3> QED BY <1>3, <3>1, <3>2
  <2>2. \A f \in pdeShadow' : f \in Nat /\ f % Frame = 0
    BY <1>3, FramesOnly DEF CetInv
  <2>3. Protected'
    BY <1>3, <2>1 DEF Protected, CR0
  <2>4. backend' = backend
    BY <1>1 DEF backend
  <2> QED BY <1>1, <1>3, <2>1, <2>2, <2>3, <2>4 DEF CetInv, CR0
<1> DEFINE On == [name \in DOMAIN slots |->
                    IF name \in Enabling THEN slots[name] - (slots[name] % 2) + 1
                    ELSE IF name \in {<<"msr", "S_CET">>, <<"msr", "U_CET">>} THEN 1
                    ELSE slots[name]]
<1>4. /\ DOMAIN On = DOMAIN slots
      /\ CR0 \in DOMAIN slots => On[CR0] = slots[CR0] - (slots[CR0] % 2) + 1
  BY DEF Enabling
<1>5. \/ UNCHANGED <<slots, paging>>
      \/ /\ backend = "bochs" /\ armed' = TRUE /\ dtlb' = {}
         /\ pdeShadow' = pdeShadow \cup map_shadow_stack(base, len)
         /\ slots' = On
  BY DEF EnableShadowStack
<1> QED BY <1>2, <1>3, <1>4, <1>5

\* A page that the program stores to, and that the TLB then holds, is in no shadow stack.
LEMMA StepKeepsProtected ==
  ASSUME CetInv, NEW op, NEW a \in Nat, StepBytes(op, a)
  PROVE  CetInv'
<1>1. UNCHANGED <<machine, pdeShadow, armed, saved>>
  BY DEF StepBytes, Call, fixed
<1>2. CR0 \in DOMAIN slots => CR0 \in DOMAIN slots' /\ slots'[CR0] = slots[CR0]
  <2>1. slots' = slots \/ \E f : slots' = [slots EXCEPT ![RIP] = @ + 1, ![RFLAGS] = @ \cup f]
    BY DEF StepBytes
  <2>2. CR0 # RIP /\ CR0 # RFLAGS
    BY DEF CR0, RIP, RFLAGS
  <2> HIDE DEF CR0, RIP, RFLAGS
  <2> QED BY <2>1, <2>2
<1>3. dtlb' = dtlb \/ (StorePermitted(a) /\ dtlb' = dtlb \cup {PageOf(a)})
  BY DEF StepBytes
<1>4. CASE dtlb' = dtlb
  BY <1>1, <1>2, <1>4, ProtectedKept DEF CR0
<1>5. CASE StorePermitted(a) /\ dtlb' = dtlb \cup {PageOf(a)}
  <2>1. ASSUME armed PROVE FrameOf(a) \notin pdeShadow
    BY <1>5, <2>1 DEF StorePermitted, WP, CetInv, Protected
  <2>2. ASSUME armed, NEW b \in Nat, PageOf(b) \in dtlb' PROVE FrameOf(b) \notin pdeShadow
    <3>1. CASE PageOf(b) \in dtlb
      BY <2>2, <3>1 DEF CetInv, Protected
    <3>2. CASE PageOf(b) = PageOf(a)
      BY <2>1, <2>2, <3>2, PagesLieInFrames
    <3> QED BY <1>5, <2>2, <3>1, <3>2
  <2>3. armed => CR0 \in DOMAIN slots
    BY DEF CetInv
  <2>4. Protected'
    BY <1>1, <1>2, <2>2, <2>3 DEF CetInv, Protected, PageOf, FrameOf, CR0
  <2> QED BY <1>1, <1>2, <2>4 DEF CetInv, backend, CR0
<1> QED BY <1>3, <1>4, <1>5

LEMMA CetInit == Init => CetInv
<1> SUFFICES ASSUME Init PROVE CetInv
  OBVIOUS
<1>1. machine \in Machines /\ armed = FALSE /\ pdeShadow = {}
  BY DEF Init
<1>2. ASSUME backend = "bochs" PROVE CR0 \in DOMAIN slots /\ slots[CR0] \in Nat
  <2>1. CR0 \in Supported /\ ArchSlot(CR0) = CR0
    BY <1>2, InputsAssumption DEF Supported, LeftOut, ArchSlot, CR0
  <2>2. slots = [name \in {ArchSlot(c) : c \in Supported}
                           \cup (UNION {SetSlots(backend, c) : c \in Cells}) |->
                   IF \E c \in Supported : ArchSlot(c) = name
                   THEN ResetValue(CHOOSE c \in Supported : ArchSlot(c) = name) ELSE 0]
    BY DEF Init
  <2>3. \A c \in Supported : ArchSlot(c) = CR0 => c = CR0
    BY DEF ArchSlot, CR0
  <2>4. ResetValue(CR0) \in Nat
    BY <1>2 DEF ResetValue, CR0, RFLAGS
  <2>5. (CHOOSE c \in Supported : ArchSlot(c) = CR0) = CR0
    BY <2>1, <2>3
  <2> HIDE DEF CR0, Supported, ArchSlot, ResetValue, SetSlots
  <2> QED BY <2>1, <2>2, <2>4, <2>5
<1>3. \A s \in saved : CR0 \notin DOMAIN s.regs
  <2>1. saved = {[regs |-> [c \in {d \in Cells : d[1] \in {"gpr", "rip", "rflags"}} |->
                             IF c = RFLAGS THEN {} ELSE 0],
                  zmm |-> Blank]}
    BY DEF Init
  <2>2. CR0 \notin {d \in Cells : d[1] \in {"gpr", "rip", "rflags"}}
    BY DEF CR0
  <2> HIDE DEF CR0
  <2> QED BY <2>1, <2>2
<1> QED BY <1>1, <1>2, <1>3 DEF CetInv, Protected

LEMMA CetStep == CetInv /\ [Next]_vars => CetInv'
<1> SUFFICES ASSUME CetInv, [Next]_vars PROVE CetInv'
  OBVIOUS
<1>1. CASE UNCHANGED <<machine, armed, pdeShadow, dtlb, slots, saved>>
  BY <1>1, ProtectedKept DEF CR0
<1>2. CASE UNCHANGED vars
  BY <1>1, <1>2 DEF vars, fixed, paging
<1>3. CASE \E w \in machine.inputs.cells : SetCell(w[1], w[2])
  BY <1>3, SetCellKeepsProtected
<1>4. CASE \/ \E n \in VecRegs, data \in machine.inputs.zmm : SetZmm(n, data)
           \/ \E w \in machine.inputs.mem : WriteMem(w[1], w[2]) \/ WriteMemByte(w[1], w[2])
  BY <1>1, <1>4 DEF SetZmm, WriteMem, WriteMemByte, Call, fixed, paging
<1>5. CASE Snapshot \/ \E s \in saved : Restore(s)
  BY <1>5, SnapshotsKeepProtected
<1>6. CASE \E r \in machine.inputs.shadow : EnableShadowStack(r[1], r[2])
  <2>1. \A r \in machine.inputs.shadow : r[1] \in Nat /\ r[2] \in Nat
    BY InputsAssumption DEF CetInv
  <2> QED BY <1>6, <2>1, EnablingProtects
<1>7. CASE \E o \in machine.inputs.ops : StepBytes(o[1], o[2])
  <2>1. \A o \in machine.inputs.ops : o[2] \in Nat
    BY InputsAssumption DEF CetInv
  <2> QED BY <1>7, <2>1, StepKeepsProtected
<1> QED BY <1>2, <1>3, <1>4, <1>5, <1>6, <1>7 DEF Next

\* Bochs' page tables stay writable, and from the call of enable_shadow_stack to a write that clears CR0.WP, no ordinary
\* store reaches a shadow stack, whatever the ranges, the stores and the other calls:
\* the call sets WP and flushes the TLB, and a page is never half in a shadow stack.
THEOREM ShadowStacksAreProtected == Spec => []ShadowStacksHold
BY TablesAreWritable, CetInit, CetStep, ProtectedSuffices, PTL DEF Spec

-----------------------------------------------------------------------------
(* The registers: each one a backend has is in one place, under all its names *)

LEMMA RegisterNames ==
  /\ \A i, j \in 0..15 : GprCodes[i + 1] = GprCodes[j + 1] => i = j
  /\ \A i, j \in 0..5 : SegCodes[i + 1] = SegCodes[j + 1] => i = j
  /\ \A i \in 0..15 : GPR_NAMES[i + 1] = GprCodes[i + 1]
  /\ \A i \in 0..5 : segment(i) = SegCodes[i + 1] /\ seg_name(i) = SegCodes[i + 1]
  /\ \A i \in 0..3 : SegCodes[i + 1] \notin {"fs", "gs"}
  /\ SegCodes[5] = "fs" /\ SegCodes[6] = "gs"
<1>1. \A i, j \in 0..15 : GprCodes[i + 1] = GprCodes[j + 1] => i = j
  BY DEF GprCodes
<1>2. \A i, j \in 0..5 : SegCodes[i + 1] = SegCodes[j + 1] => i = j
  BY DEF SegCodes
<1>3. \A i \in 0..15 : GPR_NAMES[i + 1] = GprCodes[i + 1]
  BY DEF GPR_NAMES, GprCodes
<1>4. \A i \in 0..5 : segment(i) = SegCodes[i + 1] /\ seg_name(i) = SegCodes[i + 1]
  BY DEF segment, seg_name, SegName, SegCodes
<1>5. (\A i \in 0..3 : SegCodes[i + 1] \notin {"fs", "gs"}) /\ SegCodes[5] = "fs" /\ SegCodes[6] = "gs"
  BY DEF SegCodes
<1> QED BY <1>1, <1>2, <1>3, <1>4, <1>5

\* The registers, by kind.
LEMMA RegisterKinds ==
  ASSUME NEW c \in Registers
  PROVE  \/ c[1] = "gpr" /\ c[2] \in 0..15
         \/ c[1] = "cr" /\ c[2] \in {0, 1, 2, 3, 4, 8}
         \/ c[1] \in {"sel", "base", "limit"} /\ c[2] \in 0..5
         \/ c[1] \in {"rip", "rflags", "ssp"} /\ c[2] = 0
         \/ c[1] = "msr" /\ c[2] \in {"EFER", "FS_BASE", "GS_BASE", "KERNEL_GS_BASE", "STAR",
                                      "LSTAR", "FMASK", "U_CET", "S_CET", "OTHER"}
BY DEF Registers

LEMMA RegisterIsPair ==
  ASSUME NEW c \in Registers
  PROVE  c = <<c[1], c[2]>>
BY DEF Registers

\* Sail: the FS and GS bases are in the MSR file, where both of their setters write.
LEMMA SailKeeps ==
  ASSUME backend = "sail", NEW c \in Registers
  PROVE  IF c \in LeftOut THEN SailSet(c) = {} /\ SailGet(c) = {}
         ELSE /\ SailGet(c) = {ArchSlot(c)} /\ ArchSlot(c) \in SailSet(c)
              /\ SailSet(c) \subseteq {ArchSlot(c), <<"base", SEG_FS>>, <<"base", SEG_GS>>}
<1>0. ~Hardware
  BY DEF Hardware
<1>1. c = <<c[1], c[2]>>
  BY RegisterIsPair
<1>2. CASE c[1] = "msr" /\ c[2] \in {"EFER", "FS_BASE", "GS_BASE", "KERNEL_GS_BASE", "STAR",
                                      "LSTAR", "FMASK", "U_CET", "S_CET", "OTHER"}
  BY <1>0, <1>1, <1>2 DEF SailSet, SailGet, ArchSlot, LeftOut, msr_slot, SailMsrs, SEG_FS, SEG_GS
<1>3. CASE c[1] \in {"gpr", "cr", "sel", "base", "limit", "rip", "rflags", "ssp"}
  BY <1>0, <1>1, <1>3, RegisterKinds
     DEF SailSet, SailGet, ArchSlot, LeftOut, msr_slot, SailMsrs, SEG_FS, SEG_GS
<1> QED BY <1>2, <1>3, RegisterKinds

LEMMA BochsKeeps ==
  ASSUME backend = "bochs", NEW c \in Registers
  PROVE  BochsSlot(c) = IF c \in LeftOut THEN {} ELSE {ArchSlot(c)}
<1>0. ~Hardware
  BY DEF Hardware
<1>1. c = <<c[1], c[2]>>
  BY RegisterIsPair
<1>2. CASE c = <<"msr", "FS_BASE">> \/ c = <<"msr", "GS_BASE">>
  BY <1>0, <1>2 DEF BochsSlot, ArchSlot, LeftOut, BaseMsrs, SEG_FS, SEG_GS
<1>3. CASE c[1] = "msr" /\ c[2] \in BochsMsrs \cup {"OTHER"}
  BY <1>0, <1>1, <1>3 DEF BochsSlot, ArchSlot, LeftOut, BochsMsrs, HwMsrs, BaseMsrs, SEG_FS, SEG_GS
<1>4. CASE c[1] \in {"gpr", "cr", "sel", "base", "limit", "rip", "rflags", "ssp"}
  BY <1>0, <1>1, <1>4, RegisterKinds
     DEF BochsSlot, ArchSlot, LeftOut, SEG_FS, SEG_GS, BaseMsrs
<1>5. c[1] = "msr" => c[2] \in BaseMsrs \cup BochsMsrs \cup {"OTHER"}
  BY RegisterKinds DEF BaseMsrs, BochsMsrs, HwMsrs
<1> QED BY <1>1, <1>2, <1>3, <1>4, <1>5, RegisterKinds DEF BaseMsrs

LEMMA KvmKeeps ==
  ASSUME backend = "kvm", NEW c \in Registers
  PROVE  KvmSlot(c) = IF c \in LeftOut THEN {} ELSE {ArchSlot(c)}
<1>0. Hardware
  BY DEF Hardware
<1>1. c = <<c[1], c[2]>>
  BY RegisterIsPair
<1>2. CASE c[1] = "msr"
  BY <1>0, <1>1, <1>2, RegisterKinds
     DEF KvmSlot, ArchSlot, LeftOut, HwMsrs, BaseMsrs, SEG_FS, SEG_GS
<1>3. CASE c[1] = "gpr"
  <2>1. GPR_NAMES[(IF c[2] < 15 THEN c[2] ELSE 15) + 1] = GprCodes[c[2] + 1]
    BY <1>3, RegisterKinds, RegisterNames
  <2> QED BY <1>0, <1>1, <1>3, <2>1 DEF KvmSlot, ArchSlot, LeftOut
<1>4. CASE c[1] \in {"sel", "base", "limit"}
  <2>1. c[2] \in 0..5 /\ segment(c[2]) = SegCodes[c[2] + 1] /\ SegCodes[5] = "fs" /\ SegCodes[6] = "gs"
    BY <1>4, RegisterKinds, RegisterNames
  <2> QED BY <1>0, <1>1, <1>4, <2>1 DEF KvmSlot, ArchSlot, LeftOut, SEG_FS, SEG_GS, BaseMsrs
<1>5. CASE c[1] = "cr" /\ c[2] \in {0, 1, 2, 3, 4, 8}
  BY <1>0, <1>1, <1>5 DEF KvmSlot, ArchSlot, LeftOut
<1>6. CASE c[1] \in {"rip", "rflags", "ssp"} /\ c[2] = 0
  BY <1>0, <1>1, <1>6 DEF KvmSlot, ArchSlot, LeftOut
<1> QED BY <1>2, <1>3, <1>4, <1>5, <1>6, RegisterKinds

LEMMA WhpKeeps ==
  ASSUME backend = "whp", NEW c \in Registers
  PROVE  WhpSlot(c) = IF c \in LeftOut THEN {} ELSE {ArchSlot(c)}
<1>0. Hardware
  BY DEF Hardware
<1>1. c = <<c[1], c[2]>>
  BY RegisterIsPair
<1>2. CASE c[1] = "msr"
  <2>1. seg_name(SEG_FS) = "fs" /\ seg_name(SEG_GS) = "gs"
    BY RegisterNames DEF SEG_FS, SEG_GS
  <2> QED BY <1>0, <1>1, <1>2, <2>1, RegisterKinds
     DEF WhpSlot, ArchSlot, LeftOut, HwMsrs, BaseMsrs, SEG_FS, SEG_GS
<1>3. CASE c[1] = "gpr"
  <2>1. GPR_NAMES[(IF c[2] < 15 THEN c[2] ELSE 15) + 1] = GprCodes[c[2] + 1]
    BY <1>3, RegisterKinds, RegisterNames
  <2> QED BY <1>0, <1>1, <1>3, <2>1 DEF WhpSlot, ArchSlot, LeftOut
<1>4. CASE c[1] \in {"sel", "base", "limit"}
  <2>1. c[2] \in 0..5 /\ seg_name(c[2]) = SegCodes[c[2] + 1] /\ SegCodes[5] = "fs" /\ SegCodes[6] = "gs"
    BY <1>4, RegisterKinds, RegisterNames
  <2> QED BY <1>0, <1>1, <1>4, <2>1 DEF WhpSlot, ArchSlot, LeftOut, SEG_FS, SEG_GS, BaseMsrs
<1>5. CASE c[1] = "cr" /\ c[2] \in {0, 1, 2, 3, 4, 8}
  BY <1>0, <1>1, <1>5 DEF WhpSlot, ArchSlot, LeftOut
<1>6. CASE c[1] \in {"rip", "rflags", "ssp"} /\ c[2] = 0
  BY <1>0, <1>1, <1>6 DEF WhpSlot, ArchSlot, LeftOut
<1> QED BY <1>2, <1>3, <1>4, <1>5, <1>6, RegisterKinds

\* Every backend: a setter writes, and a getter reads, the storage an instruction uses.
LEMMA SlotsAreArchitectural ==
  ASSUME machine \in Machines, NEW c \in Registers
  PROVE  IF c \in LeftOut THEN SetSlots(backend, c) = {} /\ GetSlots(backend, c) = {}
         ELSE /\ GetSlots(backend, c) = {ArchSlot(c)} /\ ArchSlot(c) \in SetSlots(backend, c)
              /\ SetSlots(backend, c) \subseteq
                   {ArchSlot(c)} \cup IF backend = "sail" THEN {<<"base", SEG_FS>>, <<"base", SEG_GS>>}
                                     ELSE {}
<1> HIDE DEF backend, ArchSlot, LeftOut
<1>1. CASE backend = "sail"
  BY <1>1, SailKeeps DEF SetSlots, GetSlots
<1>2. CASE backend = "bochs"
  BY <1>2, BochsKeeps DEF SetSlots, GetSlots
<1>3. CASE backend = "kvm"
  BY <1>3, KvmKeeps DEF SetSlots, GetSlots
<1>4. CASE backend = "whp"
  BY <1>4, WhpKeeps DEF SetSlots, GetSlots
<1> QED BY <1>1, <1>2, <1>3, <1>4, BackendFacts

\* Where an instruction finds a register.
PlainSlot(c) == IF c[1] = "msr" /\ backend = "sail" THEN <<"msr", SailMsrs[c[2]]>>
                ELSE IF c[1] = "gpr" /\ Hardware THEN <<"gpr", GprCodes[c[2] + 1]>>
                ELSE IF c[1] \in {"sel", "base", "limit"} /\ Hardware THEN <<c[1], SegCodes[c[2] + 1]>>
                ELSE c

LEMMA ArchSlotByKind ==
  ASSUME machine \in Machines, NEW c \in Registers \ LeftOut
  PROVE  /\ c \in Contract!FsBase =>
              ArchSlot(c) = IF backend = "sail" THEN <<"msr", 1>>
                            ELSE <<"base", IF Hardware THEN "fs" ELSE 4>>
         /\ c \in Contract!GsBase =>
              ArchSlot(c) = IF backend = "sail" THEN <<"msr", 2>>
                            ELSE <<"base", IF Hardware THEN "gs" ELSE 5>>
         /\ c \notin Contract!FsBase \cup Contract!GsBase => ArchSlot(c) = PlainSlot(c)
<1>1. c = <<c[1], c[2]>>
  BY RegisterIsPair
<1>2. /\ SegCodes[5] = "fs" /\ SegCodes[6] = "gs"
  BY DEF SegCodes
<1>3. CASE c \in Contract!FsBase \cup Contract!GsBase
  BY <1>2, <1>3 DEF ArchSlot, SEG_FS, SEG_GS, Contract!FsBase, Contract!GsBase, SailMsrs, Hardware
<1>4. CASE c \notin Contract!FsBase \cup Contract!GsBase
  <2> SUFFICES ArchSlot(c) = PlainSlot(c)
    BY <1>4
  <2>1. c[1] = "msr" /\ backend = "sail" => c[2] \in DOMAIN SailMsrs
    BY <1>1, <1>4, RegisterKinds DEF LeftOut, SailMsrs, Contract!FsBase, Contract!GsBase, Hardware
  <2>2. c \notin {<<"base", SEG_FS>>, <<"msr", "FS_BASE">>, <<"base", SEG_GS>>, <<"msr", "GS_BASE">>}
    BY <1>4 DEF SEG_FS, SEG_GS, Contract!FsBase, Contract!GsBase
  <2>3. CASE c[1] = "msr" /\ backend = "sail"
    BY <2>1, <2>2, <2>3 DEF ArchSlot, PlainSlot
  <2>4. CASE c[1] = "msr" /\ backend # "sail"
    BY <2>2, <2>4 DEF ArchSlot, PlainSlot
  <2>5. CASE c[1] = "gpr"
    <3>1. CASE Hardware
      BY <2>2, <2>5, <3>1 DEF ArchSlot, PlainSlot
    <3>2. CASE ~Hardware
      BY <2>2, <2>5, <3>2 DEF ArchSlot, PlainSlot
    <3> QED BY <3>1, <3>2
  <2>6. CASE c[1] \in {"sel", "base", "limit"} /\ Hardware
    BY <2>2, <2>6 DEF ArchSlot, PlainSlot
  <2>7. CASE c[1] \notin {"msr", "gpr"} /\ ~(c[1] \in {"sel", "base", "limit"} /\ Hardware)
    BY <2>2, <2>7 DEF ArchSlot, PlainSlot
  <2> QED BY <2>3, <2>4, <2>5, <2>6, <2>7
<1> QED BY <1>3, <1>4

\* Registers but the bases of FS and GS.
Plain == (Registers \ LeftOut) \ (Contract!FsBase \cup Contract!GsBase)

LEMMA PlainPlaces ==
  ASSUME NEW c \in Plain
  PROVE  /\ Hardware => PlainSlot(c) \notin {<<"base", "fs">>, <<"base", "gs">>}
         /\ ~Hardware => PlainSlot(c) \notin {<<"base", 4>>, <<"base", 5>>}
         /\ backend = "sail" => PlainSlot(c) \notin {<<"msr", 1>>, <<"msr", 2>>}
         /\ PlainSlot(c) = <<c[1], PlainSlot(c)[2]>>
<1>1. c = <<c[1], c[2]>> /\ c \in Registers
  BY RegisterIsPair DEF Plain
<1>2. c \notin {<<"base", 4>>, <<"base", 5>>, <<"msr", "FS_BASE">>, <<"msr", "GS_BASE">>}
  BY DEF Plain, Contract!FsBase, Contract!GsBase
<1>3. c[1] = "msr" /\ backend = "sail" => c[2] \in DOMAIN SailMsrs
  BY <1>1, <1>2, RegisterKinds DEF LeftOut, SailMsrs, Plain, Hardware
<1>4. \A m \in DOMAIN SailMsrs : SailMsrs[m] \notin {1, 2}
  BY DEF SailMsrs
<1>5. c[1] = "base" => SegCodes[c[2] + 1] \notin {"fs", "gs"}
  <2>1. c[1] = "base" => c[2] \in 0..3
    BY <1>1, <1>2, RegisterKinds
  <2> QED BY <2>1, RegisterNames
<1>6. CASE c[1] = "msr"
  BY <1>1, <1>3, <1>4, <1>6 DEF PlainSlot
<1>7. CASE c[1] = "base"
  <2>1. c[2] \notin {4, 5}
    BY <1>1, <1>2, <1>7, RegisterKinds
  <2>2. CASE Hardware
    BY <1>1, <1>5, <1>7, <2>2 DEF PlainSlot, Hardware
  <2>3. CASE ~Hardware
    BY <1>1, <1>7, <2>1, <2>3 DEF PlainSlot
  <2> QED BY <2>2, <2>3
<1>8. CASE c[1] \notin {"msr", "base"}
  BY <1>1, <1>8 DEF PlainSlot
<1> QED BY <1>6, <1>7, <1>8

LEMMA PlainsAreApart ==
  ASSUME NEW c \in Plain, NEW d \in Plain, PlainSlot(c) = PlainSlot(d)
  PROVE  c = d
<1>1. /\ c = <<c[1], c[2]>> /\ c \in Registers
      /\ d = <<d[1], d[2]>> /\ d \in Registers
  BY RegisterIsPair DEF Plain
<1>2. c[1] = d[1]
  BY PlainPlaces
<1>3. CASE c[1] = "msr" /\ backend = "sail"
  <2>1. \A e \in Plain : e[1] = "msr" => e[2] \in DOMAIN SailMsrs
    BY <1>3, RegisterIsPair, RegisterKinds
       DEF Plain, LeftOut, SailMsrs, Contract!FsBase, Contract!GsBase, Hardware
  <2>2. SailMsrs[c[2]] = SailMsrs[d[2]]
    BY <1>2, <1>3 DEF PlainSlot
  <2>3. \A m, n \in DOMAIN SailMsrs : SailMsrs[m] = SailMsrs[n] => m = n
    BY DEF SailMsrs
  <2> QED BY <1>1, <1>2, <1>3, <2>1, <2>2, <2>3
<1>4. CASE c[1] = "gpr" /\ Hardware
  <2>1. GprCodes[c[2] + 1] = GprCodes[d[2] + 1]
    BY <1>2, <1>4 DEF PlainSlot
  <2>2. c[2] \in 0..15 /\ d[2] \in 0..15
    BY <1>1, <1>2, <1>4, RegisterKinds
  <2> QED BY <1>1, <1>2, <2>1, <2>2, RegisterNames
<1>5. CASE c[1] \in {"sel", "base", "limit"} /\ Hardware
  <2>1. SegCodes[c[2] + 1] = SegCodes[d[2] + 1]
    BY <1>2, <1>5 DEF PlainSlot
  <2>2. c[2] \in 0..5 /\ d[2] \in 0..5
    BY <1>1, <1>2, <1>5, RegisterKinds
  <2> QED BY <1>1, <1>2, <2>1, <2>2, RegisterNames
<1>6. CASE /\ ~(c[1] = "msr" /\ backend = "sail")
           /\ ~(c[1] \in {"gpr", "sel", "base", "limit"} /\ Hardware)
  BY <1>2, <1>6 DEF PlainSlot
<1> QED BY <1>3, <1>4, <1>5, <1>6

\* The two names of a base share their place, and no other registers do.
LEMMA OnePlaceEach ==
  ASSUME machine \in Machines, NEW c \in Registers \ LeftOut, NEW d \in Registers \ LeftOut
  PROVE  /\ ArchSlot(c) = ArchSlot(d) <=> d \in Contract!Synonyms(c)
         /\ backend = "sail" => ArchSlot(d) \notin {<<"base", SEG_FS>>, <<"base", SEG_GS>>}
<1> DEFINE F == IF backend = "sail" THEN <<"msr", 1>> ELSE <<"base", IF Hardware THEN "fs" ELSE 4>>
           G == IF backend = "sail" THEN <<"msr", 2>> ELSE <<"base", IF Hardware THEN "gs" ELSE 5>>
<1>1. /\ F # G
      /\ backend = "sail" => F = <<"msr", 1>> /\ G = <<"msr", 2>>
      /\ Hardware => F = <<"base", "fs">> /\ G = <<"base", "gs">>
      /\ ~Hardware /\ backend # "sail" => F = <<"base", 4>> /\ G = <<"base", 5>>
      /\ backend = "sail" => ~Hardware
  BY DEF Hardware
<1>2. Contract!FsBase \cap Contract!GsBase = {}
  BY DEF Contract!FsBase, Contract!GsBase
<1>3. \A e \in Registers \ LeftOut :
        /\ e \in Contract!FsBase => ArchSlot(e) = F
        /\ e \in Contract!GsBase => ArchSlot(e) = G
        /\ e \notin Contract!FsBase \cup Contract!GsBase => e \in Plain /\ ArchSlot(e) = PlainSlot(e)
  BY ArchSlotByKind DEF Plain
<1> HIDE DEF F, G, ArchSlot, LeftOut, Hardware
<1>4. \A e \in Plain : /\ PlainSlot(e) \notin {F, G}
                       /\ backend = "sail" => PlainSlot(e) \notin {<<"base", 4>>, <<"base", 5>>}
  BY <1>1, PlainPlaces
<1>5. \A e, f \in Plain : PlainSlot(e) = PlainSlot(f) => e = f
  BY PlainsAreApart
<1>6. ArchSlot(c) = ArchSlot(d) <=> d \in Contract!Synonyms(c)
  BY <1>1, <1>2, <1>3, <1>4, <1>5 DEF Contract!Synonyms
<1> QED BY <1>1, <1>3, <1>4, <1>6 DEF SEG_FS, SEG_GS

-----------------------------------------------------------------------------
(* The calls on registers *)

SnappedCells == {d \in Cells : d[1] \in {"gpr", "rip", "rflags"}}

\* Every register has its place; the program counter of the machine, and of every
\* snapshot, is a number; a snapshot has the registers that snapshot() reads.
PlacesInv ==
  /\ machine \in Machines
  /\ \A c \in Supported : ArchSlot(c) \in DOMAIN slots
  /\ slots[RIP] \in Nat
  /\ \A s \in saved : DOMAIN s.regs = SnappedCells /\ s.regs[RIP] \in Nat

\* The history variables are what they say.
HistoryInv == caps = Caps /\ regs = Regs

LEMMA SupportedFacts ==
  ASSUME machine \in Machines
  PROVE  /\ Supported = Cells \ LeftOut /\ Supported \subseteq Registers \ LeftOut
         /\ RIP \in Supported /\ CR0 \in Supported
         /\ ArchSlot(RIP) = RIP /\ ArchSlot(CR0) = CR0 /\ ArchSlot(RFLAGS) = RFLAGS
         /\ \A c \in Supported : /\ ArchSlot(c) = RIP <=> c = RIP
                                 /\ ArchSlot(c) = RFLAGS <=> c = RFLAGS
         /\ SnappedCells \subseteq Supported
         /\ RIP \in SnappedCells /\ CR0 \notin SnappedCells /\ RIP # RFLAGS /\ RIP # CR0
<1>1. Supported = Cells \ LeftOut /\ Supported \subseteq Registers \ LeftOut
  BY CallsAssumption DEF Supported
<1>2. RIP \in Cells /\ CR0 \in Cells /\ RIP \notin LeftOut /\ CR0 \notin LeftOut
  BY InputsAssumption DEF LeftOut, RIP, CR0
<1>3. ArchSlot(RIP) = RIP /\ ArchSlot(CR0) = CR0 /\ ArchSlot(RFLAGS) = RFLAGS
  BY DEF ArchSlot, RIP, CR0, RFLAGS
<1>4. \A c : ArchSlot(c) = RIP => c = RIP
  BY DEF ArchSlot, RIP
<1>5. \A c : ArchSlot(c) = RFLAGS => c = RFLAGS
  BY DEF ArchSlot, RFLAGS
<1>6. \A d \in LeftOut : d[1] \notin {"gpr", "rip", "rflags"}
  BY DEF LeftOut
<1>7. SnappedCells \subseteq Supported
  BY <1>6 DEF SnappedCells, Supported
<1>8. RIP \in SnappedCells /\ CR0 \notin SnappedCells /\ RIP # RFLAGS /\ RIP # CR0
  BY <1>2 DEF SnappedCells, RIP, CR0, RFLAGS
<1> QED BY <1>1, <1>2, <1>3, <1>4, <1>5, <1>7, <1>8

LEMMA CapsFields ==
  /\ Caps.cells = Supported
  /\ Caps.narrow = IF backend = "bochs" THEN BochsNarrow ELSE {}
  /\ Caps.refusable = {c \in Supported : Refusable(c)}
  /\ Caps.rawFlags = (backend = "sail")
  /\ Caps.phys = CASE backend = "sail" -> AddrSpace [] backend = "bochs" -> Phys [] Hardware -> Ram
  /\ Caps.bounded = Hardware /\ Caps.guest = GuestLimit /\ Caps.cet = (backend = "bochs")
  /\ Caps.vecs = IF Hardware /\ 7 \notin VcpuXcr0 THEN 16 ELSE ZMM_REGS
  /\ Caps.chunks = IF ~Hardware \/ 6 \in VcpuXcr0 THEN 8 ELSE IF 2 \in VcpuXcr0 THEN 4 ELSE 2
BY DEF Caps

LEMMA StoredIsKept ==
  ASSUME machine \in Machines, caps = Caps, NEW c, NEW v
  PROVE  Stored(backend, c, v) = Contract!Kept(c, v)
<1>1. caps.narrow = (IF backend = "bochs" THEN BochsNarrow ELSE {}) /\ caps.rawFlags = (backend = "sail")
  BY CapsFields
<1> HIDE DEF backend, Caps
<1> QED BY <1>1 DEF Stored, Contract!Kept, Contract!RFLAGS, RFLAGS, Contract!HarnessFlags, HarnessFlags,
               Contract!Low

\* The registers an instruction works with, when the storage is s.
RegsIn(s) == [c \in Supported |-> s[ArchSlot(c)]]

LEMMA FixedFacts ==
  ASSUME UNCHANGED machine
  PROVE  /\ backend' = backend /\ host' = host /\ Hardware' = Hardware /\ LeftOut' = LeftOut
         /\ Supported' = Supported /\ \A c : ArchSlot(c)' = ArchSlot(c)
         /\ Regs' = RegsIn(slots')
<1>1. backend' = backend /\ host' = host
  BY DEF backend, host
<1> HIDE DEF backend, host
<1>2. Hardware' = Hardware
  BY <1>1 DEF Hardware
<1> HIDE DEF Hardware
<1>3. LeftOut' = LeftOut
  BY <1>1, <1>2 DEF LeftOut
<1>4. Supported' = Supported
  BY <1>3 DEF Supported
<1>5. \A c : ArchSlot(c)' = ArchSlot(c)
  BY <1>1, <1>2 DEF ArchSlot
<1>6. Regs' = RegsIn(slots')
  BY <1>4, <1>5 DEF Regs, RegsIn
<1> QED BY <1>1, <1>2, <1>3, <1>4, <1>5, <1>6

LEMMA PutIsAfter ==
  ASSUME PlacesInv, HistoryInv, NEW c \in Cells, NEW v
  PROVE  RegsIn(Put(slots, c, v)) = IF c \in Supported THEN Contract!After(regs, c, v) ELSE regs
<1>1. machine \in Machines /\ caps = Caps /\ regs = [d \in Supported |-> slots[ArchSlot(d)]]
  BY DEF PlacesInv, HistoryInv, Regs
<1>2. c \in Registers /\ Supported = Cells \ LeftOut /\ Supported \subseteq Registers \ LeftOut
  BY <1>1, CallsAssumption, SupportedFacts
<1>3. \A d \in Supported : Put(slots, c, v)[ArchSlot(d)]
        = IF ArchSlot(d) \in SetSlots(backend, c) THEN Stored(backend, c, v) ELSE slots[ArchSlot(d)]
  BY DEF Put, PlacesInv
<1>4. Stored(backend, c, v) = Contract!Kept(c, v) /\ caps.cells = Supported
  BY <1>1, StoredIsKept, CapsFields
<1> HIDE DEF Supported, LeftOut, ArchSlot, backend
<1>5. CASE c \notin Supported
  <2>1. SetSlots(backend, c) = {}
    BY <1>1, <1>2, <1>5, SlotsAreArchitectural
  <2> QED BY <1>1, <1>3, <1>5, <2>1 DEF RegsIn
<1>6. CASE c \in Supported
  <2>1. \A d \in Supported : ArchSlot(d) \in SetSlots(backend, c) <=> ArchSlot(c) = ArchSlot(d)
    <3>1. /\ ArchSlot(c) \in SetSlots(backend, c)
          /\ SetSlots(backend, c) \subseteq
               {ArchSlot(c)} \cup IF backend = "sail" THEN {<<"base", SEG_FS>>, <<"base", SEG_GS>>} ELSE {}
      BY <1>1, <1>2, <1>6, SlotsAreArchitectural
    <3>2. \A d \in Supported : backend = "sail" => ArchSlot(d) \notin {<<"base", SEG_FS>>, <<"base", SEG_GS>>}
      BY <1>1, <1>2, OnePlaceEach
    <3> QED BY <3>1, <3>2
  <2>2. \A d \in Supported : ArchSlot(c) = ArchSlot(d) <=> d \in Contract!Synonyms(c)
    BY <1>1, <1>2, <1>6, OnePlaceEach
  <2>3. \A d \in Supported : Put(slots, c, v)[ArchSlot(d)]
          = IF d \in Contract!Synonyms(c) THEN Contract!Kept(c, v) ELSE regs[d]
    BY <1>1, <1>3, <1>4, <2>1, <2>2
  <2> HIDE DEF Put
  <2> QED BY <1>4, <1>6, <2>3 DEF RegsIn, Contract!After
<1> QED BY <1>5, <1>6

LEMMA WriteStep ==
  ASSUME PlacesInv, HistoryInv, HistoryInv', NEW c \in Cells, NEW v, SetCell(c, v)
  PROVE  Contract!Write(c, v)
<1>1. /\ UNCHANGED <<machine, vec, mem, pdeShadow, saved, out>>
      /\ slots' = Put(slots, c, v) \/ (Refusable(c) /\ slots' = slots)
      /\ armed' = (armed /\ slots'[CR0] % 2 = 1)
      /\ caps' = caps
  BY DEF SetCell, Call, fixed, memory, Observed
<1>2. machine \in Machines /\ caps = Caps /\ regs = RegsIn(slots) /\ caps.cells = Supported
      /\ caps.refusable = {d \in Supported : Refusable(d)}
  BY CapsFields DEF PlacesInv, HistoryInv, Regs, RegsIn
<1>3. regs' = RegsIn(slots')
  BY <1>1, FixedFacts DEF HistoryInv
<1>4. regs'[CR0] = slots'[CR0]
  BY <1>2, <1>3, SupportedFacts DEF RegsIn
<1>5. armed' = (armed /\ Contract!Low(regs'[Contract!CR0]) = 1)
  BY <1>1, <1>4 DEF Contract!Low, Contract!CR0, CR0
<1>6. (UNION {f..(f + Frame - 1) : f \in pdeShadow})' = UNION {f..(f + Frame - 1) : f \in pdeShadow}
  BY <1>1
<1>7. IF c \notin caps.cells THEN regs' = regs
      ELSE \/ regs' = Contract!After(regs, c, v)
           \/ c \in caps.refusable /\ regs' = regs
  <2> HIDE DEF Supported, Refusable
  <2>1. CASE slots' = Put(slots, c, v)
    BY <1>2, <1>3, <2>1, PutIsAfter
  <2>2. CASE Refusable(c) /\ slots' = slots
    BY <1>2, <1>3, <2>2
  <2> QED BY <1>1, <2>1, <2>2
<1> QED BY <1>1, <1>5, <1>6, <1>7 DEF Contract!Write

\* Each register of a snapshot goes back to its own place.
LEMMA RestoredIsAfterAll ==
  ASSUME PlacesInv, HistoryInv, NEW s \in saved
  PROVE  RegsIn(Restored(s.regs)) = Contract!AfterAll(regs, s.regs)
<1>1. /\ machine \in Machines /\ caps = Caps /\ regs = [d \in Supported |-> slots[ArchSlot(d)]]
      /\ DOMAIN s.regs = SnappedCells
  BY DEF PlacesInv, HistoryInv, Regs
<1>2. /\ Supported = Cells \ LeftOut /\ Supported \subseteq Registers \ LeftOut
      /\ SnappedCells \subseteq Supported /\ caps.cells = Supported
  BY <1>1, SupportedFacts, CapsFields
<1>3. \A c \in SnappedCells : Contract!Synonyms(c) = {c}
  BY DEF SnappedCells, Contract!Synonyms, Contract!FsBase, Contract!GsBase
<1>4. \A c \in SnappedCells, d \in Supported : ArchSlot(d) \in SetSlots(backend, c) <=> c = d
  <2> SUFFICES ASSUME NEW c \in SnappedCells, NEW d \in Supported
               PROVE  ArchSlot(d) \in SetSlots(backend, c) <=> c = d
    OBVIOUS
  <2> HIDE DEF Supported, LeftOut, ArchSlot, backend
  <2>1. /\ ArchSlot(c) \in SetSlots(backend, c)
        /\ SetSlots(backend, c) \subseteq
             {ArchSlot(c)} \cup IF backend = "sail" THEN {<<"base", SEG_FS>>, <<"base", SEG_GS>>} ELSE {}
    BY <1>1, <1>2, SlotsAreArchitectural
  <2>2. /\ backend = "sail" => ArchSlot(d) \notin {<<"base", SEG_FS>>, <<"base", SEG_GS>>}
        /\ ArchSlot(c) = ArchSlot(d) <=> d \in Contract!Synonyms(c)
    BY <1>1, <1>2, OnePlaceEach
  <2> QED BY <1>3, <2>1, <2>2
<1>5. \A c, v : Stored(backend, c, v) = Contract!Kept(c, v)
  BY <1>1, StoredIsKept
<1>6. ASSUME NEW d \in Supported
      PROVE  Restored(s.regs)[ArchSlot(d)] = IF d \in SnappedCells THEN Contract!Kept(d, s.regs[d])
                                             ELSE regs[d]
  <2>0. ArchSlot(d) \in DOMAIN slots /\ regs[d] = slots[ArchSlot(d)]
    BY <1>1 DEF PlacesInv
  <2> HIDE DEF Supported, LeftOut, ArchSlot, backend, SetSlots, SnappedCells
  <2>1. CASE d \in SnappedCells
    <3>1. (CHOOSE c \in SnappedCells : ArchSlot(d) \in SetSlots(backend, c)) = d
      BY <1>4, <2>1
    <3>2. \E c \in SnappedCells : ArchSlot(d) \in SetSlots(backend, c)
      BY <1>4, <2>1
    <3>3. Restored(s.regs)[ArchSlot(d)] = Stored(backend, d, s.regs[d])
      BY <1>1, <2>0, <3>1, <3>2 DEF Restored
    <3> QED BY <1>5, <2>1, <3>3
  <2>2. CASE d \notin SnappedCells
    <3>1. ~\E c \in SnappedCells : ArchSlot(d) \in SetSlots(backend, c)
      BY <1>4, <2>2
    <3>2. Restored(s.regs)[ArchSlot(d)] = slots[ArchSlot(d)]
      BY <1>1, <2>0, <3>1 DEF Restored
    <3> QED BY <2>0, <2>2, <3>2
  <2> QED BY <2>1, <2>2
<1>7. Contract!Snapped = SnappedCells
  BY DEF Contract!Snapped, SnappedCells
<1> HIDE DEF Restored, Supported, ArchSlot, SnappedCells
<1> QED BY <1>2, <1>6, <1>7 DEF RegsIn, Contract!AfterAll

\* What enable_shadow_stack writes on Bochs.
EnabledSlots == [name \in DOMAIN slots |->
                   IF name \in Enabling THEN slots[name] - (slots[name] % 2) + 1
                   ELSE IF name \in {<<"msr", "S_CET">>, <<"msr", "U_CET">>} THEN 1
                   ELSE slots[name]]

LEMMA EnablingSetsBits ==
  ASSUME PlacesInv, HistoryInv, backend = "bochs"
  PROVE  RegsIn(EnabledSlots)
           = [d \in caps.cells |->
                IF d \in {Contract!CR0, Contract!CR4} THEN regs[d] - Contract!Low(regs[d]) + 1
                ELSE IF d \in Contract!CET THEN 1 ELSE regs[d]]
<1>1. /\ machine \in Machines /\ caps = Caps /\ regs = [d \in Supported |-> slots[ArchSlot(d)]]
      /\ caps.cells = Supported /\ Supported \subseteq Registers \ LeftOut
  BY SupportedFacts, CapsFields DEF PlacesInv, HistoryInv, Regs
<1>2. ~Hardware /\ backend # "sail"
  BY DEF Hardware
<1>3. \A d \in Supported :
        \/ d \in Contract!FsBase /\ ArchSlot(d) = <<"base", 4>>
        \/ d \in Contract!GsBase /\ ArchSlot(d) = <<"base", 5>>
        \/ d \notin Contract!FsBase \cup Contract!GsBase /\ ArchSlot(d) = d
  BY <1>1, <1>2, ArchSlotByKind DEF PlainSlot
<1>4. \A d \in Supported : ArchSlot(d) \in DOMAIN slots /\ regs[d] = slots[ArchSlot(d)]
  BY <1>1 DEF PlacesInv
<1>5. Enabling = {Contract!CR0, Contract!CR4} /\ Contract!CET = {<<"msr", "S_CET">>, <<"msr", "U_CET">>}
  BY DEF Enabling, CR0, CR4, Contract!CR0, Contract!CR4, Contract!CET
<1>6. \A d \in Supported : /\ ArchSlot(d) \in Enabling <=> d \in Enabling
                           /\ ArchSlot(d) \in Contract!CET <=> d \in Contract!CET
                           /\ d \in Enabling \cup Contract!CET => ArchSlot(d) = d
  <2> SUFFICES ASSUME NEW d \in Supported
               PROVE  /\ ArchSlot(d) \in Enabling <=> d \in Enabling
                      /\ ArchSlot(d) \in Contract!CET <=> d \in Contract!CET
    BY <1>3 DEF Contract!FsBase, Contract!GsBase, Contract!CET, Enabling, CR0, CR4
  <2>1. CASE d \in Contract!FsBase \cup Contract!GsBase
    BY <1>3, <2>1 DEF Contract!FsBase, Contract!GsBase, Contract!CET, Enabling, CR0, CR4
  <2>2. CASE d \notin Contract!FsBase \cup Contract!GsBase
    BY <1>3, <2>2
  <2> QED BY <2>1, <2>2
<1>7. \A d \in Supported : EnabledSlots[ArchSlot(d)]
        = IF d \in Enabling THEN regs[d] - (regs[d] % 2) + 1 ELSE IF d \in Contract!CET THEN 1 ELSE regs[d]
  <2> HIDE DEF Supported, ArchSlot, Enabling, Contract!CET
  <2> QED BY <1>4, <1>5, <1>6 DEF EnabledSlots
<1> HIDE DEF EnabledSlots, Supported, ArchSlot
<1> QED BY <1>1, <1>5, <1>7 DEF RegsIn, Contract!Low

\* An instruction that retires.
LEMMA RetiringStep ==
  ASSUME PlacesInv, HistoryInv, NEW f
  PROVE  RegsIn([slots EXCEPT ![RIP] = @ + 1, ![RFLAGS] = @ \cup f])
           = [regs EXCEPT ![RIP] = @ + 1, ![RFLAGS] = @ \cup f]
<1>1. machine \in Machines /\ regs = [d \in Supported |-> slots[ArchSlot(d)]]
  BY DEF PlacesInv, HistoryInv, Regs
<1>2. /\ \A c \in Supported : /\ ArchSlot(c) = RIP <=> c = RIP
                              /\ ArchSlot(c) = RFLAGS <=> c = RFLAGS
      /\ RIP # RFLAGS
  BY <1>1, SupportedFacts
<1>3. \A c \in Supported : ArchSlot(c) \in DOMAIN slots
  BY DEF PlacesInv
<1> DEFINE new == [slots EXCEPT ![RIP] = @ + 1, ![RFLAGS] = @ \cup f]
           regs1 == [regs EXCEPT ![RIP] = @ + 1, ![RFLAGS] = @ \cup f]
<1> HIDE DEF Supported, ArchSlot, RIP, RFLAGS
<1>4. ASSUME NEW d \in Supported PROVE new[ArchSlot(d)] = regs1[d]
  <2>1. regs[d] = slots[ArchSlot(d)] /\ ArchSlot(d) \in DOMAIN slots /\ d \in DOMAIN regs
    BY <1>1, <1>3
  <2>2. CASE d = RIP
    BY <1>2, <2>1, <2>2
  <2>3. CASE d = RFLAGS
    BY <1>2, <2>1, <2>3
  <2>4. CASE d # RIP /\ d # RFLAGS
    BY <1>2, <2>1, <2>4
  <2> QED BY <2>2, <2>3, <2>4
<1>5. regs1 = [d \in Supported |-> regs1[d]]
  BY <1>1
<1> HIDE DEF new, regs1
<1>6. RegsIn(new) = regs1
  BY <1>4, <1>5 DEF RegsIn
<1> QED BY <1>6 DEF new, regs1

-----------------------------------------------------------------------------
(* Memory *)

LEMMA SmallMod ==
  ASSUME NEW P \in Nat \ {0}, NEW x \in 0..(P - 1)
  PROVE  x % P = x
OBVIOUS

LEMMA MemorySizes ==
  ASSUME machine \in Machines, caps = Caps
  PROVE  /\ AddrSpace \in Nat \ {0} /\ GuestLimit \in Nat /\ GuestLimit <= AddrSpace
         /\ caps.guest = GuestLimit /\ caps.bounded = Hardware
         /\ backend = "sail" => caps.phys = AddrSpace
         /\ ~Hardware /\ backend # "sail" => caps.phys = Phys
         /\ Hardware => caps.phys = Ram /\ GuestLimit = Ram
         /\ Phys \in Nat \ {0} /\ Ram \in Nat \ {0} /\ Ram < AddrSpace
<1>1. /\ AddrSpace \in Nat \ {0} /\ Ram \in Nat \ {0} /\ Ram < AddrSpace
      /\ Phys \in Nat \ {0} /\ IdLimit \in Nat /\ IdLimit <= AddrSpace
  BY SizesAssumption, MemoriesAssumption
<1>2. backend \in {"sail", "bochs", "kvm", "whp"} /\ (Hardware <=> backend \in {"kvm", "whp"})
  BY BackendFacts
<1>3. caps.phys = (CASE backend = "sail" -> AddrSpace [] backend = "bochs" -> Phys [] Hardware -> Ram)
      /\ caps.bounded = Hardware /\ caps.guest = GuestLimit
  BY CapsFields
<1>4. GuestLimit = CASE backend = "sail" -> AddrSpace [] backend = "bochs" -> IdLimit [] Hardware -> Ram
  BY DEF GuestLimit
<1> HIDE DEF backend, Hardware, GuestLimit, Caps
<1>5. CASE backend = "sail"
  BY <1>1, <1>2, <1>3, <1>4, <1>5
<1>6. CASE backend = "bochs"
  BY <1>1, <1>2, <1>3, <1>4, <1>6
<1>7. CASE Hardware
  BY <1>1, <1>2, <1>3, <1>4, <1>7
<1> QED BY <1>2, <1>5, <1>6, <1>7

\* A write of memory lands where the program's addresses do, or nowhere when it does not fit.
LEMMA WritesAreStores ==
  ASSUME machine \in Machines, caps = Caps, NEW m, NEW a \in Nat, NEW data \in Seq(Nat)
  PROVE  WriteBytes(m, a, data) = Contract!Store(m, a, data)
<1>1. Len(data) \in Nat /\ DOMAIN data = 1..Len(data)
  OBVIOUS
<1>2. /\ AddrSpace \in Nat \ {0} /\ caps.bounded = Hardware
      /\ backend = "sail" => caps.phys = AddrSpace
      /\ ~Hardware /\ backend # "sail" => caps.phys = Phys
      /\ Hardware => caps.phys = Ram
      /\ Phys \in Nat \ {0} /\ Ram \in Nat \ {0} /\ Ram < AddrSpace
  BY MemorySizes
<1> DEFINE at == [i \in DOMAIN data |-> Contract!At(a, i - 1)]
<1>3. Contract!Store(m, a, data) = IF caps.bounded => a + Len(data) <= caps.phys
                                   THEN PutBytes(m, at, data) ELSE m
  BY DEF Contract!Store, PutBytes, Contract!Lands
<1> HIDE DEF backend, Hardware
<1>4. CASE Hardware
  <2>1. WriteBytes(m, a, data)
          = IF a + Len(data) < AddrSpace /\ a + Len(data) <= Ram
            THEN PutBytes(m, [i \in DOMAIN data |-> a + i - 1], data) ELSE m
    BY <1>4 DEF WriteBytes, GuestRamWrite, Inside
  <2>2. CASE a + Len(data) <= Ram
    <3>1. a + Len(data) < AddrSpace
      BY <1>1, <1>2, <2>2
    <3>2. \A i \in DOMAIN data : Contract!At(a, i - 1) = a + i - 1
      <4> SUFFICES ASSUME NEW i \in 1..Len(data) PROVE Contract!At(a, i - 1) = a + i - 1
        BY <1>1
      <4>1. a + (i - 1) \in 0..(AddrSpace - 1) /\ a + (i - 1) \in 0..(Ram - 1)
        BY <1>1, <1>2, <2>2, <3>1
      <4>2. (a + (i - 1)) % AddrSpace = a + (i - 1)
        BY <1>2, <4>1, SmallMod
      <4>3. (a + (i - 1)) % Ram = a + (i - 1)
        BY <1>2, <4>1, SmallMod
      <4> QED BY <1>1, <1>2, <1>4, <4>2, <4>3 DEF Contract!At
    <3>3. at = [i \in DOMAIN data |-> a + i - 1]
      BY <3>2
    <3> HIDE DEF at
    <3> QED BY <1>2, <1>3, <1>4, <2>1, <2>2, <3>1, <3>3
  <2>3. CASE ~(a + Len(data) <= Ram)
    BY <1>2, <1>3, <1>4, <2>1, <2>3
  <2> QED BY <2>2, <2>3
<1>5. CASE ~Hardware
  <2>1. \A i \in DOMAIN data : Contract!At(a, i - 1) = Address(a, i - 1)
    <3> SUFFICES ASSUME NEW i \in 1..Len(data) PROVE Contract!At(a, i - 1) = Address(a, i - 1)
      BY <1>1
    <3>1. a + (i - 1) \in Nat
      BY <1>1
    <3>2. (a + (i - 1)) % AddrSpace \in 0..(AddrSpace - 1)
      BY <1>2, <3>1, SmallMod
    <3>3. ((a + (i - 1)) % AddrSpace) % AddrSpace = (a + (i - 1)) % AddrSpace
      BY <1>2, <3>2, SmallMod
    <3> QED BY <1>2, <1>5, <3>3 DEF Contract!At, Address
  <2>2. at = [i \in DOMAIN data |-> Address(a, i - 1)]
    BY <2>1
  <2>3. WriteBytes(m, a, data) = PutBytes(m, [i \in DOMAIN data |-> Address(a, i - 1)], data)
    BY <1>5 DEF WriteBytes
  <2> HIDE DEF at
  <2> QED BY <1>2, <1>3, <1>5, <2>2, <2>3
<1> QED BY <1>4, <1>5

LEMMA ReadsAreLoads ==
  ASSUME machine \in Machines, caps = Caps, NEW a \in Nat, NEW len \in Nat
  PROVE  read_mem(a, len) = Contract!Load(mem, a, len)
<1>2. /\ AddrSpace \in Nat \ {0} /\ caps.bounded = Hardware
      /\ backend = "sail" => caps.phys = AddrSpace
      /\ ~Hardware /\ backend # "sail" => caps.phys = Phys
      /\ Hardware => caps.phys = Ram
      /\ Phys \in Nat \ {0} /\ Ram \in Nat \ {0} /\ Ram < AddrSpace
  BY MemorySizes
<1> HIDE DEF backend, Hardware
<1>3. ASSUME NEW i \in 1..len
      PROVE  read_mem(a, len)[i] = Contract!Load(mem, a, len)[i]
  <2>1. a + (i - 1) \in Nat
    OBVIOUS
  <2>2. CASE Hardware
    <3>1. CASE a + len <= Ram
      <4>1. a + (i - 1) \in 0..(AddrSpace - 1) /\ a + (i - 1) \in 0..(Ram - 1) /\ a + len < AddrSpace
        BY <1>2, <3>1, SmallMod
      <4>2. (a + (i - 1)) % AddrSpace = a + (i - 1)
        BY <1>2, <4>1, SmallMod
      <4>3. (a + (i - 1)) % Ram = a + (i - 1)
        BY <1>2, <4>1, SmallMod
      <4>4. Contract!At(a, i - 1) = a + i - 1
        BY <1>2, <2>2, <4>2, <4>3 DEF Contract!At
      <4> QED BY <1>2, <2>2, <3>1, <4>1, <4>4 DEF read_mem, GuestRamRead, Inside, Contract!Load, Contract!Lands
    <3>2. CASE ~(a + len <= Ram)
      BY <1>2, <2>2, <3>2 DEF read_mem, GuestRamRead, Inside, Contract!Load, Contract!Lands
    <3> QED BY <3>1, <3>2
  <2>3. CASE ~Hardware
    <3>1. (a + (i - 1)) % AddrSpace \in 0..(AddrSpace - 1)
      BY <1>2, <2>1
    <3>2. ((a + (i - 1)) % AddrSpace) % AddrSpace = (a + (i - 1)) % AddrSpace
      BY <1>2, <3>1, SmallMod
    <3>3. Contract!At(a, i - 1) = Address(a, i - 1)
      BY <1>2, <2>3, <3>2 DEF Contract!At, Address
    <3> QED BY <1>2, <2>3, <3>3 DEF read_mem, Contract!Load, Contract!Lands
  <2> QED BY <2>2, <2>3
<1>4. /\ read_mem(a, len) = [i \in 1..len |-> read_mem(a, len)[i]]
      /\ Contract!Load(mem, a, len) = [i \in 1..len |-> Contract!Load(mem, a, len)[i]]
  BY DEF read_mem, GuestRamRead, Contract!Load
<1> QED BY <1>3, <1>4

\* The byte that a store of the program writes.
LEMMA ByteIsStored ==
  ASSUME machine \in Machines, caps = Caps, NEW m, NEW a \in Nat, a < GuestLimit
  PROVE  PutBytes(m, <<a % caps.phys>>, <<2>>) = Contract!Store(m, a, <<2>>)
<1>1. /\ AddrSpace \in Nat \ {0} /\ GuestLimit \in Nat /\ GuestLimit <= AddrSpace
      /\ caps.bounded = Hardware /\ (Hardware => caps.phys = GuestLimit)
  BY MemorySizes
<1>2. a \in 0..(AddrSpace - 1)
  BY <1>1
<1>3. (a + 0) % AddrSpace = a
  BY <1>1, <1>2, SmallMod
<1>4. Contract!At(a, 1 - 1) = a % caps.phys
  BY <1>3 DEF Contract!At
<1>5. [i \in DOMAIN <<2>> |-> Contract!At(a, i - 1)] = <<a % caps.phys>>
  BY <1>4
<1>6. Len(<<2>>) = 1 /\ (caps.bounded => a + 1 <= caps.phys)
  BY <1>1
<1> QED BY <1>5, <1>6 DEF Contract!Store, PutBytes, Contract!Lands

-----------------------------------------------------------------------------
(* The frames of a shadow stack *)

LEMMA FrameFacts ==
  ASSUME NEW a \in Nat
  PROVE  /\ FrameOf(a) = Frame * (a \div Frame) /\ a \div Frame \in Nat /\ FrameOf(a) \in Nat
         /\ FrameOf(a) <= a /\ a < FrameOf(a) + Frame /\ FrameOf(a) % Frame = 0
BY SizesAssumption, FloorFacts DEF FrameOf, Floor

LEMMA FramesAreOrdered ==
  ASSUME NEW a \in Nat, NEW b \in Nat, a <= b
  PROVE  FrameOf(a) <= FrameOf(b)
BY SizesAssumption, FloorsAreOrdered DEF FrameOf, Floor

\* Frames that begin less than a frame apart are one.
LEMMA FramesAreApart ==
  ASSUME NEW f \in Nat, NEW g \in Nat, f % Frame = 0, g % Frame = 0, f < g
  PROVE  f + Frame <= g
<1>1. Frame \in Nat \ {0}
  BY SizesAssumption
<1>2. /\ FrameOf(f) = f /\ f = Frame * (f \div Frame) /\ f \div Frame \in Nat
      /\ FrameOf(g) = g /\ g = Frame * (g \div Frame) /\ g \div Frame \in Nat
  BY <1>1, FrameFacts DEF FrameOf
<1>3. f \div Frame < g \div Frame
  <2> SUFFICES ASSUME ~(f \div Frame < g \div Frame) PROVE FALSE
    OBVIOUS
  <2>1. f \div Frame = g \div Frame \/ g \div Frame < f \div Frame
    BY <1>2
  <2>2. CASE g \div Frame < f \div Frame
    <3>1. Frame * (g \div Frame) + Frame <= Frame * (f \div Frame)
      BY <1>1, <1>2, <2>2, Multiples
    <3> QED BY <1>1, <1>2, <3>1
  <2> QED BY <1>2, <2>1, <2>2
<1> QED BY <1>1, <1>2, <1>3, Multiples

LEMMA SameFrame ==
  ASSUME NEW a \in Nat, NEW b \in Nat
  PROVE  a \div Frame = b \div Frame <=> FrameOf(a) = FrameOf(b)
<1>1. Frame \in Nat \ {0}
  BY SizesAssumption
<1>2. /\ FrameOf(a) = Frame * (a \div Frame) /\ a \div Frame \in Nat
      /\ FrameOf(b) = Frame * (b \div Frame) /\ b \div Frame \in Nat
  BY FrameFacts
<1>3. ASSUME NEW i \in Nat, NEW j \in Nat, i < j PROVE Frame * i # Frame * j
  <2>1. Frame * i + Frame <= Frame * j /\ Frame * i \in Nat /\ Frame * j \in Nat
    BY <1>1, <1>3, Multiples
  <2> QED BY <1>1, <2>1
<1>4. \/ a \div Frame = b \div Frame \/ a \div Frame < b \div Frame \/ b \div Frame < a \div Frame
  BY <1>2
<1> QED BY <1>2, <1>3, <1>4

\* The frames that the addresses lo..hi lie in.
FramesBetween(lo, hi) == {f \in Nat : f % Frame = 0 /\ FrameOf(lo) <= f /\ f <= FrameOf(hi)}

LEMMA TouchedFrames ==
  ASSUME NEW lo \in Nat, NEW hi \in Nat, lo <= hi, NEW f \in Nat
  PROVE  f \in FramesBetween(lo, hi) <=> \E y \in lo..hi : FrameOf(y) = f
<1>1. ASSUME NEW y \in lo..hi, FrameOf(y) = f PROVE f \in FramesBetween(lo, hi)
  <2>1. FrameOf(lo) <= FrameOf(y) /\ FrameOf(y) <= FrameOf(hi)
    BY FramesAreOrdered
  <2> QED BY <1>1, <2>1, FrameFacts DEF FramesBetween
<1>2. ASSUME f \in FramesBetween(lo, hi) PROVE \E y \in lo..hi : FrameOf(y) = f
  <2>1. f % Frame = 0 /\ FrameOf(lo) <= f /\ f <= FrameOf(hi)
    BY <1>2 DEF FramesBetween
  <2>2. FrameOf(lo) \in Nat /\ FrameOf(lo) % Frame = 0 /\ lo < FrameOf(lo) + Frame /\ FrameOf(hi) <= hi
        /\ FrameOf(hi) \in Nat
    BY FrameFacts
  <2>3. Frame \in Nat \ {0}
    BY SizesAssumption
  <2>4. CASE f <= lo
    <3>1. ~(FrameOf(lo) < f)
      <4> SUFFICES ASSUME FrameOf(lo) < f PROVE FALSE
        OBVIOUS
      <4>1. FrameOf(lo) + Frame <= f
        BY <2>1, <2>2, FramesAreApart
      <4> QED BY <2>2, <2>3, <2>4, <4>1
    <3>2. FrameOf(lo) = f
      BY <2>1, <2>2, <3>1
    <3> QED BY <3>2
  <2>5. CASE lo < f
    <3>1. f \in lo..hi
      BY <2>1, <2>2, <2>5
    <3>2. FrameOf(f) = f
      BY <2>1, <2>3 DEF FrameOf
    <3> QED BY <3>1, <3>2
  <2> QED BY <2>4, <2>5
<1> QED BY <1>1, <1>2

LEMMA Mapped ==
  ASSUME NEW base \in Nat, NEW len \in Nat
  PROVE  LET refused == \/ len = 0 \/ base + len > IdLimit
                        \/ FramesBetween(base, base + len - 1)
                             \cap FramesBetween(PtBase, PtBase + PtBytes - 1) # {}
         IN map_shadow_stack(base, len)
              = IF refused THEN {} ELSE FramesBetween(base, base + len - 1)
<1> DEFINE hi == base + len - 1
           pt == PtBase + PtBytes - 1
           last == FrameOf(hi) + Frame - 1
           pt_last == FrameOf(pt) + Frame - 1
<1>1. /\ Frame \in Nat \ {0} /\ IdLimit \in Nat /\ PtBase \in Nat /\ PtBytes \in Nat /\ PtBytes # 0
      /\ pt \in Nat
  BY SizesAssumption, MemoriesAssumption
<1>2. map_shadow_stack(base, len) = IF \/ len = 0 \/ base >= IdLimit \/ len > IdLimit - base
                                       \/ FrameOf(base) <= pt_last /\ FrameOf(PtBase) <= last
                                    THEN {} ELSE {f \in FrameOf(base)..last : f % Frame = 0}
  BY DEF map_shadow_stack
<1>3. (len = 0 \/ base >= IdLimit \/ len > IdLimit - base) <=> (len = 0 \/ base + len > IdLimit)
  BY <1>1
<1>4. ASSUME len # 0
      PROVE  /\ {f \in FrameOf(base)..last : f % Frame = 0} = FramesBetween(base, hi)
             /\ (FrameOf(base) <= pt_last /\ FrameOf(PtBase) <= last)
                  <=> FramesBetween(base, hi) \cap FramesBetween(PtBase, pt) # {}
  <2>1. hi \in Nat
    BY <1>4
  <2>2. /\ FrameOf(base) \in Nat /\ FrameOf(base) % Frame = 0
        /\ FrameOf(hi) \in Nat /\ FrameOf(hi) % Frame = 0
        /\ FrameOf(PtBase) \in Nat /\ FrameOf(PtBase) % Frame = 0
        /\ FrameOf(pt) \in Nat /\ FrameOf(pt) % Frame = 0
    BY <1>1, <2>1, FrameFacts
  <2> HIDE DEF hi, pt
  <2>3. ASSUME NEW f \in Nat, NEW g \in Nat, f % Frame = 0, g % Frame = 0
        PROVE  f <= g + Frame - 1 <=> f <= g
    <3>1. g < f => g + Frame <= f
      BY <2>3, FramesAreApart
    <3> QED BY <1>1, <3>1
  <2>4. {f \in FrameOf(base)..last : f % Frame = 0} = FramesBetween(base, hi)
    <3>1. ASSUME NEW f \in Nat, f % Frame = 0 PROVE f <= last <=> f <= FrameOf(hi)
      BY <2>2, <2>3, <3>1
    <3>2. \A f : f \in FrameOf(base)..last <=> f \in Nat /\ FrameOf(base) <= f /\ f <= last
      BY <1>1, <2>2
    <3> HIDE DEF last
    <3> QED BY <3>1, <3>2 DEF FramesBetween
  <2>5. /\ FrameOf(base) <= pt_last <=> FrameOf(base) <= FrameOf(pt)
        /\ FrameOf(PtBase) <= last <=> FrameOf(PtBase) <= FrameOf(hi)
    BY <2>2, <2>3
  <2>6. ASSUME FrameOf(base) <= FrameOf(pt), FrameOf(PtBase) <= FrameOf(hi)
        PROVE  FramesBetween(base, hi) \cap FramesBetween(PtBase, pt) # {}
    <3>1. base <= hi /\ PtBase <= pt
      BY <1>1, <1>4 DEF hi, pt
    <3>2. FrameOf(base) <= FrameOf(hi) /\ FrameOf(PtBase) <= FrameOf(pt)
      BY <1>1, <2>1, <3>1, FramesAreOrdered
    <3>3. CASE FrameOf(base) <= FrameOf(PtBase)
      <4>1. FrameOf(PtBase) \in FramesBetween(base, hi) \cap FramesBetween(PtBase, pt)
        BY <2>2, <2>6, <3>2, <3>3 DEF FramesBetween
      <4> QED BY <4>1
    <3>4. CASE FrameOf(PtBase) <= FrameOf(base)
      <4>1. FrameOf(base) \in FramesBetween(base, hi) \cap FramesBetween(PtBase, pt)
        BY <2>2, <2>6, <3>2, <3>4 DEF FramesBetween
      <4> QED BY <4>1
    <3> QED BY <2>2, <3>3, <3>4
  <2>7. ASSUME FramesBetween(base, hi) \cap FramesBetween(PtBase, pt) # {}
        PROVE  FrameOf(base) <= FrameOf(pt) /\ FrameOf(PtBase) <= FrameOf(hi)
    <3>1. PICK f : f \in FramesBetween(base, hi) /\ f \in FramesBetween(PtBase, pt)
      BY <2>7
    <3> QED BY <2>2, <3>1 DEF FramesBetween
  <2> QED BY <2>4, <2>5, <2>6, <2>7
<1> HIDE DEF hi, pt, last, pt_last
<1>5. CASE len = 0
  BY <1>2, <1>5
<1>6. CASE len # 0
  <2> DEFINE meets == FramesBetween(base, hi) \cap FramesBetween(PtBase, pt) # {}
             between == FramesBetween(base, hi)
  <2>1. (FrameOf(base) <= pt_last /\ FrameOf(PtBase) <= last) <=> meets
    BY <1>4, <1>6
  <2>2. {f \in FrameOf(base)..last : f % Frame = 0} = between
    BY <1>4, <1>6
  <2> HIDE DEF meets, between
  <2>3. map_shadow_stack(base, len) = IF \/ len = 0 \/ base >= IdLimit \/ len > IdLimit - base \/ meets
                                      THEN {} ELSE between
    BY <1>2, <2>1, <2>2
  <2>4. map_shadow_stack(base, len) = IF len = 0 \/ base + len > IdLimit \/ meets THEN {} ELSE between
    BY <1>3, <2>3
  <2> QED BY <2>4 DEF meets, between, hi, pt
<1> QED BY <1>5, <1>6 DEF hi, pt

\* enable_shadow_stack refuses the ranges that the trait says it refuses, and what it
\* makes a shadow stack otherwise is the frames of the range.
LEMMA RangesAreFrames ==
  ASSUME NEW base \in Nat, NEW len \in Nat
  PROVE  /\ map_shadow_stack(base, len) = {} <=> Contract!BadRange(base, len)
         /\ ~Contract!BadRange(base, len) =>
              UNION {f..(f + Frame - 1) : f \in map_shadow_stack(base, len)}
                = Contract!Covered(base, len)
<1> DEFINE hi == base + len - 1
           pt == PtBase + PtBytes - 1
           asked == FramesBetween(base, hi)
           tables == FramesBetween(PtBase, pt)
<1>1. /\ Frame \in Nat \ {0} /\ IdLimit \in Nat /\ IdLimit % Frame = 0
      /\ PtBase \in Nat /\ PtBytes \in Nat /\ PtBytes # 0 /\ pt \in Nat /\ PtBase <= pt
  BY SizesAssumption, MemoriesAssumption
<1>2. map_shadow_stack(base, len)
        = IF len = 0 \/ base + len > IdLimit \/ asked \cap tables # {} THEN {} ELSE asked
  BY Mapped
<1>3. CASE len = 0 \/ base + len > IdLimit
  <2>1. Contract!BadRange(base, len)
    BY <1>3 DEF Contract!BadRange
  <2> QED BY <1>2, <1>3, <2>1
<1>4. CASE len # 0 /\ base + len <= IdLimit
  <2>1. hi \in Nat /\ base <= hi /\ hi < IdLimit
    BY <1>1, <1>4
  <2>2. ASSUME NEW x \in Nat
        PROVE  (\E i \in 0..(len - 1) : x \div Frame = (base + i) \div Frame) <=> FrameOf(x) \in asked
    <3>1. FrameOf(x) \in Nat
      BY FrameFacts
    <3>2. (\E i \in 0..(len - 1) : x \div Frame = (base + i) \div Frame)
            <=> \E y \in base..hi : FrameOf(y) = FrameOf(x)
      <4>1. ASSUME NEW i \in 0..(len - 1), x \div Frame = (base + i) \div Frame
            PROVE  \E y \in base..hi : FrameOf(y) = FrameOf(x)
        <5>1. base + i \in base..hi /\ base + i \in Nat
          BY <1>4
        <5> HIDE DEF hi
        <5> QED BY <4>1, <5>1, SameFrame
      <4>2. ASSUME NEW y \in base..hi, FrameOf(y) = FrameOf(x)
            PROVE  \E i \in 0..(len - 1) : x \div Frame = (base + i) \div Frame
        <5>1. y - base \in 0..(len - 1) /\ base + (y - base) = y /\ y \in Nat
          BY <1>4
        <5>2. x \div Frame = (base + (y - base)) \div Frame
          BY <4>2, <5>1, SameFrame
        <5> QED BY <5>1, <5>2
      <4> QED BY <4>1, <4>2
    <3> HIDE DEF hi
    <3>3. FrameOf(x) \in FramesBetween(base, hi) <=> \E y \in base..hi : FrameOf(y) = FrameOf(x)
      BY <2>1, <3>1, TouchedFrames
    <3> HIDE DEF FramesBetween
    <3> QED BY <3>2, <3>3
  <2>3. ASSUME NEW x \in Nat
        PROVE  (\E p \in PtBase..pt : p \div Frame = x \div Frame) <=> FrameOf(x) \in tables
    <3>1. FrameOf(x) \in Nat
      BY FrameFacts
    <3>2. \A p \in PtBase..pt : p \in Nat /\ (p \div Frame = x \div Frame <=> FrameOf(p) = FrameOf(x))
      BY <1>1, SameFrame
    <3> HIDE DEF pt
    <3> QED BY <1>1, <3>1, <3>2, TouchedFrames
  <2> HIDE DEF hi, pt
  <2>4. ASSUME NEW f \in asked PROVE f \in Nat /\ f % Frame = 0 /\ f + Frame <= IdLimit
    <3>1. f \in Nat /\ f % Frame = 0 /\ f <= FrameOf(hi) /\ FrameOf(hi) <= hi /\ FrameOf(hi) \in Nat
      BY <2>1, FrameFacts DEF FramesBetween
    <3>2. f < IdLimit
      BY <1>1, <2>1, <3>1
    <3> QED BY <1>1, <3>1, <3>2, FramesAreApart
  <2>5. Contract!Covered(base, len) = {x \in 0..(IdLimit - 1) : FrameOf(x) \in asked}
    <3>1. Contract!Covered(base, len)
            = {x \in 0..(IdLimit - 1) : \E i \in 0..(len - 1) : x \div Frame = (base + i) \div Frame}
      BY DEF Contract!Covered
    <3>2. \A x \in 0..(IdLimit - 1) :
            (\E i \in 0..(len - 1) : x \div Frame = (base + i) \div Frame) <=> FrameOf(x) \in asked
      BY <2>2
    <3> HIDE DEF asked
    <3> QED BY <3>1, <3>2
  <2>6. Contract!ReservedFrames = {x \in 0..(IdLimit - 1) : FrameOf(x) \in tables}
    BY <2>3 DEF Contract!ReservedFrames, pt
  <2>7. asked \cap tables # {} <=> Contract!Covered(base, len) \cap Contract!ReservedFrames # {}
    <3> HIDE DEF tables
    <3>1. ASSUME NEW f \in asked, f \in tables
          PROVE  f \in Contract!Covered(base, len) \cap Contract!ReservedFrames
      <4>1. FrameOf(f) = f /\ f \in 0..(IdLimit - 1)
        BY <1>1, <2>4 DEF FrameOf
      <4> HIDE DEF asked
      <4> QED BY <2>5, <2>6, <3>1, <4>1
    <3> HIDE DEF asked
    <3>2. ASSUME NEW x, x \in Contract!Covered(base, len), x \in Contract!ReservedFrames
          PROVE  FrameOf(x) \in asked \cap tables
      BY <2>5, <2>6, <3>2
    <3> QED BY <3>1, <3>2
  <2>8. UNION {f..(f + Frame - 1) : f \in asked} = {x \in 0..(IdLimit - 1) : FrameOf(x) \in asked}
    <3>1. ASSUME NEW f \in asked, NEW x \in f..(f + Frame - 1)
          PROVE  x \in 0..(IdLimit - 1) /\ FrameOf(x) \in asked
      <4>1. f \in Nat /\ f % Frame = 0 /\ f + Frame <= IdLimit
        BY <2>4
      <4>2. FrameOf(x) = f
        BY <4>1, FrameIsItsOwn
      <4> QED BY <1>1, <4>1, <4>2
    <3>2. ASSUME NEW x \in 0..(IdLimit - 1), FrameOf(x) \in asked
          PROVE  \E f \in asked : x \in f..(f + Frame - 1)
      <4>1. x \in FrameOf(x)..(FrameOf(x) + Frame - 1)
        BY <1>1, FrameFacts
      <4> QED BY <3>2, <4>1
    <3> HIDE DEF asked
    <3> QED BY <3>1, <3>2
  <2>9. asked # {}
    <3>1. FrameOf(base) \in asked
      BY <2>1, FrameFacts, FramesAreOrdered DEF FramesBetween
    <3> QED BY <3>1
  <2>10. Contract!BadRange(base, len) <=> asked \cap tables # {}
    <3> HIDE DEF asked, tables
    <3> QED BY <1>1, <1>4, <2>7 DEF Contract!BadRange
  <2> HIDE DEF asked, tables
  <2> QED BY <1>2, <1>4, <1>1, <2>5, <2>8, <2>9, <2>10
<1> QED BY <1>1, <1>3, <1>4

-----------------------------------------------------------------------------
(* The components of an XSAVE image *)

LEMMA Aligned ==
  ASSUME NEW x \in Nat
  PROVE  Align64(x) \in Nat /\ x <= Align64(x)
BY DEF Align64

\* Where a component goes after what ends at x.
PlaceAfter(h, i, x) == IF h.cpuid[i].aligned THEN Align64(x) ELSE x

\* An image whose components have sizes and places, each after the one before it.
Laid(h) ==
  /\ \A i \in DOMAIN h.cpuid : h.cpuid[i].size \in Nat
  /\ \A i \in Packed(h) : h.base[i] \in Nat
  /\ PackedInOrder(h)

LEMMA PackedFacts ==
  ASSUME NEW h, Laid(h), NEW i \in Packed(h)
  PROVE  /\ i \in 2..7 /\ i \in h.xcomp /\ i \in DOMAIN h.cpuid
         /\ CpuidSize(h.cpuid, i) = h.cpuid[i].size
         /\ h.cpuid[i].size \in Nat /\ h.cpuid[i].size # 0 /\ h.base[i] \in Nat
BY DEF Laid, Packed, CpuidSize

\* No component of a compacted image reaches into the header or into another.
LEMMA PackedApart ==
  ASSUME NEW h, Laid(h), NEW j \in Packed(h)
  PROVE  /\ h.base[j] >= XSAVE_COMPACT_BASE
         /\ \A i \in Packed(h) : i < j => h.base[i] + h.cpuid[i].size <= h.base[j]
<1> DEFINE Good(k) == k \in Packed(h) =>
                        /\ h.base[k] >= XSAVE_COMPACT_BASE
                        /\ \A i \in Packed(h) : i < k => h.base[i] + h.cpuid[i].size <= h.base[k]
<1>1. ASSUME NEW k \in 2..7, \A l \in 2..(k - 1) : Good(l) PROVE Good(k)
  <2> SUFFICES ASSUME k \in Packed(h)
               PROVE  /\ h.base[k] >= XSAVE_COMPACT_BASE
                      /\ \A i \in Packed(h) : i < k => h.base[i] + h.cpuid[i].size <= h.base[k]
    OBVIOUS
  <2>1. \/ (\A i \in Packed(h) : k <= i) /\ h.base[k] = PlaceAfter(h, k, XSAVE_COMPACT_BASE)
        \/ \E l \in Packed(h) : /\ l < k /\ \A i \in Packed(h) : i <= l \/ k <= i
                                /\ h.base[k] = PlaceAfter(h, k, h.base[l] + h.cpuid[l].size)
    BY DEF Laid, PackedInOrder, PlaceAfter
  <2>2. \A x \in Nat : PlaceAfter(h, k, x) >= x /\ PlaceAfter(h, k, x) \in Nat
    BY Aligned DEF PlaceAfter
  <2>3. CASE (\A i \in Packed(h) : k <= i) /\ h.base[k] = PlaceAfter(h, k, XSAVE_COMPACT_BASE)
    <3>1. XSAVE_COMPACT_BASE \in Nat
      BY DEF XSAVE_COMPACT_BASE
    <3> QED BY <2>2, <2>3, <3>1, PackedFacts
  <2>4. ASSUME NEW l \in Packed(h), l < k, \A i \in Packed(h) : i <= l \/ k <= i,
               h.base[k] = PlaceAfter(h, k, h.base[l] + h.cpuid[l].size)
        PROVE  /\ h.base[k] >= XSAVE_COMPACT_BASE
               /\ \A i \in Packed(h) : i < k => h.base[i] + h.cpuid[i].size <= h.base[k]
    <3>1. l \in 2..7 /\ h.base[l] \in Nat /\ h.cpuid[l].size \in Nat
      BY PackedFacts
    <3>2. /\ h.base[l] >= XSAVE_COMPACT_BASE
          /\ \A i \in Packed(h) : i < l => h.base[i] + h.cpuid[i].size <= h.base[l]
      <4>1. l \in 2..(k - 1)
        BY <2>4, <3>1
      <4>2. Good(l)
        BY <1>1, <4>1
      <4> QED BY <4>2
    <3>3. h.base[k] >= h.base[l] + h.cpuid[l].size /\ h.base[k] \in Nat
      BY <2>2, <2>4, <3>1
    <3>4. XSAVE_COMPACT_BASE \in Nat
      BY DEF XSAVE_COMPACT_BASE
    <3>5. ASSUME NEW i \in Packed(h), i < k PROVE h.base[i] + h.cpuid[i].size <= h.base[k]
      <4>1. i \in 2..7 /\ h.base[i] \in Nat /\ h.cpuid[i].size \in Nat
        BY PackedFacts
      <4>2. i = l \/ i < l
        BY <2>4, <3>1, <3>5, <4>1
      <4> QED BY <3>1, <3>2, <3>3, <4>1, <4>2
    <3> QED BY <3>1, <3>2, <3>3, <3>4, <3>5
  <2> QED BY <2>1, <2>3, <2>4
<1> HIDE DEF Good
<1>2. Good(2)
  BY <1>1
<1>3. Good(3)
  BY <1>1, <1>2
<1>4. Good(4)
  BY <1>1, <1>2, <1>3
<1>5. Good(5)
  BY <1>1, <1>2, <1>3, <1>4
<1>6. Good(6)
  BY <1>1, <1>2, <1>3, <1>4, <1>5
<1>7. Good(7)
  BY <1>1, <1>2, <1>3, <1>4, <1>5, <1>6
<1>8. j \in 2..7
  BY PackedFacts
<1> QED BY <1>2, <1>3, <1>4, <1>5, <1>6, <1>7, <1>8 DEF Good

\* CompactedOffset finds a component where it lies: it adds up the ones below it.
LEMMA CompactedIsPlaced ==
  ASSUME NEW h, Laid(h), NEW index \in Packed(h)
  PROVE  CompactedOffset(h.cpuid, h.xcomp, index) = h.base[index]
<1> DEFINE counted(i) == i \in h.xcomp /\ CpuidSize(h.cpuid, i) # 0
           next(i, x) == IF counted(i) THEN PlaceAfter(h, i, x) + h.cpuid[i].size ELSE x
           Body(f) == [i \in 1..index |-> IF i = 1 THEN XSAVE_COMPACT_BASE
                                          ELSE IF counted(i)
                                          THEN (IF h.cpuid[i].aligned THEN Align64(f[i - 1]) ELSE f[i - 1])
                                               + h.cpuid[i].size
                                          ELSE f[i - 1]]
           end == CHOOSE f : f = Body(f)
<1>1. CompactedOffset(h.cpuid, h.xcomp, index) = PlaceAfter(h, index, end[index - 1])
  BY DEF CompactedOffset, PlaceAfter
<1>2. index \in 2..7 /\ \A i \in 2..7 : counted(i) <=> i \in Packed(h)
  BY PackedFacts DEF Packed
<1>3. end = Body(end)
  <2> DEFINE e1 == XSAVE_COMPACT_BASE
             e2 == next(2, e1)
             e3 == next(3, e2)
             e4 == next(4, e3)
             e5 == next(5, e4)
             e6 == next(6, e5)
             e7 == next(7, e6)
             w == [i \in 1..index |-> IF i = 1 THEN e1 ELSE IF i = 2 THEN e2 ELSE IF i = 3 THEN e3
                     ELSE IF i = 4 THEN e4 ELSE IF i = 5 THEN e5 ELSE IF i = 6 THEN e6 ELSE e7]
  <2>1. \A i \in 2..7 : \A x : next(i, x) = IF counted(i)
                                        THEN (IF h.cpuid[i].aligned THEN Align64(x) ELSE x) + h.cpuid[i].size
                                        ELSE x
    BY DEF PlaceAfter
  <2>2. /\ e2 = next(2, e1) /\ e3 = next(3, e2) /\ e4 = next(4, e3) /\ e5 = next(5, e4)
        /\ e6 = next(6, e5) /\ e7 = next(7, e6) /\ e1 = XSAVE_COMPACT_BASE
    OBVIOUS
  <2> HIDE DEF e1, e2, e3, e4, e5, e6, e7
  <2>3. \A i \in 2..index : w[i] = next(i, w[i - 1])
    <3>1. \A i \in 2..index : i \in {2, 3, 4, 5, 6, 7}
      BY <1>2
    <3> HIDE DEF next
    <3> QED BY <1>2, <2>2, <3>1
  <2>4. \A i \in 1..index : w[i] = Body(w)[i]
    <3>1. \A i \in 1..index : i = 1 \/ (i \in 2..index /\ i \in 2..7)
      BY <1>2
    <3>2. w[1] = XSAVE_COMPACT_BASE
      <4>1. 1 \in 1..index
        BY <1>2
      <4>2. w[1] = e1
        BY <4>1
      <4> QED BY <2>2, <4>2
    <3> HIDE DEF w, next, counted
    <3> QED BY <2>1, <2>3, <3>1, <3>2
  <2>5. w = Body(w)
    BY <2>4
  <2> HIDE DEF w
  <2> DEFINE P(f) == f = Body(f)
  <2>6. P(w)
    BY <2>5
  <2> HIDE DEF P
  <2>7. P(CHOOSE f : P(f))
    BY <2>6
  <2> QED BY <2>7 DEF P
<1> HIDE DEF end
<1>4. /\ end[1] = XSAVE_COMPACT_BASE
      /\ \A i \in 2..index : end[i] = next(i, end[i - 1])
  <2>1. \A i \in 1..index : end[i] = Body(end)[i]
    BY <1>3
  <2>2. 1 \in 1..index /\ \A i \in 2..index : i \in 1..index /\ i # 1
    BY <1>2
  <2> HIDE DEF counted
  <2> QED BY <2>1, <2>2 DEF PlaceAfter
<1> DEFINE Ends(k) == \/ (\A i \in Packed(h) : k < i) /\ end[k] = XSAVE_COMPACT_BASE
                      \/ \E j \in Packed(h) : /\ j <= k /\ \A i \in Packed(h) : i <= j \/ k < i
                                              /\ end[k] = h.base[j] + h.cpuid[j].size
<1>5. Ends(1)
  BY <1>4, PackedFacts
\* What comes after the components below k.
<1>6. ASSUME NEW k \in Packed(h), k <= index, Ends(k - 1)
      PROVE  h.base[k] = PlaceAfter(h, k, end[k - 1])
  <2>1. k \in 2..7
    BY PackedFacts
  <2>2. \A i \in Packed(h) : i \in 2..7
    BY PackedFacts
  <2>3. \/ (\A i \in Packed(h) : k <= i) /\ h.base[k] = PlaceAfter(h, k, XSAVE_COMPACT_BASE)
        \/ \E l \in Packed(h) : /\ l < k /\ \A i \in Packed(h) : i <= l \/ k <= i
                                /\ h.base[k] = PlaceAfter(h, k, h.base[l] + h.cpuid[l].size)
    BY DEF Laid, PackedInOrder, PlaceAfter
  <2>4. CASE (\A i \in Packed(h) : k <= i) /\ h.base[k] = PlaceAfter(h, k, XSAVE_COMPACT_BASE)
    <3>1. ASSUME NEW j \in Packed(h), j <= k - 1 PROVE FALSE
      <4>1. j \in 2..7 /\ k <= j
        BY <2>2, <2>4
      <4> QED BY <2>1, <3>1, <4>1
    <3>2. end[k - 1] = XSAVE_COMPACT_BASE
      BY <1>6, <3>1
    <3> QED BY <2>4, <3>2
  <2>5. ASSUME NEW l \in Packed(h), l < k, \A i \in Packed(h) : i <= l \/ k <= i,
               h.base[k] = PlaceAfter(h, k, h.base[l] + h.cpuid[l].size)
        PROVE  h.base[k] = PlaceAfter(h, k, end[k - 1])
    <3>1. PICK j \in Packed(h) : /\ j <= k - 1 /\ \A i \in Packed(h) : i <= j \/ k - 1 < i
                                 /\ end[k - 1] = h.base[j] + h.cpuid[j].size
      BY <1>6, <2>1, <2>2, <2>5
    <3>2. j = l
      <4>1. j \in 2..7 /\ l \in 2..7
        BY <2>2
      <4>2. j <= l \/ k <= j
        BY <2>5
      <4>3. l <= j \/ k - 1 < l
        BY <3>1
      <4> QED BY <2>1, <2>5, <3>1, <4>1, <4>2, <4>3
    <3> QED BY <2>5, <3>1, <3>2
  <2> QED BY <2>3, <2>4, <2>5
<1>7. ASSUME NEW k \in 2..7, k <= index, Ends(k - 1) PROVE Ends(k)
  <2>1. end[k] = next(k, end[k - 1])
    BY <1>2, <1>4, <1>7
  <2>2. \A i \in Packed(h) : i \in 2..7
    BY PackedFacts
  <2>3. CASE k \in Packed(h)
    <3>1. end[k] = h.base[k] + h.cpuid[k].size
      BY <1>2, <1>6, <1>7, <2>1, <2>3
    <3>2. \A i \in Packed(h) : i <= k \/ k < i
      BY <2>2
    <3> QED BY <2>3, <3>1, <3>2
  <2>4. CASE k \notin Packed(h)
    <3>1. end[k] = end[k - 1]
      BY <1>2, <2>1, <2>4
    <3>2. \A i \in Packed(h) : /\ k - 1 < i => k < i
                               /\ i <= k - 1 => i <= k
      BY <2>2, <2>4
    <3> QED BY <1>7, <3>1, <3>2
  <2> QED BY <2>3, <2>4
<1> HIDE DEF Ends
<1>8. \A k \in 2..7 : k <= index => k <= 7 /\ k - 1 \in 1..6 /\ (k > 2 => k - 1 \in 2..7 /\ k - 1 <= index)
  BY <1>2
<1>9. Ends(index - 1)
  <2>1. 2 <= index => Ends(2)
    BY <1>5, <1>7
  <2>2. 3 <= index => Ends(3)
    BY <1>2, <1>7, <2>1
  <2>3. 4 <= index => Ends(4)
    BY <1>2, <1>7, <2>2
  <2>4. 5 <= index => Ends(5)
    BY <1>2, <1>7, <2>3
  <2>5. 6 <= index => Ends(6)
    BY <1>2, <1>7, <2>4
  <2>6. index \in {2, 3, 4, 5, 6, 7}
    BY <1>2
  <2> QED BY <1>5, <2>1, <2>2, <2>3, <2>4, <2>5, <2>6
<1>10. h.base[index] = PlaceAfter(h, index, end[index - 1])
  BY <1>2, <1>6, <1>9
<1> QED BY <1>1, <1>10

\* The vector components of the images, in either format.
HasComponents == {2, 6, 7} \cap EffectiveXcr0(machine)

LEMMA Sizes ==
  /\ VectorSize[2] = 256 /\ VectorSize[6] = 512 /\ VectorSize[7] = 1024
  /\ \A i \in {2, 6, 7} : VectorSize[i] \in Nat \ {0}
BY DEF VectorSize

LEMMA HostFacts ==
  ASSUME machine \in Machines, Hardware
  PROVE  /\ OffersVectors(machine) /\ ImagesAreArchitectural(machine)
         /\ \A i \in HasComponents :
              /\ CpuidSize(host.cpuid, i) = VectorSize[i] /\ host.base[i] \in Nat
              /\ host.base[i] >= XSAVE_COMPACT_BASE /\ host.base[i] + VectorSize[i] <= host.len
              /\ host.len \in Nat
         /\ \A i, j \in HasComponents :
              i < j => \/ host.base[i] + VectorSize[i] <= host.base[j]
                       \/ host.base[j] + VectorSize[j] <= host.base[i]
         /\ \A i \in HasComponents : IF COMPACTED \in host.xcomp
              THEN i \in host.xcomp /\ CompactedOffset(host.cpuid, host.xcomp, i) = host.base[i]
              ELSE host.cpuid[i].offset = host.base[i]
<1>1. OffersVectors(machine) /\ ImagesAreArchitectural(machine)
  BY HostsAssumption, BackendFacts DEF backend
<1>2. /\ host.len \in Nat
      /\ \A i \in DOMAIN host.cpuid : host.cpuid[i] \in [size : Nat, offset : Nat, aligned : BOOLEAN]
      /\ \A i \in HasComponents : /\ i \in DOMAIN host.cpuid /\ host.cpuid[i].size = VectorSize[i]
                                  /\ host.base[i] \in Nat /\ host.base[i] + VectorSize[i] <= host.len
      /\ IF COMPACTED \in host.xcomp
         THEN /\ HasComponents \subseteq host.xcomp /\ PackedInOrder(host)
              /\ \A i \in Packed(host) : host.base[i] \in Nat
         ELSE /\ \A i \in HasComponents : /\ host.base[i] = host.cpuid[i].offset
                                          /\ host.base[i] >= XSAVE_COMPACT_BASE
              /\ \A i, j \in HasComponents :
                   i < j => \/ host.base[i] + VectorSize[i] <= host.base[j]
                            \/ host.base[j] + VectorSize[j] <= host.base[i]
  BY <1>1 DEF ImagesAreArchitectural, HasComponents, host
<1> HIDE DEF HasComponents, host
<1>3. HasComponents \subseteq {2, 6, 7}
  BY DEF HasComponents
<1>4. \A i \in HasComponents : CpuidSize(host.cpuid, i) = VectorSize[i]
  BY <1>2 DEF CpuidSize
<1>5. CASE COMPACTED \in host.xcomp
  <2>1. Laid(host)
    BY <1>2, <1>5 DEF Laid
  <2>2. HasComponents \subseteq Packed(host)
    BY <1>2, <1>3, <1>4, <1>5, Sizes DEF Packed
  <2>3. \A i \in HasComponents : /\ i \in host.xcomp
                                 /\ CompactedOffset(host.cpuid, host.xcomp, i) = host.base[i]
                                 /\ host.base[i] >= XSAVE_COMPACT_BASE
    BY <2>1, <2>2, CompactedIsPlaced, PackedApart, PackedFacts
  <2>4. \A i, j \in HasComponents : i < j => host.base[i] + VectorSize[i] <= host.base[j]
    BY <1>2, <2>1, <2>2, PackedApart
  <2> QED BY <1>1, <1>2, <1>4, <1>5, <2>3, <2>4
<1>6. CASE COMPACTED \notin host.xcomp
  BY <1>1, <1>2, <1>4, <1>6
<1> QED BY <1>5, <1>6

\* XCR0 and the layout are what construction made them.
LayoutInv == /\ machine \in Machines
             /\ xcr0 = EffectiveXcr0(machine)
             /\ layout = probe(host.cpuid, xcr0, host.xcomp)

LEMMA LayoutIsRight ==
  ASSUME LayoutInv, Hardware, NEW i \in {2, 6, 7}
  PROVE  layout[i] = IF i \in xcr0 THEN [offset |-> host.base[i], size |-> VectorSize[i]] ELSE Absent
<1>1. layout[i] = locate(host.cpuid, xcr0, host.xcomp, i)
  BY DEF LayoutInv, probe
<1>2. i \in xcr0 <=> i \in HasComponents
  BY DEF LayoutInv, HasComponents
<1>3. machine \in Machines
  BY DEF LayoutInv
<1>4. CASE i \notin xcr0
  BY <1>1, <1>4 DEF locate
<1>5. CASE i \in xcr0
  <2>1. /\ CpuidSize(host.cpuid, i) = VectorSize[i] /\ VectorSize[i] # 0
        /\ host.base[i] \in Nat /\ host.base[i] >= XSAVE_COMPACT_BASE
        /\ IF COMPACTED \in host.xcomp
           THEN i \in host.xcomp /\ CompactedOffset(host.cpuid, host.xcomp, i) = host.base[i]
           ELSE host.cpuid[i].offset = host.base[i]
    BY <1>2, <1>3, <1>5, HostFacts, Sizes
  <2>2. host.base[i] # 0
    BY <2>1 DEF XSAVE_COMPACT_BASE
  <2> QED BY <1>1, <1>5, <2>1, <2>2 DEF locate
<1> QED BY <1>4, <1>5

\* Which components an image holds, and where; SSE is always there.
LEMMA ComponentsHeld ==
  ASSUME LayoutInv, Hardware, NEW i \in {2, 6, 7}
  PROVE  /\ Has(layout, i) <=> i \in xcr0
         /\ i \in xcr0 => /\ layout[i].offset = host.base[i] /\ layout[i].size = VectorSize[i]
                          /\ layout[i].offset + layout[i].size <= host.len
         /\ \A image : image.len = host.len => (Fits(image, layout, i) <=> i \in xcr0)
<1>1. layout[i] = IF i \in xcr0 THEN [offset |-> host.base[i], size |-> VectorSize[i]] ELSE Absent
  BY LayoutIsRight
<1>2. VectorSize[i] \in Nat \ {0}
  BY Sizes
<1>3. Has(layout, i) <=> i \in xcr0
  <2>1. [offset |-> host.base[i], size |-> VectorSize[i]] # Absent
    BY <1>2 DEF Absent
  <2> QED BY <1>1, <2>1 DEF Has
<1>4. i \in xcr0 => host.base[i] + VectorSize[i] <= host.len
  BY HostFacts DEF LayoutInv, HasComponents
<1> QED BY <1>1, <1>3, <1>4 DEF Fits

LEMMA VectorOffsets ==
  ASSUME NEW n \in 0..31, NEW c \in 0..7
  PROVE  /\ Component(n, c) \in {1, 2, 6, 7}
         /\ Component(n, c) = 1 <=> n < 16 /\ c < 2
         /\ Component(n, c) = 2 <=> n < 16 /\ c >= 2 /\ c < 4
         /\ Component(n, c) = 6 <=> n < 16 /\ c >= 4
         /\ Component(n, c) = 7 <=> n >= 16
BY DEF Component

\* Where a chunk is within its component.
Within(k, d) == IF Component(k, d) = 1 THEN 16 * k + 8 * d
                ELSE IF Component(k, d) = 2 THEN 16 * k + 8 * d - 16
                ELSE IF Component(k, d) = 6 THEN 32 * k + 8 * d - 32
                ELSE 64 * (k - 16) + 8 * d
Start(i) == IF i = 1 THEN 160 ELSE host.base[i]
Size(i) == IF i = 1 THEN 256 ELSE VectorSize[i]

LEMMA WithinComponents ==
  ASSUME NEW k \in 0..31, NEW d \in 0..7
  PROVE  /\ Within(k, d) \in Nat /\ Within(k, d) + 8 <= Size(Component(k, d))
         /\ \A i \in {2, 6, 7} : host.base[i] \in Nat =>
              (Component(k, d) = i => ArchOffset(k, d) = Start(i) + Within(k, d))
         /\ Component(k, d) = 1 => ArchOffset(k, d) = Start(1) + Within(k, d)
<1>1. CASE Component(k, d) = 1
  BY <1>1, VectorOffsets DEF ArchOffset, Within, Start, Size
<1>2. CASE Component(k, d) = 2
  BY <1>2, VectorOffsets, Sizes DEF ArchOffset, Within, Start, Size
<1>3. CASE Component(k, d) = 6
  BY <1>3, VectorOffsets, Sizes DEF ArchOffset, Within, Start, Size
<1>4. CASE Component(k, d) = 7
  <2>1. k >= 16 /\ k - 16 \in 0..15
    BY <1>4, VectorOffsets
  <2>2. Within(k, d) = 64 * (k - 16) + 8 * d
    BY <1>4 DEF Within
  <2>3. ArchOffset(k, d) = host.base[7] + 64 * (k - 16) + 8 * d
    BY <2>1 DEF ArchOffset
  <2>4. Size(Component(k, d)) = 1024
    BY <1>4, Sizes DEF Size
  <2> QED BY <1>4, <2>1, <2>2, <2>3, <2>4 DEF Start
<1> QED BY <1>1, <1>2, <1>3, <1>4, VectorOffsets

LEMMA WithinIsExact ==
  ASSUME NEW n \in 0..31, NEW m \in 0..31, NEW c \in 0..7, NEW e \in 0..7,
         Component(n, c) = Component(m, e), Within(n, c) = Within(m, e)
  PROVE  n = m /\ c = e
<1>1. CASE Component(n, c) = 1
  <2>1. 16 * n + 8 * c = 16 * m + 8 * e /\ c < 2 /\ e < 2
    BY <1>1, VectorOffsets DEF Within
  <2> QED BY <2>1
<1>2. CASE Component(n, c) = 2
  <2>1. Within(n, c) = 16 * n + 8 * c - 16 /\ Within(m, e) = 16 * m + 8 * e - 16
    <3>1. Component(n, c) # 1 /\ Component(m, e) # 1
      BY <1>2
    <3> QED BY <1>2, <3>1 DEF Within
  <2>2. 2 <= c /\ 2 <= e /\ c < 4 /\ e < 4
    BY <1>2, VectorOffsets
  <2>3. 16 * n + 8 * c = 16 * m + 8 * e
    BY <1>2, VectorOffsets DEF Within
  <2> QED BY <2>2, <2>3
<1>3. CASE Component(n, c) = 6
  <2>1. Within(n, c) = 32 * n + 8 * c - 32 /\ Within(m, e) = 32 * m + 8 * e - 32
    <3>1. Component(n, c) # 1 /\ Component(m, e) # 1 /\ Component(n, c) # 2 /\ Component(m, e) # 2
      BY <1>3
    <3> QED BY <1>3, <3>1 DEF Within
  <2>2. 4 <= c /\ 4 <= e
    BY <1>3, VectorOffsets
  <2>3. 32 * n + 8 * c = 32 * m + 8 * e
    BY <1>3, VectorOffsets DEF Within
  <2> QED BY <2>2, <2>3
<1>4. CASE Component(n, c) = 7
  <2>1. 64 * n + 8 * c = 64 * m + 8 * e
    BY <1>4, VectorOffsets DEF Within
  <2> QED BY <2>1
<1> QED BY <1>1, <1>2, <1>3, <1>4, VectorOffsets

\* The components of an image are apart.
LEMMA StartsAreApart ==
  ASSUME LayoutInv, Hardware
  PROVE  /\ \A i \in {1, 2, 6, 7} : i \in xcr0 \cup {1} => Start(i) \in Nat /\ Size(i) \in Nat
         /\ \A i, j \in {1, 2, 6, 7} : i \in xcr0 \cup {1} /\ j \in xcr0 \cup {1} /\ i < j
              => Start(i) + Size(i) <= Start(j) \/ Start(j) + Size(j) <= Start(i)
<1>1. machine \in Machines /\ xcr0 = EffectiveXcr0(machine)
  BY DEF LayoutInv
<1>2. \A i \in {2, 6, 7} : i \in xcr0 => i \in HasComponents
  BY <1>1 DEF HasComponents
<1>3. \A i \in {2, 6, 7} : i \in xcr0 => host.base[i] \in Nat /\ host.base[i] >= 576
  BY <1>1, <1>2, HostFacts DEF XSAVE_COMPACT_BASE
<1>4. \A i, j \in {2, 6, 7} : i \in xcr0 /\ j \in xcr0 /\ i < j
        => \/ host.base[i] + VectorSize[i] <= host.base[j]
           \/ host.base[j] + VectorSize[j] <= host.base[i]
  BY <1>1, <1>2, HostFacts
<1>5. Start(1) = 160 /\ Size(1) = 256
      /\ \A i \in {2, 6, 7} : Start(i) = host.base[i] /\ Size(i) = VectorSize[i] /\ Size(i) \in Nat
  BY Sizes DEF Start, Size
<1> HIDE DEF Start, Size
<1>6. ASSUME NEW i \in {1, 2, 6, 7}, NEW j \in {1, 2, 6, 7}, i \in xcr0 \cup {1}, j \in xcr0 \cup {1}, i < j
      PROVE  Start(i) + Size(i) <= Start(j) \/ Start(j) + Size(j) <= Start(i)
  <2>1. CASE i = 1
    BY <1>3, <1>5, <1>6, <2>1
  <2>2. CASE i # 1
    BY <1>4, <1>5, <1>6, <2>2
  <2> QED BY <2>1, <2>2
<1> QED BY <1>3, <1>5, <1>6

LEMMA RangesApart ==
  ASSUME NEW a \in Nat, NEW b \in Nat, NEW s \in Nat, NEW t \in Nat, NEW u \in Nat, NEW v \in Nat,
         u + 8 <= s, v + 8 <= t, a + s <= b \/ b + t <= a
  PROVE  a + u # b + v
OBVIOUS

\* Two places of a register hold the same word of an image only if they are one.
LEMMA OffsetsAreApart ==
  ASSUME LayoutInv, Hardware, NEW n \in 0..31, NEW m \in 0..31, NEW c \in 0..7, NEW e \in 0..7,
         Component(n, c) \in xcr0 \cup {1}, Component(m, e) \in xcr0 \cup {1},
         ArchOffset(n, c) = ArchOffset(m, e)
  PROVE  n = m /\ c = e
<1> DEFINE i == Component(n, c)
           j == Component(m, e)
<1>1. i \in {1, 2, 6, 7} /\ j \in {1, 2, 6, 7}
  BY VectorOffsets
<1>2. /\ Start(i) \in Nat /\ Size(i) \in Nat /\ Start(j) \in Nat /\ Size(j) \in Nat
      /\ i < j => Start(i) + Size(i) <= Start(j) \/ Start(j) + Size(j) <= Start(i)
      /\ j < i => Start(j) + Size(j) <= Start(i) \/ Start(i) + Size(i) <= Start(j)
  BY <1>1, StartsAreApart
<1>3. \A k \in {2, 6, 7} : k \in xcr0 \cup {1} => host.base[k] \in Nat
  BY StartsAreApart DEF Start
<1>4. /\ ArchOffset(n, c) = Start(i) + Within(n, c) /\ Within(n, c) \in Nat /\ Within(n, c) + 8 <= Size(i)
  BY <1>1, <1>3, WithinComponents
<1>5. /\ ArchOffset(m, e) = Start(j) + Within(m, e) /\ Within(m, e) \in Nat /\ Within(m, e) + 8 <= Size(j)
  BY <1>1, <1>3, WithinComponents
<1>6. i = j
  <2>1. Start(i) + Within(n, c) = Start(j) + Within(m, e)
    BY <1>4, <1>5
  <2> HIDE DEF i, j
  <2>2. ~(i < j)
    BY <1>2, <1>4, <1>5, <2>1, RangesApart
  <2>3. ~(j < i)
    BY <1>2, <1>4, <1>5, <2>1, RangesApart
  <2> QED BY <1>1, <2>2, <2>3
<1>7. Within(n, c) = Within(m, e)
  <2>1. Start(i) + Within(n, c) = Start(i) + Within(m, e)
    BY <1>4, <1>5, <1>6
  <2>2. Start(i) \in Nat /\ Within(n, c) \in Nat /\ Within(m, e) \in Nat
    BY <1>2, <1>4, <1>5
  <2>3. \A x, y, z \in Nat : x + y = x + z => y = z
    OBVIOUS
  <2> HIDE DEF i, j
  <2> QED BY <2>1, <2>2, <2>3
<1>8. Component(n, c) = Component(m, e)
  BY <1>6
<1>9. n = m
  BY ONLY <1>7, <1>8, WithinIsExact, n \in 0..31, m \in 0..31, c \in 0..7, e \in 0..7, ZenonT(30)
<1>10. c = e
  BY ONLY <1>7, <1>8, <1>9, WithinIsExact, n \in 0..31, m \in 0..31, c \in 0..7, e \in 0..7, ZenonT(30)
<1> QED BY <1>9, <1>10

\* WHP: the widest of the candidates it accepts has every vector component it could have.
LEMMA WidestKept ==
  ASSUME NEW h, NEW top \in h.accepted, \A x \in h.accepted : x \subseteq top,
         top \subseteq h.offered, Valid(top), Valid(top \cap h.kept),
         \A x \in {X87_SSE \cup {2}, X87_SSE \cup {2} \cup AVX512} : x \subseteq top => x \in h.accepted
  PROVE  /\ {2, 6, 7} \cap enable_widest_xcr0(h) = {2, 6, 7} \cap (top \cap h.kept)
         /\ 1 \in enable_widest_xcr0(h)
<1> DEFINE want(i) == Wanted(Candidates(h.offered)[i])
           good == {i \in 1..5 : want(i) \in h.accepted /\ X87_SSE \subseteq want(i) \cap h.kept}
           widest == CHOOSE i \in good : \A j \in good : i <= j
<1>1. enable_widest_xcr0(h) = IF good = {} THEN X87_SSE ELSE want(widest) \cap h.kept
  BY DEF enable_widest_xcr0
<1>2. /\ want(1) = Wanted(h.offered) /\ want(2) = Wanted(h.offered \ OPTIONAL)
      /\ want(3) = Wanted(X87_SSE \cup {2} \cup (h.offered \cap AVX512))
      /\ want(4) = Wanted(X87_SSE \cup (h.offered \cap {2})) /\ want(5) = Wanted(X87_SSE)
  BY DEF Candidates
<1>3. X87_SSE \subseteq h.kept /\ X87_SSE \subseteq top
  BY DEF Valid
<1>4. good # {} => widest \in good /\ \A j \in good : widest <= j
  <2> SUFFICES ASSUME good # {} PROVE \E i \in good : \A j \in good : i <= j
    OBVIOUS
  <2>1. good \subseteq 1..5
    OBVIOUS
  <2> HIDE DEF good
  <2>2. CASE 1 \in good
    BY <2>1, <2>2
  <2>3. CASE 1 \notin good /\ 2 \in good
    BY <2>1, <2>3
  <2>4. CASE 1 \notin good /\ 2 \notin good /\ 3 \in good
    BY <2>1, <2>4
  <2>5. CASE 1 \notin good /\ 2 \notin good /\ 3 \notin good /\ 4 \in good
    BY <2>1, <2>5
  <2>6. CASE 1 \notin good /\ 2 \notin good /\ 3 \notin good /\ 4 \notin good
    <3>1. \A i \in good : i = 5
      BY <2>1, <2>6
    <3> QED BY <3>1
  <2> QED BY <2>2, <2>3, <2>4, <2>5, <2>6
<1>5. \A i \in good : i \in 1..5 /\ want(i) \subseteq top /\ X87_SSE \subseteq want(i)
  OBVIOUS
<1>6. \A i \in 1..5 : want(i) \in h.accepted /\ X87_SSE \subseteq want(i) => i \in good
  BY <1>3
<1> HIDE DEF good, widest
<1>7. CASE AVX512 \cup {2} \subseteq top
  <2>1. AVX512 \cup {2} \subseteq h.offered
    BY <1>7
  <2>2. want(3) = X87_SSE \cup {2} \cup AVX512
    <3>1. h.offered \cap AVX512 = AVX512
      BY <2>1
    <3>2. X87_SSE \cup {2} \cup AVX512 = (X87_SSE \cup {2} \cup AVX512) \cup X87_SSE
      OBVIOUS
    <3>3. AVX512 \subseteq X87_SSE \cup {2} \cup AVX512 /\ 2 \in X87_SSE \cup {2} \cup AVX512
      OBVIOUS
    <3> QED BY <1>2, <3>1, <3>2, <3>3 DEF Wanted
  <2>3. 3 \in good
    <3> DEFINE x == X87_SSE \cup {2} \cup AVX512
    <3>1. x \in {X87_SSE \cup {2}, X87_SSE \cup {2} \cup AVX512} /\ x \subseteq top
      BY <1>3, <1>7
    <3>2. x \in h.accepted
      BY <3>1
    <3>3. want(3) \in h.accepted /\ X87_SSE \subseteq want(3) /\ 3 \in 1..5
      BY <2>2, <3>2
    <3> HIDE DEF want
    <3> QED BY <1>6, <3>3
  <2>4. {2, 6, 7} \subseteq want(1) /\ {2, 6, 7} \subseteq want(2) /\ {2, 6, 7} \subseteq want(3)
    <3>1. {2, 6, 7} \subseteq want(1)
      BY <1>2, <2>1 DEF Wanted, AVX512
    <3>2. {2, 6, 7} \subseteq want(2)
      BY <1>2, <2>1 DEF Wanted, AVX512, OPTIONAL
    <3> QED BY <3>1, <3>2, <2>2 DEF AVX512
  <2>5. widest \in {1, 2, 3}
    BY <1>4, <1>5, <2>3
  <2>6. {2, 6, 7} \subseteq want(widest) /\ {2, 6, 7} \subseteq top
    BY <1>7, <2>4, <2>5 DEF AVX512
  <2> HIDE DEF want
  <2>7. enable_widest_xcr0(h) = want(widest) \cap h.kept /\ X87_SSE \subseteq want(widest)
    BY <1>1, <1>4, <1>5, <2>3
  <2> QED BY <1>3, <2>6, <2>7 DEF X87_SSE
<1>8. CASE ~(AVX512 \cup {2} \subseteq top) /\ 2 \in top
  <2>1. AVX512 \cap top = {} /\ 2 \in h.offered
    BY <1>8 DEF Valid
  <2>2. want(4) = X87_SSE \cup {2}
    <3>1. h.offered \cap {2} = {2}
      BY <2>1
    <3>2. (X87_SSE \cup {2}) \cup X87_SSE = X87_SSE \cup {2}
      OBVIOUS
    <3>3. (X87_SSE \cup {2}) \ AVX512 = X87_SSE \cup {2}
      BY DEF X87_SSE, AVX512
    <3> QED BY <1>2, <3>1, <3>2, <3>3 DEF Wanted
  <2>3. 4 \in good
    <3> DEFINE x == X87_SSE \cup {2}
    <3>1. x \in {X87_SSE \cup {2}, X87_SSE \cup {2} \cup AVX512} /\ x \subseteq top
      BY <1>3, <1>8
    <3>2. x \in h.accepted
      BY <3>1
    <3>3. want(4) \in h.accepted /\ X87_SSE \subseteq want(4) /\ 4 \in 1..5
      BY <2>2, <3>2
    <3> HIDE DEF want
    <3> QED BY <1>6, <3>3
  <2>4. 2 \in want(1) /\ 2 \in want(2) /\ 2 \in want(3) /\ 2 \in want(4)
    BY <1>2, <2>1, <2>2 DEF Wanted, AVX512, OPTIONAL
  <2>5. widest \in {1, 2, 3, 4}
    BY <1>4, <1>5, <2>3
  <2>6. 2 \in want(widest)
    BY <2>4, <2>5
  <2> HIDE DEF want
  <2>7. /\ enable_widest_xcr0(h) = want(widest) \cap h.kept /\ X87_SSE \subseteq want(widest)
        /\ want(widest) \subseteq top
    BY <1>1, <1>4, <1>5, <2>3
  <2> QED BY <1>3, <1>8, <2>1, <2>6, <2>7 DEF X87_SSE, AVX512
<1>9. CASE 2 \notin top
  <2>1. AVX512 \cap top = {}
    BY <1>9 DEF Valid
  <2> HIDE DEF want
  <2>2. CASE good = {}
    BY <1>1, <1>9, <2>1, <2>2 DEF X87_SSE, AVX512
  <2>3. CASE good # {}
    <3>1. /\ enable_widest_xcr0(h) = want(widest) \cap h.kept /\ X87_SSE \subseteq want(widest)
          /\ want(widest) \subseteq top
      BY <1>1, <1>4, <1>5, <2>3
    <3> QED BY <1>3, <1>9, <2>1, <3>1 DEF X87_SSE, AVX512
  <2> QED BY <2>2, <2>3
<1> QED BY <1>7, <1>8, <1>9

\* What a hypervisor that takes masks offers.
HasWidest(h) ==
  \E top \in h.accepted :
    /\ \A x \in h.accepted : x \subseteq top
    /\ top \subseteq h.offered /\ Valid(top) /\ Valid(top \cap h.kept)
    /\ \A x \in {X87_SSE \cup {2}, X87_SSE \cup {2} \cup AVX512} :
         x \subseteq top => x \in h.accepted

LEMMA WidestOffered ==
  ASSUME NEW m, m.backend # "kvm", OffersVectors(m)
  PROVE  HasWidest(m.host)
BY Zenon DEF OffersVectors, HasWidest

\* The vector components that a vCPU has are those that the widest mask has.
LEMMA WidestMask ==
  ASSUME LayoutInv, Hardware
  PROVE  /\ Valid(VcpuXcr0) /\ 1 \in xcr0
         /\ \A i \in {2, 6, 7} : i \in xcr0 <=> i \in VcpuXcr0
<1>1. machine \in Machines /\ xcr0 = EffectiveXcr0(machine) /\ OffersVectors(machine)
  BY HostFacts DEF LayoutInv
<1>2. backend = machine.backend /\ host = machine.host /\ backend \in {"kvm", "whp"}
  BY <1>1, BackendFacts DEF backend, host
<1>3. CASE backend = "kvm"
  <2>1. xcr0 = host.offered /\ VcpuXcr0 = host.offered /\ Valid(host.offered)
    BY <1>1, <1>2, <1>3 DEF EffectiveXcr0, VcpuXcr0, OffersVectors
  <2> QED BY <2>1 DEF Valid, X87_SSE
<1>4. CASE backend = "whp"
  <2>1. xcr0 = enable_widest_xcr0(host)
    BY <1>1, <1>2, <1>4 DEF EffectiveXcr0
  <2>2. PICK top \in host.accepted :
          /\ \A x \in host.accepted : x \subseteq top
          /\ top \subseteq host.offered /\ Valid(top) /\ Valid(top \cap host.kept)
          /\ \A x \in {X87_SSE \cup {2}, X87_SSE \cup {2} \cup AVX512} :
               x \subseteq top => x \in host.accepted
    <3>1. OffersVectors(machine) /\ machine.backend # "kvm" /\ machine.host = host
      BY <1>1, <1>2, <1>4
    <3>2. HasWidest(host)
      BY <3>1, WidestOffered
    <3> QED BY ONLY <3>2, Zenon DEF HasWidest
  <2>3. VcpuXcr0 = CHOOSE x \in {y \cap host.kept : y \in host.accepted} :
                     \A y \in host.accepted : y \cap host.kept \subseteq x
    <3>1. backend # "kvm"
      BY <1>4
    <3> HIDE DEF backend, host
    <3> QED BY ONLY <3>1, Zenon DEF VcpuXcr0
  <2>4. VcpuXcr0 = top \cap host.kept
    <3> DEFINE P(x) == x \in {y \cap host.kept : y \in host.accepted}
                       /\ \A y \in host.accepted : y \cap host.kept \subseteq x
    <3>1. P(top \cap host.kept)
      BY <2>2
    <3>2. \A x : P(x) => x = top \cap host.kept
      BY <2>2
    <3>3. VcpuXcr0 = CHOOSE x : P(x)
      BY <2>3
    <3> HIDE DEF P
    <3>4. P(CHOOSE x : P(x))
      BY <3>1
    <3> QED BY <3>2, <3>3, <3>4
  <2>5. /\ {2, 6, 7} \cap enable_widest_xcr0(host) = {2, 6, 7} \cap (top \cap host.kept)
        /\ 1 \in enable_widest_xcr0(host)
    BY <2>2, WidestKept
  <2> QED BY <2>1, <2>2, <2>4, <2>5
<1> QED BY <1>2, <1>3, <1>4

\* What a machine has room for is what its caps say.
LEMMA ChunksHeld ==
  ASSUME LayoutInv, caps = Caps
  PROVE  /\ VectorRegs = caps.vecs /\ vector_chunks = caps.chunks
         /\ \A n \in 0..31, c \in 0..7 :
              (Hardware => Component(n, c) \in xcr0 \cup {1}) <=> n < caps.vecs /\ c < caps.chunks
<1>1. /\ caps.vecs = IF Hardware /\ 7 \notin VcpuXcr0 THEN 16 ELSE ZMM_REGS
      /\ caps.chunks = IF ~Hardware \/ 6 \in VcpuXcr0 THEN 8 ELSE IF 2 \in VcpuXcr0 THEN 4 ELSE 2
  BY CapsFields
<1> HIDE DEF Hardware, VcpuXcr0
<1>2. CASE ~Hardware
  BY <1>1, <1>2 DEF VectorRegs, vector_chunks, ZMM_CHUNKS, ZMM_REGS
<1>3. CASE Hardware
  <2>1. Valid(VcpuXcr0) /\ \A i \in {2, 6, 7} : i \in xcr0 <=> i \in VcpuXcr0
    BY <1>3, WidestMask
  <2>2. \A i \in {2, 6, 7} : Has(layout, i) <=> i \in VcpuXcr0
    BY <1>3, <2>1, ComponentsHeld
  <2>3. VectorRegs = caps.vecs
    BY <1>1, <1>3, <2>2 DEF VectorRegs, vector_regs
  <2>4. vector_chunks = caps.chunks
    BY <1>1, <1>3, <2>2 DEF vector_chunks, vector_width
  <2>5. (6 \in VcpuXcr0 \/ 7 \in VcpuXcr0) => 6 \in VcpuXcr0 /\ 2 \in VcpuXcr0
    BY <2>1 DEF Valid, AVX512
  <2>6. ASSUME NEW n \in 0..31, NEW c \in 0..7
        PROVE  Component(n, c) \in xcr0 \cup {1} <=> n < caps.vecs /\ c < caps.chunks
    <3>1. caps.vecs = (IF 7 \in VcpuXcr0 THEN 32 ELSE 16)
          /\ caps.chunks = IF 6 \in VcpuXcr0 THEN 8 ELSE IF 2 \in VcpuXcr0 THEN 4 ELSE 2
      BY <1>1, <1>3 DEF ZMM_REGS
    <3>2. CASE Component(n, c) = 1
      BY <2>5, <3>1, <3>2, VectorOffsets
    <3>3. CASE Component(n, c) = 2
      BY <2>1, <2>5, <3>1, <3>3, VectorOffsets
    <3>4. CASE Component(n, c) = 6
      BY <2>1, <2>5, <3>1, <3>4, VectorOffsets
    <3>5. CASE Component(n, c) = 7
      BY <2>1, <2>5, <3>1, <3>5, VectorOffsets
    <3> QED BY <3>2, <3>3, <3>4, <3>5, VectorOffsets
  <2> QED BY <1>3, <2>3, <2>4, <2>6
<1> QED BY <1>2, <1>3

-----------------------------------------------------------------------------
(* Vector registers *)

\* A machine has no vector state outside its components in use, which it has room for.
GoodVec(v, u) ==
  /\ v \in [VecRegs -> [0..7 -> Nat]]
  /\ Hardware => /\ u \subseteq xcr0
                 /\ \A n \in VecRegs, c \in 0..7 : v[n][c] # 0 => Component(n, c) \in u

\* The components a register is spread over.
Spread(n) == {Component(n, c) : c \in {d \in 0..7 : Component(n, d) \in xcr0}}

LEMMA PlacesApart ==
  ASSUME LayoutInv, Hardware
  PROVE  \A n, m \in VecRegs : \A c, e \in 0..7 :
           /\ Component(n, c) \in xcr0 /\ Component(m, e) \in xcr0
           /\ ArchOffset(n, c) = ArchOffset(m, e)
           => n = m /\ c = e
<1> SUFFICES ASSUME NEW n \in VecRegs, NEW m \in VecRegs, NEW c \in 0..7, NEW e \in 0..7,
                    Component(n, c) \in xcr0, Component(m, e) \in xcr0,
                    ArchOffset(n, c) = ArchOffset(m, e)
             PROVE  n = m /\ c = e
  OBVIOUS
<1>1. n \in 0..31 /\ m \in 0..31
  BY CallsAssumption DEF ZMM_REGS
<1>2. Component(n, c) \in xcr0 \cup {1} /\ Component(m, e) \in xcr0 \cup {1}
  OBVIOUS
<1> HIDE DEF LayoutInv, Hardware
<1>3. n = m
  BY ONLY <1>1, <1>2, c \in 0..7, e \in 0..7, LayoutInv, Hardware,
          ArchOffset(n, c) = ArchOffset(m, e), OffsetsAreApart, Zenon
<1>4. c = e
  BY ONLY <1>1, <1>2, <1>3, c \in 0..7, e \in 0..7, LayoutInv, Hardware,
          ArchOffset(n, c) = ArchOffset(m, e), OffsetsAreApart, ZenonT(30)
<1> QED BY <1>3, <1>4

LEMMA ImageFields ==
  ASSUME NEW v, NEW u
  PROVE  /\ GetXsave(v, u).bv = u /\ GetXsave(v, u).len = host.len
         /\ GetXsave(v, u) = [words |-> GetXsave(v, u).words, bv |-> u, xcomp |-> host.xcomp,
                              len |-> host.len]
BY DEF GetXsave

LEMMA PlacesInImage ==
  ASSUME LayoutInv, Hardware, NEW image, image.len = host.len, NEW n \in VecRegs
  PROVE  /\ Held(image, layout, n) = {c \in 0..7 : Component(n, c) \in xcr0}
         /\ \A c \in 0..7 : Component(n, c) \in xcr0 => ChunkOffset(layout, n, c) = ArchOffset(n, c)
<1>1. n \in 0..31 /\ 1 \in xcr0
  BY CallsAssumption, WidestMask DEF ZMM_REGS
<1>2. \A c \in 0..7 : Component(n, c) \in {1, 2, 6, 7}
  BY <1>1, VectorOffsets
<1>3. \A i \in {2, 6, 7} : Fits(image, layout, i) <=> i \in xcr0
  BY ComponentsHeld
<1>4. Held(image, layout, n) = {c \in 0..7 : Component(n, c) \in xcr0}
  BY <1>1, <1>2, <1>3 DEF Held, ZMM_CHUNKS
<1>5. ASSUME NEW c \in 0..7, Component(n, c) \in xcr0
      PROVE  ChunkOffset(layout, n, c) = ArchOffset(n, c)
  <2>1. \A i \in {2, 6, 7} : i \in xcr0 => layout[i].offset = host.base[i] /\ host.base[i] \in Nat
    BY ComponentsHeld, StartsAreApart DEF Start
  <2>2. CASE Component(n, c) = 1
    BY <1>1, <2>2, VectorOffsets DEF ChunkOffset, ArchOffset, XSAVE_XMM_OFFSET
  <2>3. CASE Component(n, c) = 2
    BY <1>1, <1>5, <2>1, <2>3, VectorOffsets DEF ChunkOffset, ArchOffset
  <2>4. CASE Component(n, c) = 6
    BY <1>1, <1>5, <2>1, <2>4, VectorOffsets DEF ChunkOffset, ArchOffset
  <2>5. CASE Component(n, c) = 7
    BY <1>1, <1>5, <2>1, <2>5, VectorOffsets DEF ChunkOffset, ArchOffset
  <2> QED BY <1>2, <2>2, <2>3, <2>4, <2>5
<1> QED BY <1>4, <1>5

\* An image has the chunks of the registers at their places.
LEMMA WordsOfImage ==
  ASSUME LayoutInv, Hardware, NEW v, NEW u, GoodVec(v, u), NEW n \in VecRegs, NEW c \in 0..7,
         Component(n, c) \in xcr0
  PROVE  Word(GetXsave(v, u), ArchOffset(n, c)) = v[n][c]
<1> DEFINE D == {x \in VecRegs \X (0..7) : v[x[1]][x[2]] # 0}
           offset == [nc \in D |-> ArchOffset(nc[1], nc[2])]
           found(o) == CHOOSE x \in DOMAIN offset : offset[x] = o
           o == ArchOffset(n, c)
<1>1. /\ DOMAIN GetXsave(v, u).words = {offset[nc] : nc \in DOMAIN offset}
      /\ \A p \in DOMAIN GetXsave(v, u).words :
           GetXsave(v, u).words[p] = v[found(p)[1]][found(p)[2]]
  BY DEF GetXsave
<1>2. DOMAIN offset = D /\ \A x \in D : offset[x] = ArchOffset(x[1], x[2])
  OBVIOUS
<1>3. \A x \in D : offset[x] = o => x = <<n, c>>
  <2> SUFFICES ASSUME NEW x \in D, ArchOffset(x[1], x[2]) = ArchOffset(n, c) PROVE x = <<n, c>>
    BY <1>2
  <2>1. /\ x = <<x[1], x[2]>> /\ x[1] \in VecRegs /\ x[2] \in 0..7 /\ v[x[1]][x[2]] # 0
        /\ x[1] \in 0..31 /\ n \in 0..31
    BY CallsAssumption DEF ZMM_REGS
  <2>2. Component(x[1], x[2]) \in xcr0
    BY <2>1 DEF GoodVec
  <2> HIDE DEF D
  <2>3. x[1] = n /\ x[2] = c
    <3>1. \A d, e \in 0..7 : \A k, m \in VecRegs :
            /\ Component(k, d) \in xcr0 /\ Component(m, e) \in xcr0
            /\ ArchOffset(k, d) = ArchOffset(m, e)
            => k = m /\ d = e
      BY PlacesApart
    <3> HIDE DEF Hardware, LayoutInv
    <3> QED BY ONLY <2>1, <2>2, <3>1, n \in VecRegs, c \in 0..7, Component(n, c) \in xcr0,
                    ArchOffset(x[1], x[2]) = ArchOffset(n, c), ZenonT(30)
  <2> QED BY <2>1, <2>3
<1>4. v[n][c] \in Nat
  BY DEF GoodVec
<1>5. <<n, c>> \in D <=> v[n][c] # 0
  OBVIOUS
<1> HIDE DEF D, offset, o
<1>6. CASE v[n][c] # 0
  <2>1. <<n, c>> \in D /\ offset[<<n, c>>] = o
    BY <1>2, <1>5, <1>6 DEF o
  <2>2. found(o) = <<n, c>>
    BY <1>2, <1>3, <2>1
  <2>3. o \in DOMAIN GetXsave(v, u).words
    BY <1>1, <1>2, <2>1
  <2>4. GetXsave(v, u).words[o] = v[n][c]
    BY <1>1, <2>2, <2>3
  <2> QED BY <2>3, <2>4 DEF Word, o
<1>7. CASE v[n][c] = 0
  <2>1. o \notin DOMAIN GetXsave(v, u).words
    BY <1>1, <1>2, <1>3, <1>5, <1>7
  <2> QED BY <1>7, <2>1 DEF Word, o
<1> QED BY <1>6, <1>7

\* What the accessors read is what the registers hold.
LEMMA ZmmsAreVectors ==
  ASSUME LayoutInv, GoodVec(vec, inuse)
  PROVE  Zmms = vec
<1>1. vec = [n \in VecRegs |-> vec[n]] /\ \A n \in VecRegs : vec[n] = [c \in 0..7 |-> vec[n][c]]
  BY DEF GoodVec
<1>2. CASE ~Hardware
  <2> HIDE DEF Hardware
  <2>1. Zmms = [n \in VecRegs |-> vec[n]]
    BY <1>2 DEF Zmms
  <2> QED BY <1>1, <2>1
<1>3. CASE Hardware
  <2> DEFINE image == GetXsave(vec, inuse)
  <2>1. image.len = host.len
    BY ImageFields
  <2>2. ASSUME NEW n \in VecRegs PROVE xsave_get_zmm(image, layout, n) = vec[n]
    <3>1. /\ Held(image, layout, n) = {c \in 0..7 : Component(n, c) \in xcr0}
          /\ \A c \in 0..7 : Component(n, c) \in xcr0 => ChunkOffset(layout, n, c) = ArchOffset(n, c)
      BY <1>3, <2>1, PlacesInImage
    <3>2. \A c \in 0..7 : Component(n, c) \in xcr0 => Word(image, ArchOffset(n, c)) = vec[n][c]
      BY <1>3, WordsOfImage
    <3>3. \A c \in 0..7 : Component(n, c) \notin xcr0 => vec[n][c] = 0
      BY <1>3 DEF GoodVec
    <3> HIDE DEF image, Hardware
    <3>4. \A c \in 0..7 : (IF c \in Held(image, layout, n) THEN Word(image, ChunkOffset(layout, n, c)) ELSE 0)
                            = vec[n][c]
      BY <3>1, <3>2, <3>3
    <3> QED BY <1>1, <3>4 DEF xsave_get_zmm, ZMM_CHUNKS
  <2> HIDE DEF Hardware
  <2>3. Zmms = [n \in VecRegs |-> xsave_get_zmm(image, layout, n)]
    BY <1>3 DEF Zmms
  <2> HIDE DEF image
  <2> QED BY <1>1, <2>2, <2>3
<1> QED BY <1>2, <1>3

\* A word of an image after a register was put into it.
LEMMA WordsPut ==
  ASSUME LayoutInv, Hardware, NEW v, NEW u, GoodVec(v, u), NEW n \in VecRegs, NEW data \in Seq(Nat),
         NEW m \in VecRegs, NEW e \in 0..7, Component(m, e) \in xcr0
  PROVE  Word(xsave_set_zmm(GetXsave(v, u), layout, n, data), ArchOffset(m, e))
           = IF m = n THEN Chunk(data, e) ELSE v[m][e]
<1> DEFINE image == GetXsave(v, u)
           held == Held(image, layout, n)
           new == NewWords(image, layout, n, data)
           o == ArchOffset(m, e)
<1>1. /\ held = {c \in 0..7 : Component(n, c) \in xcr0}
      /\ \A c \in 0..7 : Component(n, c) \in xcr0 => ChunkOffset(layout, n, c) = ArchOffset(n, c)
  BY PlacesInImage, ImageFields
<1>2. \A c, d \in 0..7 : \A k \in VecRegs :
        /\ Component(n, c) \in xcr0 /\ Component(k, d) \in xcr0 /\ ArchOffset(n, c) = ArchOffset(k, d)
        => n = k /\ c = d
  BY PlacesApart
<1>3. Word(image, o) = v[m][e]
  BY WordsOfImage
<1>4. /\ DOMAIN new = {ChunkOffset(layout, n, c) : c \in held}
      /\ \A at \in DOMAIN new : new[at] = Chunk(data, CHOOSE c \in held : ChunkOffset(layout, n, c) = at)
  BY DEF NewWords
<1>5. xsave_set_zmm(image, layout, n, data).words = Overwritten(image.words, new)
  BY ImageFields DEF xsave_set_zmm
<1>6. /\ DOMAIN Overwritten(image.words, new) = DOMAIN new \cup DOMAIN image.words
      /\ \A at \in DOMAIN new \cup DOMAIN image.words :
           Overwritten(image.words, new)[at] = IF at \in DOMAIN new THEN new[at] ELSE image.words[at]
  BY DEF Overwritten
<1> HIDE DEF image, held, new, o, Hardware, LayoutInv
<1>7. CASE m = n
  <2>1. e \in held /\ o = ChunkOffset(layout, n, e)
    BY <1>1, <1>7 DEF o
  <2>2. \A c \in held : ChunkOffset(layout, n, c) = o => c = e
    <3> SUFFICES ASSUME NEW c \in held, ChunkOffset(layout, n, c) = o PROVE c = e
      OBVIOUS
    <3>1. c \in 0..7 /\ Component(n, c) \in xcr0 /\ ArchOffset(n, c) = ArchOffset(n, e)
      BY <1>1, <1>7 DEF o
    <3> QED BY ONLY <1>2, <1>7, <3>1, n \in VecRegs, e \in 0..7, Component(m, e) \in xcr0, ZenonT(30)
  <2>3. o \in DOMAIN new /\ new[o] = Chunk(data, e)
    BY <1>4, <2>1, <2>2
  <2>4. Overwritten(image.words, new)[o] = Chunk(data, e) /\ o \in DOMAIN Overwritten(image.words, new)
    BY <1>6, <2>3
  <2> QED BY <1>5, <1>7, <2>4 DEF Word, o, image
<1>8. CASE m # n
  <2>1. o \notin DOMAIN new
    <3> SUFFICES ASSUME NEW c \in held, ChunkOffset(layout, n, c) = o PROVE FALSE
      BY <1>4
    <3>1. c \in 0..7 /\ Component(n, c) \in xcr0 /\ ArchOffset(n, c) = ArchOffset(m, e)
      BY <1>1 DEF o
    <3> QED BY ONLY <1>2, <1>8, <3>1, m \in VecRegs, e \in 0..7, Component(m, e) \in xcr0, ZenonT(30)
  <2>2. o \in DOMAIN Overwritten(image.words, new) <=> o \in DOMAIN image.words
    BY <1>6, <2>1
  <2>3. o \in DOMAIN image.words => Overwritten(image.words, new)[o] = image.words[o]
    BY <1>6, <2>1
  <2>4. Word(xsave_set_zmm(image, layout, n, data), o) = Word(image, o)
    BY <1>5, <2>2, <2>3 DEF Word
  <2> QED BY <1>3, <1>8, <2>4 DEF o, image
<1> QED BY <1>7, <1>8

LEMMA FitIsChunk ==
  ASSUME LayoutInv, caps = Caps, NEW n \in VecRegs, NEW data \in Seq(Nat), NEW c \in 0..7
  PROVE  /\ Contract!Fit(n, data)[c] = IF Hardware => Component(n, c) \in xcr0 THEN Chunk(data, c) ELSE 0
         /\ Chunk(data, c) \in Nat
<1>1. n \in 0..31
  BY CallsAssumption DEF ZMM_REGS
<1>2. (Hardware => Component(n, c) \in xcr0) <=> n < caps.vecs /\ c < caps.chunks
  <2>1. Hardware => 1 \in xcr0
    BY WidestMask
  <2>2. (Hardware => Component(n, c) \in xcr0 \cup {1}) <=> n < caps.vecs /\ c < caps.chunks
    BY <1>1, ChunksHeld
  <2> QED BY <2>1, <2>2
<1>3. DOMAIN data = 1..Len(data) /\ Len(data) \in Nat /\ \A i \in 1..Len(data) : data[i] \in Nat
  OBVIOUS
<1>4. c + 1 \in DOMAIN data <=> c < Len(data)
  BY <1>3
<1>5. Chunk(data, c) = IF c < Len(data) THEN data[c + 1] ELSE 0
  BY <1>4 DEF Chunk
<1> HIDE DEF Hardware
<1>6. Contract!Fit(n, data)[c] = IF n < caps.vecs /\ c < caps.chunks /\ c < Len(data)
                                 THEN data[c + 1] ELSE 0
  BY DEF Contract!Fit, Contract!Chunks
<1>7. Chunk(data, c) \in Nat
  BY <1>3, <1>4, <1>5
<1> QED BY <1>2, <1>5, <1>6, <1>7

VecState(v, u) == [vec |-> v, inuse |-> u]
WithZmm(v, n, data) == [v EXCEPT ![n] = Contract!Fit(n, data)]
WithSpread(u, n) == IF Hardware THEN u \cup Spread(n) ELSE u

\* set_zmm leaves a register with the chunks that fit, and the others alone.
LEMMA SetZmmFits ==
  ASSUME LayoutInv, caps = Caps, NEW v, NEW u, GoodVec(v, u), NEW n \in VecRegs, NEW data \in Seq(Nat)
  PROVE  /\ set_zmm(VecState(v, u), n, data) = VecState(WithZmm(v, n, data), WithSpread(u, n))
         /\ GoodVec(WithZmm(v, n, data), WithSpread(u, n))
<1> USE DEF VecState, WithZmm, WithSpread
<1> DEFINE fit == Contract!Fit(n, data)
           new == set_zmm([vec |-> v, inuse |-> u], n, data)
           result == [v EXCEPT ![n] = fit]
<1>1. /\ \A c \in 0..7 : fit[c] = (IF Hardware => Component(n, c) \in xcr0 THEN Chunk(data, c) ELSE 0)
      /\ \A c \in 0..7 : Chunk(data, c) \in Nat
      /\ fit = [c \in 0..7 |-> fit[c]]
  BY FitIsChunk DEF Contract!Fit, Contract!Chunks
<1>2. v \in [VecRegs -> [0..7 -> Nat]]
  BY DEF GoodVec
<1>3. fit \in [0..7 -> Nat]
  <2>1. \A c \in 0..7 : fit[c] \in Nat
    BY <1>1
  <2> HIDE DEF fit
  <2> QED BY <1>1, <2>1
<1>4. /\ result \in [VecRegs -> [0..7 -> Nat]]
      /\ \A m \in VecRegs : result[m] = IF m = n THEN fit ELSE v[m]
  <2> HIDE DEF fit
  <2> QED BY <1>2, <1>3
<1> HIDE DEF fit, result
<1>5. CASE ~Hardware
  <2> HIDE DEF Hardware
  <2>1. \A c \in 0..7 : fit[c] = Chunk(data, c)
    BY <1>1, <1>5
  <2>2. fit = [c \in 0..7 |-> Chunk(data, c)]
    BY <1>1, <2>1
  <2>3. new = [[vec |-> v, inuse |-> u] EXCEPT !.vec[n] = [c \in 0..7 |-> Chunk(data, c)]]
    BY <1>5 DEF set_zmm
  <2>4. new = [vec |-> [v EXCEPT ![n] = [c \in 0..7 |-> Chunk(data, c)]], inuse |-> u]
    BY <2>3
  <2>5. new = [vec |-> result, inuse |-> u]
    BY <2>2, <2>4 DEF result
  <2>6. GoodVec(result, u)
    BY <1>4, <1>5 DEF GoodVec
  <2> QED BY <1>5, <2>5, <2>6 DEF new, result, fit
<1>6. CASE Hardware
  <2> DEFINE image == GetXsave(v, u)
             put == xsave_set_zmm(image, layout, n, data)
             held == Held(image, layout, n)
  <2>1. held = {c \in 0..7 : Component(n, c) \in xcr0}
    BY <1>6, PlacesInImage, ImageFields
  <2>2. put.bv = u \cup {Component(n, c) : c \in held}
    BY ImageFields DEF xsave_set_zmm
  <2>3. Spread(n) = {Component(n, c) : c \in held} /\ Spread(n) \subseteq xcr0 /\ u \subseteq xcr0
    BY <1>6, <2>1 DEF Spread, GoodVec
  <2>4. put.bv \cap xcr0 = u \cup Spread(n)
    BY <2>2, <2>3
  <2>5. new = SetXsave(put)
    BY <1>6 DEF set_zmm
  <2>6. \A m \in VecRegs, e \in 0..7 : Component(m, e) \in xcr0
          => Word(put, ArchOffset(m, e)) = IF m = n THEN Chunk(data, e) ELSE v[m][e]
    BY <1>6, WordsPut
  <2> HIDE DEF image, put, held, Hardware, new
  <2>7. \A m \in VecRegs, e \in 0..7 : v[m][e] # 0 => Component(m, e) \in u
    BY <1>6 DEF GoodVec
  <2>8. ASSUME NEW m \in VecRegs, NEW e \in 0..7
        PROVE  (IF Component(m, e) \in put.bv \cap xcr0 THEN Word(put, ArchOffset(m, e)) ELSE 0)
                 = result[m][e]
    <3>1. CASE m = n
      <4>1. result[m][e] = IF Component(n, e) \in xcr0 THEN Chunk(data, e) ELSE 0
        BY <1>1, <1>4, <1>6, <3>1
      <4>2. Component(n, e) \in xcr0 => Component(n, e) \in put.bv \cap xcr0
        BY <2>4 DEF Spread
      <4>3. Component(n, e) \in put.bv \cap xcr0 => Component(n, e) \in xcr0
        OBVIOUS
      <4> QED BY <2>6, <3>1, <4>1, <4>2, <4>3
    <3>2. CASE m # n
      <4>1. result[m][e] = v[m][e]
        BY <1>4, <3>2
      <4>2. CASE Component(m, e) \in put.bv \cap xcr0
        BY <2>6, <3>2, <4>1, <4>2
      <4>3. CASE Component(m, e) \notin put.bv \cap xcr0
        <5>1. Component(m, e) \notin u
          BY <2>4, <4>3
        <5> QED BY <2>7, <4>1, <4>3, <5>1
      <4> QED BY <4>2, <4>3
    <3> QED BY <3>1, <3>2
  <2>9. new.vec = [m \in VecRegs |-> [e \in 0..7 |->
                     IF Component(m, e) \in put.bv \cap xcr0 THEN Word(put, ArchOffset(m, e)) ELSE 0]]
        /\ new.inuse = put.bv \cap xcr0 /\ new = [vec |-> new.vec, inuse |-> new.inuse]
    BY <2>5 DEF SetXsave
  <2>10. new.vec = result
    <3>1. result = [m \in VecRegs |-> [e \in 0..7 |-> result[m][e]]]
      BY <1>4
    <3> QED BY <2>8, <2>9, <3>1
  <2>11. new = [vec |-> result, inuse |-> u \cup Spread(n)]
    BY <2>4, <2>9, <2>10
  <2>12. \A m \in VecRegs, e \in 0..7 : result[m][e] # 0 => Component(m, e) \in u \cup Spread(n)
    BY <2>4, <2>8
  <2>13. GoodVec(result, u \cup Spread(n))
    BY <1>4, <1>6, <2>3, <2>12 DEF GoodVec
  <2> QED BY <1>6, <2>11, <2>13 DEF new, result, fit
<1> QED BY <1>5, <1>6

\* What restore() makes of the registers of a snapshot.
SetAll(base, z, registers) ==
  FoldSet(LAMBDA n, acc : set_zmm(acc, n, [i \in 1..8 |-> z[n][i - 1]]), base, registers)

\* G says what every subset of the registers S makes of base.
Makes(G, base, z, S) ==
  /\ G = [t \in SUBSET S |-> G[t]] /\ G[{}] = base
  /\ \A t \in SUBSET S, n \in S :
       n \in t => G[t] = set_zmm(G[t \ {n}], n, [i \in 1..8 |-> z[n][i - 1]])

\* Folding set_zmm over a finite set: induction over its subsets, as well-founded sets.
LEMMA FoldOfSets ==
  ASSUME NEW S, IsFiniteSet(S), NEW base, NEW z, NEW G, Makes(G, base, z, S)
  PROVE  SetAll(base, z, S) = G[S]
<1> USE DEF Makes
<1> DEFINE Pick(t) == CHOOSE x \in t : TRUE
           d(n) == [i \in 1..8 |-> z[n][i - 1]]
           Body(f) == [t \in SUBSET S |-> IF t = {} THEN base
                        ELSE set_zmm(f[t \ {Pick(t)}], Pick(t), d(Pick(t)))]
           iter == CHOOSE f : f = Body(f)
<1>1. SetAll(base, z, S) = iter[S]
  BY DEF SetAll, FoldSet, MapThenFoldSet
<1>2. \A t \in SUBSET S : t # {} => Pick(t) \in t
  OBVIOUS
<1> HIDE DEF Pick
<1>3. G = Body(G)
  <2>1. /\ G = [t \in SUBSET S |-> G[t]] /\ G[{}] = base
        /\ \A t \in SUBSET S, n \in S : n \in t => G[t] = set_zmm(G[t \ {n}], n, d(n))
    OBVIOUS
  <2> HIDE DEF d, Makes
  <2>2. ASSUME NEW t \in SUBSET S
        PROVE  G[t] = IF t = {} THEN base ELSE set_zmm(G[t \ {Pick(t)}], Pick(t), d(Pick(t)))
    <3>1. CASE t = {}
      BY ONLY <2>1, <3>1
    <3>2. CASE t # {}
      <4>1. Pick(t) \in t /\ Pick(t) \in S
        BY ONLY <1>2, <3>2, t \in SUBSET S
      <4>2. G[t] = set_zmm(G[t \ {Pick(t)}], Pick(t), d(Pick(t)))
        BY ONLY <2>1, <4>1, t \in SUBSET S
      <4> QED BY ONLY <3>2, <4>2
    <3> QED BY <3>1, <3>2
  <2> QED BY ONLY <2>1, <2>2
<1>4. iter = Body(iter)
  <2> DEFINE P(f) == f = Body(f)
  <2>1. P(G)
    BY <1>3
  <2> HIDE DEF P
  <2>2. P(CHOOSE f : P(f))
    BY <2>1
  <2> QED BY <2>2 DEF P
<1>5. \A t \in SUBSET S : iter[t] = G[t]
  <2> DEFINE Bad == {t \in SUBSET S : iter[t] # G[t]}
  <2> SUFFICES ASSUME Bad # {} PROVE FALSE
    OBVIOUS
  <2>1. IsWellFoundedOn(StrictSubsetOrdering(S), SUBSET S)
    <3>1. FiniteSubsetsOf(S) = SUBSET S
      BY FS_FiniteSubsetsOfFinite
    <3> QED BY <3>1, FS_StrictSubsetOrderingWellFounded
  <2>2. PICK t \in Bad : \A u \in Bad : ~(<<u, t>> \in StrictSubsetOrdering(S))
    <3>1. Bad \subseteq SUBSET S /\ Bad # {}
      OBVIOUS
    <3> HIDE DEF Bad
    <3> QED BY <2>1, <3>1, WFMin
  <2>3. t \in SUBSET S /\ iter[t] # G[t]
    OBVIOUS
  <2>4. iter[t] = IF t = {} THEN base
                  ELSE set_zmm(iter[t \ {Pick(t)}], Pick(t), d(Pick(t)))
    <3> HIDE DEF iter, d
    <3> QED BY <1>4, <2>3
  <2>5. t # {}
    BY <2>3, <2>4
  <2>6. t \ {Pick(t)} \in SUBSET S /\ Pick(t) \in t /\ <<t \ {Pick(t)}, t>> \in StrictSubsetOrdering(S)
    BY <1>2, <2>3, <2>5 DEF StrictSubsetOrdering
  <2>7. iter[t \ {Pick(t)}] = G[t \ {Pick(t)}]
    BY <2>2, <2>6
  <2>8. G[t] = set_zmm(G[t \ {Pick(t)}], Pick(t), d(Pick(t)))
    BY <2>3, <2>6
  <2> QED BY <2>3, <2>4, <2>5, <2>7, <2>8
<1> QED BY <1>1, <1>5

\* restore() leaves every register with the chunks of the snapshot that fit.
LEMMA RestoreFits ==
  ASSUME LayoutInv, caps = Caps, GoodVec(vec, inuse), NEW z \in [VecRegs -> [0..7 -> Nat]]
  PROVE  LET new == SetAll([vec |-> vec, inuse |-> inuse], z, VecRegs)
         IN /\ new.vec = [n \in VecRegs |-> Contract!Fit(n, [i \in 1..8 |-> z[n][i - 1]])]
            /\ GoodVec(new.vec, new.inuse)
<1> DEFINE d(n) == [i \in 1..8 |-> z[n][i - 1]]
           fit == [n \in VecRegs |-> Contract!Fit(n, d(n))]
           vecs(t) == [n \in VecRegs |-> IF n \in t THEN fit[n] ELSE vec[n]]
           used(t) == IF Hardware THEN inuse \cup UNION {Spread(n) : n \in t} ELSE inuse
           G == [t \in SUBSET VecRegs |-> [vec |-> vecs(t), inuse |-> used(t)]]
           base == [vec |-> vec, inuse |-> inuse]
<1>1. IsFiniteSet(VecRegs)
  <2>1. VecRegs \subseteq 0..31
    BY CallsAssumption DEF ZMM_REGS
  <2>2. 0 \in Int /\ 31 \in Int
    OBVIOUS
  <2>3. IsFiniteSet(0..31)
    BY ONLY <2>2, FS_Interval, Zenon
  <2> QED BY <2>1, <2>3, FS_Subset
<1>2. \A n \in VecRegs : d(n) \in Seq(Nat)
  <2> SUFFICES ASSUME NEW n \in VecRegs PROVE d(n) \in Seq(Nat)
    OBVIOUS
  <2>1. \A i \in 1..8 : z[n][i - 1] \in Nat
    <3> SUFFICES ASSUME NEW i \in 1..8 PROVE z[n][i - 1] \in Nat
      OBVIOUS
    <3>1. i - 1 \in 0..7
      OBVIOUS
    <3> QED BY <3>1
  <2> QED BY <2>1
<1>3. vec \in [VecRegs -> [0..7 -> Nat]]
  BY DEF GoodVec
<1>a. \A n \in VecRegs, c \in 0..7 : \A data \in Seq(Nat) :
        /\ Contract!Fit(n, data)[c] \in Nat
        /\ Hardware /\ Contract!Fit(n, data)[c] # 0 => Component(n, c) \in xcr0
  <2> SUFFICES ASSUME NEW n \in VecRegs, NEW c \in 0..7, NEW data \in Seq(Nat)
               PROVE  /\ Contract!Fit(n, data)[c] \in Nat
                      /\ Hardware /\ Contract!Fit(n, data)[c] # 0 => Component(n, c) \in xcr0
    OBVIOUS
  <2>1. /\ Contract!Fit(n, data)[c] = IF Hardware => Component(n, c) \in xcr0 THEN Chunk(data, c) ELSE 0
        /\ Chunk(data, c) \in Nat
    BY FitIsChunk
  <2> HIDE DEF Hardware
  <2> QED BY <2>1
<1>b. \A v, u : GoodVec(v, u) => \A n \in VecRegs : \A data \in Seq(Nat) :
        set_zmm(VecState(v, u), n, data) = VecState(WithZmm(v, n, data), WithSpread(u, n))
  <2> SUFFICES ASSUME NEW v, NEW u, GoodVec(v, u), NEW n \in VecRegs, NEW data \in Seq(Nat)
               PROVE  set_zmm(VecState(v, u), n, data) = VecState(WithZmm(v, n, data), WithSpread(u, n))
    OBVIOUS
  <2> HIDE DEF LayoutInv, Hardware, GoodVec
  <2> QED BY SetZmmFits, Zenon
<1> HIDE DEF d
<1>4. \A n \in VecRegs : fit[n] \in [0..7 -> Nat]
  <2> SUFFICES ASSUME NEW n \in VecRegs PROVE Contract!Fit(n, d(n)) \in [0..7 -> Nat]
    OBVIOUS
  <2>1. \A c \in 0..7 : Contract!Fit(n, d(n))[c] \in Nat
    BY <1>2, <1>a
  <2>2. Contract!Fit(n, d(n)) = [c \in 0..7 |-> Contract!Fit(n, d(n))[c]]
    BY DEF Contract!Fit, Contract!Chunks
  <2> QED BY <2>1, <2>2
<1> HIDE DEF fit
<1>5. \A t \in SUBSET VecRegs : GoodVec(vecs(t), used(t))
  <2> SUFFICES ASSUME NEW t \in SUBSET VecRegs PROVE GoodVec(vecs(t), used(t))
    OBVIOUS
  <2>1. vecs(t) \in [VecRegs -> [0..7 -> Nat]]
    BY <1>3, <1>4
  <2>2. CASE ~Hardware
    BY <2>1, <2>2 DEF GoodVec
  <2>3. CASE Hardware
    <3>1. /\ inuse \subseteq xcr0
          /\ \A n \in VecRegs, c \in 0..7 : vec[n][c] # 0 => Component(n, c) \in inuse
      BY <2>3 DEF GoodVec
    <3>2. used(t) = inuse \cup UNION {Spread(n) : n \in t}
      BY <2>3
    <3>3. used(t) \subseteq xcr0
      BY <3>1, <3>2 DEF Spread
    <3>4. ASSUME NEW n \in VecRegs, NEW c \in 0..7, vecs(t)[n][c] # 0
          PROVE  Component(n, c) \in used(t)
      <4>1. CASE n \in t
        <5>1. fit[n][c] # 0
          BY <3>4, <4>1
        <5>2. Component(n, c) \in xcr0
          BY <1>2, <1>a, <2>3, <5>1 DEF fit
        <5> QED BY <3>2, <4>1, <5>2 DEF Spread
      <4>2. CASE n \notin t
        BY <3>1, <3>2, <3>4, <4>2
      <4> QED BY <4>1, <4>2
    <3> HIDE DEF used, vecs
    <3> QED BY <2>1, <3>3, <3>4 DEF GoodVec
  <2> QED BY <2>2, <2>3
<1>6. ASSUME NEW t \in SUBSET VecRegs, NEW n \in VecRegs, n \in t
      PROVE  G[t] = set_zmm(G[t \ {n}], n, d(n))
  <2> DEFINE r == t \ {n}
  <2>1. GoodVec(vecs(r), used(r)) /\ G[r] = [vec |-> vecs(r), inuse |-> used(r)]
    BY <1>5
  <2>2. [vecs(r) EXCEPT ![n] = fit[n]] = vecs(t)
    <3>1. \A m \in VecRegs : (IF m = n THEN fit[n] ELSE vecs(r)[m]) = vecs(t)[m]
      BY <1>6
    <3>2. /\ [vecs(r) EXCEPT ![n] = fit[n]] = [m \in VecRegs |-> IF m = n THEN fit[n] ELSE vecs(r)[m]]
          /\ vecs(t) = [m \in VecRegs |-> vecs(t)[m]]
      OBVIOUS
    <3> HIDE DEF vecs, r
    <3> QED BY <3>1, <3>2
  <2>3. (IF Hardware THEN used(r) \cup Spread(n) ELSE used(r)) = used(t)
    BY <1>6
  <2>4. G[t] = [vec |-> vecs(t), inuse |-> used(t)]
    OBVIOUS
  <2> HIDE DEF vecs, used, G, r
  <2>5. set_zmm(VecState(vecs(r), used(r)), n, d(n))
          = VecState(WithZmm(vecs(r), n, d(n)), WithSpread(used(r), n))
    <3>1. \A m \in VecRegs : \A data \in Seq(Nat) :
            set_zmm(VecState(vecs(r), used(r)), m, data)
              = VecState(WithZmm(vecs(r), m, data), WithSpread(used(r), m))
      BY <1>b, <2>1, Zenon
    <3>2. n \in VecRegs /\ d(n) \in Seq(Nat)
      BY <1>2
    <3> QED BY <3>1, <3>2, Zenon
  <2>6. fit[n] = Contract!Fit(n, d(n))
    BY DEF fit
  <2>7. WithZmm(vecs(r), n, d(n)) = vecs(t) /\ WithSpread(used(r), n) = used(t)
    BY <2>2, <2>3, <2>6 DEF WithZmm, WithSpread
  <2>8. G[r] = VecState(vecs(r), used(r)) /\ G[t] = VecState(vecs(t), used(t))
    BY <2>1, <2>4 DEF VecState
  <2>9. G[t] = set_zmm(G[r], n, d(n))
    BY <2>5, <2>7, <2>8, Zenon
  <2> QED BY <2>9 DEF r
<1>7. G[{}] = base
  <2>1. vecs({}) = vec /\ used({}) = inuse
    BY <1>3
  <2> QED BY <2>1
<1>8. G[VecRegs] = [vec |-> vecs(VecRegs), inuse |-> used(VecRegs)] /\ vecs(VecRegs) = fit
  BY DEF fit
<1>9. G = [t \in SUBSET VecRegs |-> G[t]]
  OBVIOUS
<1> HIDE DEF G, vecs, used, base
<1>10. SetAll(base, z, VecRegs) = G[VecRegs]
  <2>1. \A t \in SUBSET VecRegs, n \in VecRegs :
          n \in t => G[t] = set_zmm(G[t \ {n}], n, [i \in 1..8 |-> z[n][i - 1]])
    BY <1>6 DEF d
  <2>2. Makes(G, base, z, VecRegs)
    BY <1>7, <1>9, <2>1 DEF Makes
  <2> QED BY <1>1, <2>2, FoldOfSets, Zenon
<1>11. GoodVec(vecs(VecRegs), used(VecRegs))
  BY <1>5
<1>12. SetAll(base, z, VecRegs) = [vec |-> fit, inuse |-> used(VecRegs)]
  BY <1>8, <1>10
<1>13. SetAll(base, z, VecRegs).vec = fit /\ SetAll(base, z, VecRegs).inuse = used(VecRegs)
  BY <1>12
<1>14. GoodVec(SetAll(base, z, VecRegs).vec, SetAll(base, z, VecRegs).inuse)
  BY <1>8, <1>11, <1>13
<1> QED BY <1>13, <1>14 DEF d, fit, base

-----------------------------------------------------------------------------
(* The calls, one by one *)

\* The vectors travel through images unharmed, those of every snapshot included.
VecInv == /\ GoodVec(vec, inuse)
          /\ \A s \in saved : s.zmm \in [VecRegs -> [0..7 -> Nat]]

\* What the accessors report is what view says.
ViewInv == view = View

RefinementInv == LayoutInv /\ PlacesInv /\ HistoryInv /\ VecInv /\ ViewInv

LEMMA CapsFixed ==
  ASSUME UNCHANGED machine
  PROVE  Caps' = Caps
<1>1. backend' = backend /\ host' = host /\ Hardware' = Hardware /\ Supported' = Supported
  BY FixedFacts
<1> HIDE DEF backend, host, Hardware, Supported
<1>2. GuestLimit' = GuestLimit
  BY <1>1 DEF GuestLimit
<1>3. VcpuXcr0' = VcpuXcr0
  BY <1>1 DEF VcpuXcr0
<1>4. \A c : Refusable(c)' = Refusable(c)
  BY <1>1 DEF Refusable
<1> HIDE DEF GuestLimit, VcpuXcr0, Refusable
<1>5. {c \in Supported : Refusable(c)}' = {c \in Supported : Refusable(c)}
  BY <1>1, <1>4
<1> QED BY <1>1, <1>2, <1>3, <1>5 DEF Caps

LEMMA CallKeeps ==
  ASSUME RefinementInv, UNCHANGED fixed, Observed
  PROVE  LayoutInv' /\ HistoryInv' /\ ViewInv'
<1>1. UNCHANGED <<machine, xcr0, layout>>
  BY DEF fixed
<1>2. Caps' = Caps /\ host' = host
  BY <1>1, CapsFixed, FixedFacts
<1>3. LayoutInv'
  <2> HIDE DEF host
  <2> QED BY <1>1, <1>2 DEF RefinementInv, LayoutInv
<1>4. HistoryInv'
  <2> HIDE DEF Caps, Regs
  <2> QED BY <1>2 DEF RefinementInv, HistoryInv, Observed
<1>5. ViewInv'
  BY DEF ViewInv, Observed
<1> QED BY <1>3, <1>4, <1>5

LEMMA GoodVecNext ==
  ASSUME UNCHANGED fixed, GoodVec(vec', inuse'),
         \A s \in saved' : s.zmm \in [VecRegs -> [0..7 -> Nat]]
  PROVE  VecInv'
<1>1. xcr0' = xcr0 /\ Hardware' = Hardware
  BY FixedFacts DEF fixed
<1> HIDE DEF Hardware
<1>2. GoodVec(vec, inuse)'
  BY <1>1 DEF GoodVec
<1> QED BY <1>2 DEF VecInv

LEMMA VecKept ==
  ASSUME VecInv, UNCHANGED <<fixed, vec, inuse, saved>>
  PROVE  VecInv'
BY GoodVecNext DEF VecInv

LEMMA PlacesNext ==
  ASSUME PlacesInv, UNCHANGED <<machine, saved>>, DOMAIN slots' = DOMAIN slots, slots'[RIP] \in Nat
  PROVE  PlacesInv'
<1>1. Supported' = Supported /\ \A c : ArchSlot(c)' = ArchSlot(c)
  BY FixedFacts
<1>2. SnappedCells' = SnappedCells /\ RIP' = RIP
  BY DEF SnappedCells, RIP
<1> HIDE DEF Supported, ArchSlot, SnappedCells, RIP
<1> QED BY <1>1, <1>2 DEF PlacesInv

LEMMA PlacesKept ==
  ASSUME PlacesInv, UNCHANGED <<machine, slots, saved>>
  PROVE  PlacesInv'
BY PlacesNext DEF PlacesInv, RIP

\* The refinement mapping sees the state as the accessors do.
LEMMA ViewIsSeen ==
  ASSUME LayoutInv, PlacesInv, HistoryInv, VecInv
  PROVE  View = Contract!Seen
<1>1. /\ machine \in Machines /\ caps = Caps /\ regs = [d \in Supported |-> slots[ArchSlot(d)]]
  BY DEF PlacesInv, HistoryInv, Regs
<1>2. /\ Supported = Cells \ LeftOut /\ caps.cells = Supported /\ caps.rawFlags = (backend = "sail")
      /\ \A c \in Supported : ArchSlot(c) = RFLAGS <=> c = RFLAGS
  BY <1>1, SupportedFacts, CapsFields
<1>3. Contract!RFLAGS = RFLAGS /\ Contract!HarnessFlags = HarnessFlags
  BY DEF Contract!RFLAGS, RFLAGS, Contract!HarnessFlags, HarnessFlags
<1>4. \A c \in Cells : Get(c) = IF c \notin caps.cells THEN 0
                                ELSE IF c = Contract!RFLAGS /\ ~caps.rawFlags
                                THEN regs[c] \ Contract!HarnessFlags ELSE regs[c]
  <2> SUFFICES ASSUME NEW c \in Cells
               PROVE  Get(c) = IF c \notin caps.cells THEN 0
                                ELSE IF c = Contract!RFLAGS /\ ~caps.rawFlags
                                THEN regs[c] \ Contract!HarnessFlags ELSE regs[c]
    OBVIOUS
  <2>1. IF c \in LeftOut THEN GetSlots(backend, c) = {} ELSE GetSlots(backend, c) = {ArchSlot(c)}
    BY <1>1, CallsAssumption, SlotsAreArchitectural
  <2> HIDE DEF Supported, LeftOut, ArchSlot, backend, GetSlots
  <2>2. CASE c \in LeftOut
    BY <1>2, <2>1, <2>2 DEF Get
  <2>3. CASE c \notin LeftOut
    <3>1. (CHOOSE name \in GetSlots(backend, c) : TRUE) = ArchSlot(c)
      BY <2>1, <2>3
    <3>2. Get(c) = IF c = RFLAGS /\ backend # "sail" THEN slots[ArchSlot(c)] \ HarnessFlags
                   ELSE slots[ArchSlot(c)]
      BY <2>1, <2>3, <3>1 DEF Get
    <3>3. c \in Supported /\ regs[c] = slots[ArchSlot(c)]
      BY <1>1, <1>2, <2>3
    <3> QED BY <1>2, <1>3, <3>2, <3>3
  <2> QED BY <2>2, <2>3
<1>5. Zmms = vec
  BY ZmmsAreVectors DEF VecInv
<1>6. VectorRegs = caps.vecs /\ vector_chunks = caps.chunks
  BY <1>1, ChunksHeld
<1>7. \A r \in Ranges : read_mem(r[1], r[2]) = Contract!Load(mem, r[1], r[2])
  <2> SUFFICES ASSUME NEW r \in Ranges PROVE read_mem(r[1], r[2]) = Contract!Load(mem, r[1], r[2])
    OBVIOUS
  <2>1. r[1] \in Nat /\ r[2] \in Nat
    BY CallsAssumption, SizesAssumption
  <2> QED BY <1>1, <2>1, ReadsAreLoads
<1> HIDE DEF Get, Zmms, VectorRegs, vector_chunks, read_mem, Contract!Load
<1> QED BY <1>4, <1>5, <1>6, <1>7 DEF View, Contract!Seen

LEMMA RipWritten ==
  ASSUME PlacesInv, HistoryInv, NEW w \in machine.inputs.cells
  PROVE  Put(slots, w[1], w[2])[RIP] \in Nat
<1>1. /\ machine \in Machines /\ w[1] \in Cells /\ (w[1] = RIP => w[2] \in Nat)
      /\ caps.narrow = IF backend = "bochs" THEN BochsNarrow ELSE {}
      /\ caps.cells = Supported
  BY InputsAssumption, CallsAssumption, SizesAssumption, CapsFields DEF PlacesInv, HistoryInv, RIP
<1>2. RIP \in Supported /\ ArchSlot(RIP) = RIP /\ RIP # RFLAGS
  BY <1>1, SupportedFacts
<1>3. regs[RIP] \in Nat
  BY <1>2 DEF PlacesInv, HistoryInv, Regs
<1>4. Put(slots, w[1], w[2])[RIP] = RegsIn(Put(slots, w[1], w[2]))[RIP]
  BY <1>2 DEF RegsIn
<1>5. RIP \in Contract!Synonyms(w[1]) => w[1] = RIP
  BY DEF RIP, Contract!Synonyms, Contract!FsBase, Contract!GsBase
<1>6. RIP \notin caps.narrow /\ Contract!RFLAGS = RFLAGS
  BY <1>1 DEF RIP, BochsNarrow, CR0, Contract!RFLAGS, RFLAGS
<1> HIDE DEF Put, Supported, RIP, RFLAGS, ArchSlot, BochsNarrow, backend
<1>7. CASE w[1] \notin Supported
  BY <1>1, <1>3, <1>4, <1>7, PutIsAfter
<1>8. CASE w[1] \in Supported
  <2>1. RegsIn(Put(slots, w[1], w[2])) = Contract!After(regs, w[1], w[2])
    BY <1>1, <1>8, PutIsAfter
  <2>2. Contract!After(regs, w[1], w[2])[RIP]
          = IF RIP \in Contract!Synonyms(w[1]) THEN Contract!Kept(w[1], w[2]) ELSE regs[RIP]
    BY <1>1, <1>2 DEF Contract!After
  <2>3. w[1] = RIP => Contract!Kept(w[1], w[2]) = w[2]
    BY <1>2, <1>6 DEF Contract!Kept
  <2> QED BY <1>1, <1>3, <1>4, <1>5, <2>1, <2>2, <2>3
<1> QED BY <1>7, <1>8

LEMMA ShadowKept ==
  ASSUME UNCHANGED pdeShadow
  PROVE  (UNION {f..(f + Frame - 1) : f \in pdeShadow})' = UNION {f..(f + Frame - 1) : f \in pdeShadow}
OBVIOUS

LEMMA SetCellRefines ==
  ASSUME RefinementInv, NEW w \in machine.inputs.cells, SetCell(w[1], w[2])
  PROVE  /\ RefinementInv'
         /\ w \in CellWrites /\ call' = <<"set", w>> /\ Contract!Write(w[1], w[2])
<1>1. /\ UNCHANGED <<fixed, vec, inuse, saved>> /\ Observed /\ call' = <<"set", <<w[1], w[2]>>>>
      /\ slots' = Put(slots, w[1], w[2]) \/ slots' = slots
  BY DEF SetCell, Call
<1>2. machine \in Machines /\ machine' = machine
  BY <1>1 DEF fixed, RefinementInv, PlacesInv
<1>3. w \in CellWrites /\ w = <<w[1], w[2]>> /\ w[1] \in Cells
  BY <1>2, CallsAssumption
<1>4. LayoutInv' /\ HistoryInv' /\ ViewInv'
  BY <1>1, CallKeeps
<1>5. VecInv'
  BY <1>1, VecKept DEF RefinementInv
<1>6. PlacesInv'
  <2>1. DOMAIN slots' = DOMAIN slots
    BY <1>1 DEF Put
  <2>2. slots'[RIP] \in Nat
    BY <1>1, RipWritten DEF RefinementInv, PlacesInv
  <2> QED BY <1>1, <1>2, <2>1, <2>2, PlacesNext DEF RefinementInv
<1>7. Contract!Write(w[1], w[2])
  BY <1>3, <1>4, WriteStep DEF RefinementInv
<1>8. call' = <<"set", w>>
  BY <1>1, <1>3
<1> QED BY <1>3, <1>4, <1>5, <1>6, <1>7, <1>8 DEF RefinementInv

LEMMA RegsKept ==
  ASSUME UNCHANGED <<machine, slots>>, HistoryInv, HistoryInv'
  PROVE  regs' = regs
<1>1. regs' = RegsIn(slots') /\ regs = RegsIn(slots)
  BY FixedFacts DEF HistoryInv, Regs, RegsIn
<1> QED BY <1>1

LEMMA SetZmmRefines ==
  ASSUME RefinementInv, NEW n \in VecRegs, NEW data \in machine.inputs.zmm, SetZmm(n, data)
  PROVE  /\ RefinementInv'
         /\ data \in ZmmData /\ call' = <<"set_zmm", n, data>> /\ Contract!SetZmm(n, data)
<1>1. /\ UNCHANGED <<fixed, slots, mem, pdeShadow, armed, saved, out>> /\ Observed
      /\ call' = <<"set_zmm", n, data>>
      /\ vec' = set_zmm(VecState(vec, inuse), n, data).vec
      /\ inuse' = set_zmm(VecState(vec, inuse), n, data).inuse
  BY DEF SetZmm, Call, VecState, memory, paging
<1>2. machine \in Machines /\ machine' = machine
  BY <1>1 DEF fixed, RefinementInv, PlacesInv
<1>3. data \in ZmmData /\ data \in Seq(Nat)
  BY <1>2, CallsAssumption
<1>4. LayoutInv' /\ HistoryInv' /\ ViewInv'
  BY <1>1, CallKeeps
<1>5. /\ set_zmm(VecState(vec, inuse), n, data) = VecState(WithZmm(vec, n, data), WithSpread(inuse, n))
      /\ GoodVec(WithZmm(vec, n, data), WithSpread(inuse, n))
  BY <1>3, SetZmmFits DEF RefinementInv, VecInv, HistoryInv
<1>6. vec' = WithZmm(vec, n, data) /\ inuse' = WithSpread(inuse, n)
  <2> HIDE DEF set_zmm, WithZmm, WithSpread
  <2> QED BY <1>1, <1>5 DEF VecState
<1>7. VecInv'
  <2> HIDE DEF GoodVec, WithZmm, WithSpread
  <2> QED BY <1>1, <1>5, <1>6, GoodVecNext DEF RefinementInv, VecInv
<1>8. PlacesInv'
  BY <1>1, <1>2, PlacesKept DEF RefinementInv
<1>9. regs' = regs
  BY <1>1, <1>2, <1>4, RegsKept DEF RefinementInv
<1>10. Contract!SetZmm(n, data)
  BY <1>1, <1>6, <1>9, ShadowKept DEF WithZmm, Contract!SetZmm
<1> QED BY <1>1, <1>3, <1>4, <1>7, <1>8, <1>10 DEF RefinementInv

LEMMA WriteMemRefines ==
  ASSUME RefinementInv, NEW w \in machine.inputs.mem, WriteMem(w[1], w[2]) \/ WriteMemByte(w[1], w[2])
  PROVE  /\ RefinementInv'
         /\ w \in MemWrites /\ call' = <<"write_mem", w>> /\ Contract!WriteMem(w[1], w[2])
<1>1. /\ UNCHANGED <<fixed, slots, vec, inuse, pdeShadow, armed, saved, out>> /\ Observed
      /\ call' = <<"write_mem", <<w[1], w[2]>>>> /\ mem' = WriteBytes(mem, w[1], w[2])
  BY DEF WriteMem, WriteMemByte, Call, paging
<1>2. machine \in Machines /\ machine' = machine
  BY <1>1 DEF fixed, RefinementInv, PlacesInv
<1>3. w \in MemWrites /\ w = <<w[1], w[2]>> /\ w[1] \in Nat /\ w[2] \in Seq(Nat)
  BY <1>2, CallsAssumption, InputsAssumption, SizesAssumption
<1>4. LayoutInv' /\ HistoryInv' /\ ViewInv'
  BY <1>1, CallKeeps
<1>5. VecInv' /\ PlacesInv'
  BY <1>1, <1>2, VecKept, PlacesKept DEF RefinementInv
<1>6. regs' = regs
  BY <1>1, <1>2, <1>4, RegsKept DEF RefinementInv
<1>7. mem' = Contract!Store(mem, w[1], w[2])
  BY <1>1, <1>2, <1>3, WritesAreStores DEF RefinementInv, HistoryInv
<1>8. Contract!WriteMem(w[1], w[2])
  <2> HIDE DEF Contract!Store
  <2> QED BY <1>1, <1>6, <1>7, ShadowKept DEF Contract!WriteMem
<1>9. call' = <<"write_mem", w>>
  BY <1>1, <1>3
<1> QED BY <1>3, <1>4, <1>5, <1>8, <1>9 DEF RefinementInv

LEMMA RipSeen ==
  ASSUME RefinementInv
  PROVE  /\ regs[RIP] = slots[RIP] /\ Get(RIP) = slots[RIP] /\ slots[RIP] \in Nat
         /\ RIP \in SnappedCells /\ RIP \in Supported /\ Contract!RIP = RIP /\ RIP \in DOMAIN slots
         /\ Contract!RFLAGS = RFLAGS /\ RIP # RFLAGS
<1>1. machine \in Machines /\ caps = Caps /\ regs = [d \in Supported |-> slots[ArchSlot(d)]]
      /\ slots[RIP] \in Nat /\ \A c \in Supported : ArchSlot(c) \in DOMAIN slots
  BY DEF RefinementInv, PlacesInv, HistoryInv, Regs
<1>2. /\ RIP \in Supported /\ ArchSlot(RIP) = RIP /\ RIP \in SnappedCells /\ RIP # RFLAGS
      /\ RIP \in Cells /\ caps.cells = Supported
  BY <1>1, SupportedFacts, CapsFields DEF SnappedCells
<1>3. Contract!RIP = RIP /\ Contract!RFLAGS = RFLAGS
  BY DEF Contract!RIP, RIP, Contract!RFLAGS, RFLAGS
<1>4. View = Contract!Seen
  BY ViewIsSeen DEF RefinementInv
<1> HIDE DEF RIP, RFLAGS, Supported, ArchSlot, Get, SnappedCells
<1>5. View.regs[RIP] = Get(RIP)
  BY <1>2 DEF View
<1>6. Contract!Seen.regs[RIP] = regs[RIP]
  BY <1>2, <1>3 DEF Contract!Seen
<1>7. regs[RIP] = slots[RIP] /\ RIP \in DOMAIN slots
  BY <1>1, <1>2
<1> HIDE DEF View, Contract!Seen
<1> QED BY <1>1, <1>2, <1>3, <1>4, <1>5, <1>6, <1>7

LEMMA SnapshotRefines ==
  ASSUME RefinementInv, Snapshot
  PROVE  RefinementInv' /\ call' = <<"snapshot">> /\ Contract!Snapshot
<1> DEFINE taken == [regs |-> [c \in SnappedCells |-> Get(c)], zmm |-> Zmms]
<1>1. /\ UNCHANGED <<fixed, slots, vec, inuse, mem, pdeShadow, armed, out>> /\ Observed
      /\ call' = <<"snapshot">> /\ saved' = saved \cup {taken}
  BY DEF Snapshot, Call, SnappedCells, memory, paging
<1>2. machine \in Machines /\ machine' = machine
  BY <1>1 DEF fixed, RefinementInv, PlacesInv
<1>3. LayoutInv' /\ HistoryInv' /\ ViewInv'
  BY <1>1, CallKeeps
<1>4. Get(RIP) \in Nat /\ RIP \in SnappedCells
  BY RipSeen
<1>5. Zmms \in [VecRegs -> [0..7 -> Nat]]
  <2>1. Zmms = vec
    BY ZmmsAreVectors DEF RefinementInv, VecInv
  <2> QED BY <2>1 DEF RefinementInv, VecInv, GoodVec
<1>6. /\ taken.zmm = Zmms /\ DOMAIN taken.regs = SnappedCells /\ taken.regs[RIP] \in Nat
  <2> HIDE DEF Get, Zmms, SnappedCells, RIP
  <2> QED BY <1>4
<1>7. VecInv'
  <2>1. \A s \in saved' : s.zmm \in [VecRegs -> [0..7 -> Nat]]
    <3> HIDE DEF taken, Zmms
    <3> QED BY <1>1, <1>5, <1>6 DEF RefinementInv, VecInv
  <2>2. GoodVec(vec', inuse')
    BY <1>1 DEF RefinementInv, VecInv
  <2> HIDE DEF GoodVec
  <2> QED BY <1>1, <2>1, <2>2, GoodVecNext
<1>8. PlacesInv'
  <2>1. Supported' = Supported /\ \A c : ArchSlot(c)' = ArchSlot(c)
    BY <1>2, FixedFacts
  <2>2. SnappedCells' = SnappedCells /\ RIP' = RIP
    BY DEF SnappedCells, RIP
  <2> HIDE DEF Supported, ArchSlot, SnappedCells, RIP, taken
  <2>3. \A s \in saved' : DOMAIN s.regs = SnappedCells /\ s.regs[RIP] \in Nat
    BY <1>1, <1>6 DEF RefinementInv, PlacesInv
  <2> QED BY <1>1, <1>2, <2>1, <2>2, <2>3 DEF RefinementInv, PlacesInv
<1>9. regs' = regs
  BY <1>1, <1>2, <1>3, RegsKept DEF RefinementInv
<1>10. taken = [regs |-> [c \in Contract!Snapped |-> view.regs[c]], zmm |-> view.zmm]
  <2>1. Contract!Snapped = SnappedCells /\ SnappedCells \subseteq Cells
    BY DEF Contract!Snapped, SnappedCells
  <2>2. view = View
    BY DEF RefinementInv, ViewInv
  <2> HIDE DEF Get, Zmms, SnappedCells
  <2>3. view.zmm = Zmms /\ \A c \in Cells : view.regs[c] = Get(c)
    BY <2>2 DEF View
  <2> QED BY <2>1, <2>3
<1>11. Contract!Snapshot
  <2> HIDE DEF taken
  <2> QED BY <1>1, <1>9, <1>10, ShadowKept DEF Contract!Snapshot
<1> QED BY <1>1, <1>3, <1>7, <1>8, <1>11 DEF RefinementInv

LEMMA RestoreRefines ==
  ASSUME RefinementInv, NEW s \in saved, Restore(s)
  PROVE  RefinementInv' /\ call' = <<"restore", s>> /\ Contract!Restore(s)
<1> DEFINE new == SetAll([vec |-> vec, inuse |-> inuse], s.zmm, VecRegs)
<1>1. /\ UNCHANGED <<fixed, mem, pdeShadow, armed, saved, out>> /\ Observed
      /\ call' = <<"restore", s>> /\ slots' = Restored(s.regs)
      /\ vec' = new.vec /\ inuse' = new.inuse
  BY DEF Restore, Call, memory, paging, SetAll
<1>2. machine \in Machines /\ machine' = machine
  BY <1>1 DEF fixed, RefinementInv, PlacesInv
<1>3. LayoutInv' /\ HistoryInv' /\ ViewInv'
  BY <1>1, CallKeeps
<1>4. /\ new.vec = [n \in VecRegs |-> Contract!Fit(n, [i \in 1..8 |-> s.zmm[n][i - 1]])]
      /\ GoodVec(new.vec, new.inuse)
  BY RestoreFits DEF RefinementInv, VecInv, HistoryInv
<1> HIDE DEF new
<1>5. VecInv'
  <2> HIDE DEF GoodVec
  <2> QED BY <1>1, <1>4, GoodVecNext DEF RefinementInv, VecInv
<1>6. regs' = Contract!AfterAll(regs, s.regs)
  BY <1>1, <1>2, <1>3, FixedFacts, RestoredIsAfterAll DEF RefinementInv, HistoryInv
<1>7. PlacesInv'
  <2>1. DOMAIN slots' = DOMAIN slots
    BY <1>1 DEF Restored
  <2>2. /\ RIP \in SnappedCells /\ RIP \in Supported /\ RIP # RFLAGS /\ Contract!RFLAGS = RFLAGS
        /\ ArchSlot(RIP) = RIP
        /\ caps.cells = Supported /\ caps.narrow = IF backend = "bochs" THEN BochsNarrow ELSE {}
    BY <1>2, RipSeen, SupportedFacts, CapsFields DEF RefinementInv, HistoryInv
  <2>3. RIP \notin caps.narrow /\ Contract!Snapped = SnappedCells
    BY <2>2 DEF RIP, BochsNarrow, CR0, Contract!Snapped, SnappedCells
  <2>4. s.regs[RIP] \in Nat
    BY DEF RefinementInv, PlacesInv
  <2>5. slots'[RIP] = RegsIn(slots')[RIP]
    BY <2>2 DEF RegsIn
  <2>6. RegsIn(slots') = Contract!AfterAll(regs, s.regs)
    BY <1>1, RestoredIsAfterAll DEF RefinementInv
  <2>7. slots'[RIP] = s.regs[RIP]
    <3> HIDE DEF RIP, RFLAGS, SnappedCells, Supported, BochsNarrow, RegsIn
    <3> QED BY <2>2, <2>3, <2>5, <2>6 DEF Contract!AfterAll, Contract!Kept
  <2> QED BY <1>1, <1>2, <2>1, <2>4, <2>7, PlacesNext DEF RefinementInv
<1>8. Contract!Restore(s)
  <2> HIDE DEF Contract!Fit, Contract!AfterAll
  <2> QED BY <1>1, <1>4, <1>6, ShadowKept DEF Contract!Restore
<1> QED BY <1>1, <1>3, <1>5, <1>7, <1>8 DEF RefinementInv

LEMMA EnableShadowStackRefines ==
  ASSUME RefinementInv, NEW r \in machine.inputs.shadow, EnableShadowStack(r[1], r[2])
  PROVE  /\ RefinementInv' /\ r \in ShadowRanges
         /\ call' = <<"enable_shadow_stack", r>> /\ Contract!EnableShadowStack(r[1], r[2])
<1> DEFINE frames == map_shadow_stack(r[1], r[2])
           refused == backend # "bochs" \/ frames = {}
<1>1. /\ UNCHANGED <<fixed, vec, inuse, mem, saved>> /\ Observed
      /\ call' = <<"enable_shadow_stack", <<r[1], r[2]>>>>
      /\ refused => /\ out' = IF backend = "bochs" THEN "bad_range" ELSE "unsupported"
                    /\ UNCHANGED <<slots, pdeShadow, armed>>
      /\ ~refused => /\ out' = "ok" /\ pdeShadow' = pdeShadow \cup frames
                     /\ slots' = EnabledSlots /\ armed' = TRUE
  BY DEF EnableShadowStack, Call, memory, paging, EnabledSlots
<1>2. /\ machine \in Machines /\ machine' = machine
      /\ caps.cet = (backend = "bochs") /\ caps.cells = Supported
  BY <1>1, CapsFields DEF fixed, RefinementInv, PlacesInv, HistoryInv
<1>3. r \in ShadowRanges /\ r = <<r[1], r[2]>> /\ r[1] \in Nat /\ r[2] \in Nat
  <2>1. r \in Nat \X Nat /\ r \in ShadowRanges
    BY <1>2, CallsAssumption, InputsAssumption
  <2> QED BY <2>1
<1>4. LayoutInv' /\ HistoryInv' /\ ViewInv'
  BY <1>1, CallKeeps
<1>5. VecInv'
  BY <1>1, VecKept DEF RefinementInv
<1>6. /\ frames = {} <=> Contract!BadRange(r[1], r[2])
      /\ ~Contract!BadRange(r[1], r[2]) =>
           UNION {f..(f + Frame - 1) : f \in frames} = Contract!Covered(r[1], r[2])
  BY <1>3, RangesAreFrames
<1>7. call' = <<"enable_shadow_stack", r>>
  BY <1>1, <1>3
<1> HIDE DEF frames
<1>8. CASE refused
  <2>1. regs' = regs
    BY <1>1, <1>2, <1>4, <1>8, RegsKept DEF RefinementInv
  <2>2. PlacesInv'
    BY <1>1, <1>2, <1>8, PlacesKept DEF RefinementInv
  <2>3. ~caps.cet \/ Contract!BadRange(r[1], r[2])
    BY <1>2, <1>6, <1>8
  <2>4. Contract!EnableShadowStack(r[1], r[2])
    <3> HIDE DEF Contract!BadRange, backend
    <3> QED BY <1>1, <1>2, <1>8, <2>1, <2>3, ShadowKept DEF Contract!EnableShadowStack
  <2> QED BY <1>3, <1>4, <1>5, <1>7, <2>2, <2>4 DEF RefinementInv
<1>9. CASE ~refused
  <2>1. /\ caps.cet /\ ~Contract!BadRange(r[1], r[2])
        /\ UNION {f..(f + Frame - 1) : f \in frames} = Contract!Covered(r[1], r[2])
    BY <1>2, <1>6, <1>9
  <2>2. regs' = [d \in caps.cells |->
                   IF d \in {Contract!CR0, Contract!CR4} THEN regs[d] - Contract!Low(regs[d]) + 1
                   ELSE IF d \in Contract!CET THEN 1 ELSE regs[d]]
    BY <1>1, <1>2, <1>4, <1>9, FixedFacts, EnablingSetsBits DEF RefinementInv, HistoryInv
  <2>3. (UNION {f..(f + Frame - 1) : f \in pdeShadow})'
          = (UNION {f..(f + Frame - 1) : f \in pdeShadow}) \cup Contract!Covered(r[1], r[2])
    <3>1. UNION {f..(f + Frame - 1) : f \in pdeShadow \cup frames}
            = (UNION {f..(f + Frame - 1) : f \in pdeShadow})
                \cup (UNION {f..(f + Frame - 1) : f \in frames})
      OBVIOUS
    <3> QED BY <1>1, <1>9, <2>1, <3>1
  <2>4. PlacesInv'
    <3>1. DOMAIN slots' = DOMAIN slots /\ RIP \in DOMAIN slots /\ slots[RIP] \in Nat
      BY <1>1, <1>9, RipSeen DEF EnabledSlots
    <3>2. slots'[RIP] = slots[RIP]
      <4>1. RIP \notin Enabling /\ RIP \notin {<<"msr", "S_CET">>, <<"msr", "U_CET">>}
        BY DEF RIP, Enabling, CR0, CR4
      <4> HIDE DEF RIP, Enabling
      <4> QED BY <1>1, <1>9, <3>1, <4>1 DEF EnabledSlots
    <3> QED BY <1>1, <1>2, <3>1, <3>2, PlacesNext DEF RefinementInv
  <2>5. Contract!EnableShadowStack(r[1], r[2])
    <3> HIDE DEF Contract!BadRange, Contract!Covered, Contract!CR0, Contract!CR4, Contract!CET, Contract!Low
    <3> QED BY <1>1, <1>9, <2>1, <2>2, <2>3 DEF Contract!EnableShadowStack
  <2> QED BY <1>3, <1>4, <1>5, <1>7, <2>4, <2>5 DEF RefinementInv
<1> QED BY <1>8, <1>9

LEMMA RetiringRegisters ==
  ASSUME RefinementInv, HistoryInv', UNCHANGED machine, NEW f \in {{}, {"tf"}, {"rf"}},
         backend = "sail" => f = {},
         slots' = [slots EXCEPT ![RIP] = @ + 1, ![RFLAGS] = @ \cup f]
  PROVE  /\ regs' = [regs EXCEPT ![Contract!RIP] = @ + 1,
                                 ![Contract!RFLAGS] = IF caps.rawFlags THEN @ ELSE @ \cup f]
         /\ DOMAIN slots' = DOMAIN slots /\ slots'[RIP] \in Nat
<1>1. /\ regs[RIP] = slots[RIP] /\ slots[RIP] \in Nat /\ RIP \in DOMAIN slots
      /\ Contract!RIP = RIP /\ Contract!RFLAGS = RFLAGS /\ RIP # RFLAGS
  BY RipSeen
<1>2. regs' = [regs EXCEPT ![RIP] = @ + 1, ![RFLAGS] = @ \cup f]
  BY FixedFacts, RetiringStep DEF RefinementInv, HistoryInv
<1>3. caps.rawFlags = (backend = "sail")
  BY CapsFields DEF RefinementInv, HistoryInv
<1> HIDE DEF RIP, RFLAGS, Contract!RIP, Contract!RFLAGS, backend
<1>4. \A S : S \cup {} = S
  OBVIOUS
<1>5. [regs EXCEPT ![RIP] = @ + 1, ![RFLAGS] = @ \cup f]
        = [regs EXCEPT ![RIP] = @ + 1, ![RFLAGS] = IF caps.rawFlags THEN @ ELSE @ \cup f]
  <2>1. CASE caps.rawFlags
    <3>1. f = {}
      BY <1>3, <2>1
    <3>2. regs[RFLAGS] \cup f = regs[RFLAGS]
      BY <1>4, <3>1, Zenon
    <3>3. [regs EXCEPT ![RIP] = @ + 1, ![RFLAGS] = @ \cup f] = [regs EXCEPT ![RIP] = @ + 1, ![RFLAGS] = @]
      BY <1>1, <3>2
    <3> QED BY <2>1, <3>3
  <2>2. CASE ~caps.rawFlags
    BY <2>2
  <2> QED BY <2>1, <2>2
<1>6. DOMAIN slots' = DOMAIN slots /\ slots'[RIP] = slots[RIP] + 1
  BY <1>1
<1>7. regs' = [regs EXCEPT ![RIP] = @ + 1, ![RFLAGS] = IF caps.rawFlags THEN @ ELSE @ \cup f]
  BY <1>2, <1>5, Zenon
<1>8. regs' = [regs EXCEPT ![Contract!RIP] = @ + 1,
                           ![Contract!RFLAGS] = IF caps.rawFlags THEN @ ELSE @ \cup f]
  BY <1>1, <1>7, Zenon
<1>9. slots'[RIP] \in Nat
  BY <1>1, <1>6
<1> QED BY <1>6, <1>8, <1>9

LEMMA ClearedUppers ==
  ASSUME GoodVec(vec, inuse)
  PROVE  GoodVec([n \in VecRegs |-> [c \in 0..7 |-> IF n < 16 /\ c >= 2 THEN 0 ELSE vec[n][c]]],
                 inuse \ {2, 6})
<1> DEFINE new == [n \in VecRegs |-> [c \in 0..7 |-> IF n < 16 /\ c >= 2 THEN 0 ELSE vec[n][c]]]
<1>1. vec \in [VecRegs -> [0..7 -> Nat]]
  BY DEF GoodVec
<1>2. new \in [VecRegs -> [0..7 -> Nat]]
  BY <1>1
<1>3. ASSUME Hardware, NEW n \in VecRegs, NEW c \in 0..7, new[n][c] # 0
      PROVE  Component(n, c) \in inuse \ {2, 6}
  <2>1. ~(n < 16 /\ c >= 2) /\ vec[n][c] # 0
    BY <1>3
  <2>2. n \in 0..31
    BY CallsAssumption DEF ZMM_REGS
  <2>3. Component(n, c) \in inuse
    BY <1>3, <2>1 DEF GoodVec
  <2>4. Component(n, c) \notin {2, 6}
    BY <2>1, <2>2, VectorOffsets
  <2> QED BY <2>3, <2>4
<1>4. Hardware => inuse \ {2, 6} \subseteq xcr0
  BY DEF GoodVec
<1> HIDE DEF new, Hardware, Component
<1>5. GoodVec(new, inuse \ {2, 6})
  BY <1>2, <1>3, <1>4 DEF GoodVec
<1> QED BY <1>5 DEF new

\* A store that Bochs stops is one into a shadow stack; one that it lets through is not,
\* while they are protected.
LEMMA StoresAndShadows ==
  ASSUME TablesStayWritable, CetInv, NEW a \in Nat
  PROVE  /\ ~StorePermitted(a) => a \in UNION {f..(f + Frame - 1) : f \in pdeShadow}
         /\ StorePermitted(a) => ~(armed /\ a \in UNION {f..(f + Frame - 1) : f \in pdeShadow})
<1>1. ~StorePermitted(a) => FrameOf(a) \in pdeShadow
  BY DEF StorePermitted
<1>2. a \in FrameOf(a)..(FrameOf(a) + Frame - 1)
  BY FrameFacts, SizesAssumption
<1>3. ShadowStacksHold
  BY ProtectedSuffices
<1> HIDE DEF StorePermitted, FrameOf
<1> QED BY <1>1, <1>2, <1>3 DEF ShadowStacksHold

LEMMA StepBytesRefines ==
  ASSUME RefinementInv, TablesStayWritable, CetInv,
         NEW o \in machine.inputs.ops, StepBytes(o[1], o[2])
  PROVE  /\ RefinementInv' /\ o \in Ops
         /\ call' = <<"step_bytes", o[1], o[2]>> /\ Contract!StepBytes(o[1], o[2])
<1> DEFINE op == o[1]
           a == o[2]
           code == Contract!Store(mem, regs[Contract!RIP], <<1>>)
           fetched == regs[Contract!RIP] < caps.guest
           permitted == StorePermitted(a)
           retires == fetched /\ (op # "store" \/ permitted)
           shadow == UNION {f..(f + Frame - 1) : f \in pdeShadow}
<1>1. /\ machine \in Machines /\ caps = Caps /\ caps.guest = GuestLimit
      /\ caps.rawFlags = (backend = "sail")
      /\ Get(RIP) = regs[Contract!RIP] /\ regs[Contract!RIP] \in Nat
  BY RipSeen, CapsFields DEF RefinementInv, PlacesInv, HistoryInv
<1>2. op \in {"nop", "load", "store", "vzeroupper"} /\ a \in Nat /\ o \in Ops
  BY <1>1, CallsAssumption
<1>3. WriteBytes(mem, Get(RIP), <<1>>) = code
  <2>1. <<1>> \in Seq(Nat)
    OBVIOUS
  <2> QED BY <1>1, <2>1, WritesAreStores
<1>4. PICK f \in {{}, {"tf"}, {"rf"}} :
        /\ backend = "sail" => f = {}
        /\ slots' = IF retires THEN [slots EXCEPT ![RIP] = @ + 1, ![RFLAGS] = @ \cup f] ELSE slots
  <2>1. PICK f \in (CASE backend = "kvm" -> {{}, {"tf"}} [] backend = "bochs" -> {{}, {"rf"}}
                       [] OTHER -> {{}}) :
          slots' = IF Get(RIP) < GuestLimit /\ (op # "store" \/ (op = "store" /\ permitted))
                   THEN [slots EXCEPT ![RIP] = @ + 1, ![RFLAGS] = @ \cup f] ELSE slots
    <3> HIDE DEF Get, GuestLimit, backend, RIP, RFLAGS
    <3> QED BY DEF StepBytes
  <2>2. f \in {{}, {"tf"}, {"rf"}} /\ (backend = "sail" => f = {})
    <3> HIDE DEF backend
    <3> QED BY <2>1
  <2> HIDE DEF Get, GuestLimit, backend, RIP, RFLAGS, permitted
  <2> QED BY <1>1, <2>1, <2>2
<1>5. /\ UNCHANGED <<fixed, pdeShadow, armed, saved>> /\ Observed
      /\ call' = <<"step_bytes", op, a>>
      /\ op \in {"load", "store"} => a < GuestLimit
      /\ out' = IF retires THEN "retired" ELSE "fault"
      /\ mem' = IF fetched /\ op = "store" /\ permitted THEN PutBytes(code, <<a % caps.phys>>, <<2>>)
                ELSE code
      /\ IF fetched /\ op = "vzeroupper"
         THEN /\ vec' = [n \in VecRegs |-> [c \in 0..7 |->
                           IF n < 16 /\ c >= 2 THEN 0 ELSE vec[n][c]]]
              /\ inuse' = inuse \ {2, 6}
         ELSE UNCHANGED <<vec, inuse>>
  <2> HIDE DEF Get, GuestLimit, WriteBytes, Contract!Store, Contract!RIP, RIP, StorePermitted
  <2> QED BY <1>1, <1>3 DEF StepBytes, Call
<1>6. LayoutInv' /\ HistoryInv' /\ ViewInv'
  BY <1>5, CallKeeps
<1>7. machine' = machine
  BY <1>5 DEF fixed
<1>8. VecInv'
  <2>1. GoodVec(vec', inuse')
    <3>1. GoodVec(vec, inuse)
      BY DEF RefinementInv, VecInv
    <3> HIDE DEF GoodVec
    <3> QED BY <1>5, <3>1, ClearedUppers
  <2> HIDE DEF GoodVec
  <2> QED BY <1>5, <2>1, GoodVecNext DEF RefinementInv, VecInv
<1>9. retires =>
        regs' = [regs EXCEPT ![Contract!RIP] = @ + 1,
                             ![Contract!RFLAGS] = IF caps.rawFlags THEN @ ELSE @ \cup f]
  BY <1>4, <1>6, <1>7, RetiringRegisters
<1>10. PlacesInv'
  <2>1. CASE retires
    <3>1. DOMAIN slots' = DOMAIN slots /\ slots'[RIP] \in Nat
      BY <1>4, <1>6, <1>7, <2>1, RetiringRegisters
    <3> QED BY <1>5, <1>7, <3>1, PlacesNext DEF RefinementInv
  <2>2. CASE ~retires
    BY <1>4, <1>5, <1>7, <2>2, PlacesKept DEF RefinementInv
  <2> QED BY <2>1, <2>2
<1>11. ~retires => regs' = regs
  BY <1>4, <1>6, <1>7, RegsKept DEF RefinementInv
<1>12. fetched /\ op = "store" /\ permitted => mem' = Contract!Store(code, a, <<2>>)
  <2>1. op = "store" => PutBytes(code, <<a % caps.phys>>, <<2>>) = Contract!Store(code, a, <<2>>)
    BY <1>1, <1>2, <1>5, ByteIsStored
  <2> HIDE DEF code, permitted, fetched, Contract!Store
  <2> QED BY <1>5, <2>1
<1>13. (~permitted => a \in shadow) /\ (permitted => ~(armed /\ a \in shadow))
  BY <1>2, StoresAndShadows
<1>14. shadow' = shadow
  BY <1>5, ShadowKept
<1>15. Contract!StepBytes(op, a)
  <2> HIDE DEF op, a, permitted, shadow
  <2>1. CASE ~fetched
    <3>1. out' = "fault" /\ UNCHANGED <<regs, vec>> /\ mem' = code
      BY <1>5, <1>11, <2>1
    <3>2. regs[Contract!RIP] >= caps.guest
      <4>1. caps.guest \in Nat
        BY <1>1, MemorySizes
      <4> QED BY <1>1, <2>1, <4>1
    <3> HIDE DEF Contract!Store
    <3> QED BY <1>5, <1>14, <3>1, <3>2 DEF Contract!StepBytes, shadow
  <2>2. CASE fetched /\ op = "store" /\ ~permitted
    <3>1. out' = "fault" /\ UNCHANGED <<regs, vec>> /\ mem' = code /\ a \in shadow
      BY <1>5, <1>11, <1>13, <2>2
    <3> HIDE DEF Contract!Store
    <3> QED BY <1>5, <1>14, <2>2, <3>1 DEF Contract!StepBytes, shadow
  <2>3. CASE fetched /\ op = "store" /\ permitted
    <3>1. /\ out' = "retired" /\ mem' = Contract!Store(code, a, <<2>>) /\ UNCHANGED vec
          /\ ~(armed /\ a \in shadow)
          /\ regs' = [regs EXCEPT ![Contract!RIP] = @ + 1,
                                  ![Contract!RFLAGS] = IF caps.rawFlags THEN @ ELSE @ \cup f]
      BY <1>5, <1>9, <1>12, <1>13, <2>3
    <3> HIDE DEF Contract!Store
    <3> QED BY <1>5, <1>14, <2>3, <3>1 DEF Contract!StepBytes, shadow
  <2>4. CASE fetched /\ op \in {"nop", "load"}
    <3>1. /\ out' = "retired" /\ mem' = code /\ UNCHANGED vec
          /\ regs' = [regs EXCEPT ![Contract!RIP] = @ + 1,
                                  ![Contract!RFLAGS] = IF caps.rawFlags THEN @ ELSE @ \cup f]
      BY <1>5, <1>9, <2>4
    <3> HIDE DEF Contract!Store
    <3> QED BY <1>5, <1>14, <2>4, <3>1 DEF Contract!StepBytes, shadow
  <2>5. CASE fetched /\ op = "vzeroupper"
    <3>1. /\ out' = "retired" /\ mem' = code
          /\ vec' = [n \in VecRegs |-> [c \in Contract!Chunks |->
                       IF n < 16 /\ c >= 2 THEN 0 ELSE vec[n][c]]]
          /\ regs' = [regs EXCEPT ![Contract!RIP] = @ + 1,
                                  ![Contract!RFLAGS] = IF caps.rawFlags THEN @ ELSE @ \cup f]
      BY <1>5, <1>9, <2>5 DEF Contract!Chunks
    <3> HIDE DEF Contract!Store, Contract!Chunks
    <3> QED BY <1>5, <1>14, <2>5, <3>1 DEF Contract!StepBytes, shadow
  <2> QED BY <1>2, <2>1, <2>2, <2>3, <2>4, <2>5 DEF op
<1> QED BY <1>2, <1>5, <1>6, <1>8, <1>10, <1>15 DEF RefinementInv

-----------------------------------------------------------------------------
(* The contract is implemented *)

SeenInv == view = Contract!Seen

LEMMA ViewIsContractual == RefinementInv => SeenInv
BY ViewIsSeen DEF RefinementInv, ViewInv, SeenInv

\* A fresh image names no component, and the vectors it stands for are zero.
LEMMA FreshVectors ==
  ASSUME Init
  PROVE  vec = Blank /\ inuse = {}
<1> DEFINE image == GetXsave(Blank, {})
<1>1. CASE Hardware
  <2>1. xsave_reset_vectors(image, layout).bv = {}
    <3>1. image = [words |-> image.words, bv |-> {}, xcomp |-> host.xcomp, len |-> host.len]
      BY ImageFields
    <3> HIDE DEF image
    <3> QED BY <3>1 DEF xsave_reset_vectors
  <2>2. /\ vec = SetXsave(xsave_reset_vectors(image, layout)).vec
        /\ inuse = SetXsave(xsave_reset_vectors(image, layout)).inuse
    <3> HIDE DEF Hardware, image
    <3> QED BY <1>1 DEF Init, image
  <2> HIDE DEF xsave_reset_vectors, image
  <2> QED BY <2>1, <2>2 DEF SetXsave, Blank
<1>2. CASE ~Hardware
  <2> HIDE DEF Hardware
  <2> QED BY <1>2 DEF Init
<1> QED BY <1>1, <1>2

LEMMA RefinementInit == Init => RefinementInv /\ Contract!Init
<1> SUFFICES ASSUME Init PROVE RefinementInv /\ Contract!Init
  OBVIOUS
<1>1. /\ machine \in Machines /\ LayoutInv /\ HistoryInv /\ ViewInv
      /\ pdeShadow = {} /\ armed = FALSE /\ out = "none" /\ call = <<"new">>
  <2> HIDE DEF Caps, Regs, View, EffectiveXcr0, host
  <2> QED BY DEF Init, LayoutInv, HistoryInv, ViewInv
<1>2. Blank \in [VecRegs -> [0..7 -> Nat]] /\ GoodVec(Blank, {})
  <2>1. Blank \in [VecRegs -> [0..7 -> Nat]]
    BY DEF Blank
  <2>2. \A n \in VecRegs, c \in 0..7 : Blank[n][c] = 0
    BY DEF Blank
  <2> HIDE DEF Hardware, Component, Blank
  <2> QED BY <2>1, <2>2 DEF GoodVec
<1>3. saved = {[regs |-> [c \in SnappedCells |-> IF c = RFLAGS THEN {} ELSE 0], zmm |-> Blank]}
  BY DEF Init, SnappedCells
<1>4. VecInv
  <2>1. GoodVec(vec, inuse)
    BY <1>2, FreshVectors
  <2>2. \A s \in saved : s.zmm = Blank
    BY <1>3
  <2> HIDE DEF GoodVec
  <2> QED BY <1>2, <2>1, <2>2 DEF VecInv
<1>5. PlacesInv
  <2>1. /\ RIP \in Supported /\ ArchSlot(RIP) = RIP /\ RIP \in SnappedCells /\ RIP # RFLAGS
        /\ \A c \in Supported : ArchSlot(c) = RIP => c = RIP
    BY <1>1, SupportedFacts
  <2>2. slots = [name \in {ArchSlot(c) : c \in Supported}
                           \cup (UNION {SetSlots(backend, c) : c \in Cells}) |->
                   IF \E c \in Supported : ArchSlot(c) = name
                   THEN ResetValue(CHOOSE c \in Supported : ArchSlot(c) = name) ELSE 0]
    BY DEF Init
  <2>3. ResetValue(RIP) = 0
    BY DEF ResetValue, RIP, RFLAGS, CR0
  <2>4. (CHOOSE c \in Supported : ArchSlot(c) = RIP) = RIP
    BY <2>1
  <2> HIDE DEF RIP, RFLAGS, Supported, ArchSlot, ResetValue, SetSlots, SnappedCells
  <2>5. \A s \in saved : DOMAIN s.regs = SnappedCells /\ s.regs[RIP] = 0
    BY <1>3, <2>1
  <2>6. slots[RIP] = 0 /\ \A c \in Supported : ArchSlot(c) \in DOMAIN slots
    BY <2>1, <2>2, <2>3, <2>4
  <2> QED BY <1>1, <2>5, <2>6 DEF PlacesInv
<1>6. RefinementInv
  BY <1>1, <1>4, <1>5 DEF RefinementInv
<1>7. view = Contract!Seen
  BY <1>6, ViewIsContractual DEF SeenInv
<1>8. UNION {f..(f + Frame - 1) : f \in pdeShadow} = {}
  BY <1>1
<1> HIDE DEF Contract!Seen
<1> QED BY <1>1, <1>6, <1>7, <1>8 DEF Contract!Init

\* What a call keeps, up to the fact that the view is what the contract says it is.
RefinementFacts == RefinementInv /\ TablesStayWritable /\ CetInv
BaseInv == LayoutInv /\ PlacesInv /\ HistoryInv /\ VecInv
ViewSeen == View = Contract!Seen

LEMMA BaseSeen == BaseInv => ViewSeen
BY ViewIsSeen DEF BaseInv, ViewSeen

LEMMA SeenKept ==
  ASSUME UNCHANGED <<caps, regs, vec, mem>>
  PROVE  Contract!Seen' = Contract!Seen
<1>1. \A a, len : Contract!Load(mem, a, len)' = Contract!Load(mem, a, len)
  BY DEF Contract!Load, Contract!Lands, Contract!At
<1> HIDE DEF Contract!Load
<1>2. [r \in Ranges |-> Contract!Load(mem, r[1], r[2])]' = [r \in Ranges |-> Contract!Load(mem, r[1], r[2])]
  BY <1>1
<1>3. [c \in Cells |-> IF c \notin caps.cells THEN 0
                       ELSE IF c = Contract!RFLAGS /\ ~caps.rawFlags
                       THEN regs[c] \ Contract!HarnessFlags ELSE regs[c]]'
        = [c \in Cells |-> IF c \notin caps.cells THEN 0
                           ELSE IF c = Contract!RFLAGS /\ ~caps.rawFlags
                           THEN regs[c] \ Contract!HarnessFlags ELSE regs[c]]
  <2> HIDE DEF Contract!RFLAGS, Contract!HarnessFlags
  <2> QED OBVIOUS
<1> QED BY <1>2, <1>3 DEF Contract!Seen

LEMMA StutterKeeps ==
  ASSUME RefinementInv, UNCHANGED vars
  PROVE  BaseInv' /\ (ViewSeen' => RefinementInv')
<1>1. UNCHANGED <<fixed, machine, slots, vec, inuse, mem, saved, caps, regs, view>>
  BY DEF vars, memory, observed, fixed
<1>2. VecInv' /\ PlacesInv'
  BY <1>1, VecKept, PlacesKept DEF RefinementInv
<1>3. HistoryInv'
  <2>1. Caps' = Caps /\ Regs' = Regs
    BY <1>1, CapsFixed, FixedFacts DEF Regs, RegsIn
  <2> HIDE DEF Caps, Regs
  <2> QED BY <1>1, <2>1 DEF RefinementInv, HistoryInv
<1>4. LayoutInv'
  BY <1>1 DEF RefinementInv, LayoutInv, fixed, host
<1>5. ViewSeen' => ViewInv'
  <2>1. view = Contract!Seen
    BY ViewIsContractual DEF SeenInv
  <2>2. Contract!Seen' = Contract!Seen
    BY <1>1, SeenKept
  <2> HIDE DEF View, Contract!Seen
  <2> QED BY <1>1, <2>1, <2>2 DEF ViewSeen, ViewInv
<1> QED BY <1>2, <1>3, <1>4, <1>5 DEF BaseInv, RefinementInv

\* One call of the oracle is one call of the contract.
LEMMA CallRefines ==
  ASSUME RefinementFacts, Next, ~UNCHANGED vars
  PROVE  RefinementInv' /\ (SeenInv' => Contract!Next)
<1>0. RefinementInv /\ TablesStayWritable /\ CetInv
  BY DEF RefinementFacts
<1>1. SeenInv' => view' = Contract!Seen'
  BY DEF SeenInv
<1>2. Observed => UNCHANGED caps
  BY DEF Observed
<1> HIDE DEF Contract!Seen, SeenInv
<1>3. CASE \E w \in machine.inputs.cells : SetCell(w[1], w[2])
  <2>1. PICK w \in machine.inputs.cells : SetCell(w[1], w[2])
    BY <1>3
  <2>2. /\ RefinementInv' /\ UNCHANGED caps
        /\ w \in CellWrites /\ call' = <<"set", w>> /\ Contract!Write(w[1], w[2])
    BY <1>0, <1>2, <2>1, SetCellRefines DEF SetCell
  <2> HIDE DEF Contract!Write
  <2> QED BY <1>1, <2>2 DEF Contract!Next
<1>4. CASE \E n \in VecRegs, data \in machine.inputs.zmm : SetZmm(n, data)
  <2>1. PICK n \in VecRegs, data \in machine.inputs.zmm : SetZmm(n, data)
    BY <1>4
  <2>2. /\ RefinementInv' /\ UNCHANGED caps
        /\ data \in ZmmData /\ call' = <<"set_zmm", n, data>> /\ Contract!SetZmm(n, data)
    BY <1>0, <1>2, <2>1, SetZmmRefines DEF SetZmm
  <2> HIDE DEF Contract!SetZmm
  <2> QED BY <1>1, <2>2 DEF Contract!Next
<1>5. CASE \E w \in machine.inputs.mem : WriteMem(w[1], w[2]) \/ WriteMemByte(w[1], w[2])
  <2>1. PICK w \in machine.inputs.mem : WriteMem(w[1], w[2]) \/ WriteMemByte(w[1], w[2])
    BY <1>5
  <2>2. /\ RefinementInv' /\ UNCHANGED caps
        /\ w \in MemWrites /\ call' = <<"write_mem", w>> /\ Contract!WriteMem(w[1], w[2])
    BY <1>0, <1>2, <2>1, WriteMemRefines DEF WriteMem, WriteMemByte
  <2> HIDE DEF Contract!WriteMem
  <2> QED BY <1>1, <2>2 DEF Contract!Next
<1>6. CASE Snapshot
  <2>1. RefinementInv' /\ UNCHANGED caps /\ call' = <<"snapshot">> /\ Contract!Snapshot
    BY <1>0, <1>2, <1>6, SnapshotRefines DEF Snapshot
  <2> HIDE DEF Contract!Snapshot
  <2> QED BY <1>1, <2>1 DEF Contract!Next
<1>7. CASE \E s \in saved : Restore(s)
  <2>1. PICK s \in saved : Restore(s)
    BY <1>7
  <2>2. RefinementInv' /\ UNCHANGED caps /\ call' = <<"restore", s>> /\ Contract!Restore(s)
    BY <1>0, <1>2, <2>1, RestoreRefines DEF Restore
  <2> HIDE DEF Contract!Restore
  <2> QED BY <1>1, <2>2 DEF Contract!Next
<1>8. CASE \E r \in machine.inputs.shadow : EnableShadowStack(r[1], r[2])
  <2>1. PICK r \in machine.inputs.shadow : EnableShadowStack(r[1], r[2])
    BY <1>8
  <2>2. /\ RefinementInv' /\ UNCHANGED caps
        /\ r \in ShadowRanges /\ call' = <<"enable_shadow_stack", r>>
        /\ Contract!EnableShadowStack(r[1], r[2])
    BY <1>0, <1>2, <2>1, EnableShadowStackRefines DEF EnableShadowStack
  <2> HIDE DEF Contract!EnableShadowStack
  <2> QED BY <1>1, <2>2 DEF Contract!Next
<1>9. CASE \E o \in machine.inputs.ops : StepBytes(o[1], o[2])
  <2>1. PICK o \in machine.inputs.ops : StepBytes(o[1], o[2])
    BY <1>9
  <2>2. /\ RefinementInv' /\ UNCHANGED caps
        /\ o \in Ops /\ call' = <<"step_bytes", o[1], o[2]>> /\ Contract!StepBytes(o[1], o[2])
    BY <1>0, <1>2, <2>1, StepBytesRefines DEF StepBytes
  <2> HIDE DEF Contract!StepBytes
  <2> QED BY <1>1, <2>2 DEF Contract!Next
<1> QED BY <1>3, <1>4, <1>5, <1>6, <1>7, <1>8, <1>9 DEF Next

LEMMA RefinementStep ==
  RefinementFacts /\ [Next]_vars
    => /\ BaseInv' /\ (ViewSeen' => RefinementInv')
       /\ SeenInv' => [Contract!Next]_(Contract!vars)
<1> SUFFICES ASSUME RefinementFacts, [Next]_vars
             PROVE  /\ BaseInv' /\ (ViewSeen' => RefinementInv')
                    /\ SeenInv' => [Contract!Next]_(Contract!vars)
  OBVIOUS
<1>1. CASE UNCHANGED vars
  <2>1. UNCHANGED Contract!vars
    BY <1>1 DEF vars, memory, paging, observed, Contract!vars
  <2>2. BaseInv' /\ (ViewSeen' => RefinementInv')
    BY <1>1, StutterKeeps DEF RefinementFacts
  <2> QED BY <2>1, <2>2
<1>2. CASE ~UNCHANGED vars
  <2>1. RefinementInv' /\ (SeenInv' => Contract!Next)
    BY <1>2, CallRefines
  <2>2. RefinementInv' => BaseInv'
    BY DEF RefinementInv, BaseInv
  <2> QED BY <2>1, <2>2
<1> QED BY <1>1, <1>2

\* The accessors of every backend keep the trait's promise: whatever the machine, the
\* values, the addresses and the order of the calls, what a caller writes is what the program
\* runs with and what the accessors report, under each of its names and nowhere else.
THEOREM AccessorsImplementContract == Spec => ImplementsAccessContract
<1>1. Init => RefinementFacts /\ Contract!Init
  <2>1. Init => TablesStayWritable
    BY DEF Init, TablesStayWritable
  <2> QED BY <2>1, RefinementInit, CetInit DEF RefinementFacts
<1>2. RefinementFacts /\ [Next]_vars /\ (BaseInv' => ViewSeen') /\ (RefinementInv' => SeenInv')
        => RefinementFacts' /\ [Contract!Next]_(Contract!vars)
  <2>1. RefinementFacts => TablesStayWritable /\ CetInv
    BY DEF RefinementFacts
  <2>2. RefinementInv' /\ TablesStayWritable' /\ CetInv' => RefinementFacts'
    BY DEF RefinementFacts
  <2> HIDE DEF RefinementFacts, BaseInv, ViewSeen, RefinementInv, SeenInv, TablesStayWritable, CetInv,
               Next, vars, Contract!Next, Contract!vars
  <2> QED BY <2>1, <2>2, RefinementStep, TablesStep, CetStep
<1>3. (BaseInv => ViewSeen) /\ (RefinementInv => SeenInv)
  BY BaseSeen, ViewIsContractual
<1> QED BY <1>1, <1>2, <1>3, PTL DEF Spec, ImplementsAccessContract
=============================================================================
