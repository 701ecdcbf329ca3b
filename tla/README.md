# A TLA+ verification of the x86 oracle

This directory specifies the parts of the oracle library whose correctness
depends on order, sharing, failure or numeric inference rather than on the
meaning of single instructions. Paths below are relative to the repository.

## 1. Inventory

| Component | Source | State it keeps | Operations | What makes it correct |
|---|---|---|---|---|
| Bochs instance slot | `src/bochs.rs`, `csrc/bochs_shim.cpp` | `OCCUPIED`, `RELEASED`, `BOCHS_LOCK`; the shim's `g_alive` and page map | `new` (blocks), `try_new`, `drop` | one oracle at a time, no lost wakeup, empty memory for each, hopeless waits end |
| WHP mapping ownership | `src/whp.rs` | `MAPPING_OWNER`, `WHP_LOCK`, partition handle, `GuestRam`, the hypervisor's mapping | `try_new`, `claim_mapping`, `step`, drop of partition and RAM | a guest runs on its own, live RAM; the recorded owner is true |
| Hardware single step | `src/kvm.rs`, `src/whp.rs`, `src/hw.rs` | guest registers, IST frame, `last_fault` | register writes, `step`, `fault_msg` | one instruction per step; a fault is undone and reported exactly |
| Guest RAM and direct memory access | `src/hw.rs`, both drivers | RAM bytes, `touched` | `read_mem`, `write_mem`, `is_mapped` | accesses that leave the RAM do nothing; `is_mapped` knows every write the driver makes |
| Bochs step control | `csrc/bochs_shim.cpp`, `src/bochs.rs`, `vendor/bochs/cpu` | `g_step`, the core's event state | `step`, instrumentation callbacks, `cpu_loop`, `exception` | stops after one instruction; the first exception wins; a fault leaves nothing behind |
| Bochs decode cache | `csrc/bochs_shim.cpp`, `vendor/bochs/cpu` | traces, write stamps, page-split ring, stack cache | host write, guest store, fetch, TLB flush | never executes stale bytes |
| Bochs shadow stack | `csrc/bochs_shim.cpp` | page-table entries, CET MSRs | `enable_shadow_stack` | only the requested frames change, never the page tables'; no ordinary store reaches them |
| Sail instances | `src/sail.rs`, `csrc/shim.cpp` | the runtime's global block list, each instance's own, its exception text | every memory access and step swaps in, runs, swaps out | oracles are isolated |
| XSAVE layout | `src/hw.rs`, both drivers | component offsets, `XSTATE_BV` | `probe`, vector reads, writes and reset, WHP's feature mask | a register is where the processor puts it, on every host and format |
| Register contract | `src/lib.rs`, all backends | registers | get and set, `snapshot`, `restore`, `step_bytes` | what is written is what the program runs with and what is read back, under each of its names |
| Build script | `build.rs` | `OUT_DIR`: the unpacked model, its stamp, a GMP DLL | unpack, find GMP, compile, link, watch | the library is what was asked for, also after interrupted builds; failures have a reason |
| Backend selection | `src/any.rs`, `src/native.rs` | none | `available`, `hardware`, `pairs`, `try_new`, the library loader | every backend that starts is listed; what is left out is told from what fails to start |
| Differential tests | `tests/` | none | compare two backends | client of the library |
| Instruction semantics | `vendor/bochs`, generated Sail C | processor state | instructions | third-party code |

### How they interact

A caller holds an `X86Oracle` and calls it from one thread at a time (`&mut self`),
but several oracles may live in several threads. Every backend puts a process-wide
mutex around its foreign calls. Beyond that mutex:

- Bochs and its shim are process globals. The slot admits one `BochsOracle`;
  a second `new` sleeps on a condition variable. `drop` frees the core under
  `BOCHS_LOCK` and afterwards releases the slot under the mutex of `OCCUPIED`.
- WHP allows one memory-backed partition per process. Oracles hand the mapping
  over in `claim_mapping`, under `MAPPING_OWNER`. `step` and `try_new` hold
  `WHP_LOCK` around it, but the drop of an oracle holds only `MAPPING_OWNER`.
- Every Sail oracle has registers of its own, but guest memory is a global of the
  runtime. A `MemCtx` swaps the instance's list in for a call, under `MODEL_LOCK`.
- The Bochs shim replaces the emulator's memory system and drives its loop through
  callbacks. Both meet in the write stamps: who writes memory must stamp it.
- The hardware drivers share `src/hw.rs`: an IDT whose gates lead to one `HLT`
  per vector, and the code that recognises the stub and unwinds the frame. They
  share the XSAVE image code too: vectors are read out of an image the hypervisor
  gives and written into one it takes.
- The build script runs before all this, in an `OUT_DIR` that outlives it; Cargo
  decides from what the last run said it depends on whether it runs again.

### What is hard

Threads racing for the slot or the swapped globals, panics in the middle of construction, leaked oracles,
handle reuse, failures of each hypervisor call, drop running beside a step, the
trap flag lost between steps, inference of vector and frame shape from addresses,
canceled runs, a cascade of exceptions that outlives the request to stop, decoded
instructions that outlive their bytes, registers with two storages, image formats that
differ between hosts, a TLB that outlives a change of the page tables, builds that end in
the middle. `PROJECT.json` lists each hazard at its line with the properties
that cover it; those without one say why.

## 2. Modules

`SingleOracle`, `IndependentOracles`, `StepContract` and `AccessContract` are abstract: what a
caller is promised. `BochsSlot`, `WhpMapping`, `SailSwap`, `HwStep`, `BochsStep` and
`OracleState` (with `XsaveLayout`) are the
code, each ending with a refinement mapping to its abstract module; `DecodeCache` and
`BuildScript` are the code as well, and state their promises as invariants. `MC*` modules hold the values for TLC;
`*Proofs` modules hold the theorems. Definitions whose comment begins with
"Mutant" are not part of a specification: each is a plausible bug, put in the
place of the definition it follows to see that a property notices it.

### BochsSlot implements SingleOracle

| Variable | Code |
|---|---|
| `occupied` | `OCCUPIED` |
| `pc[t]` | where thread `t` is in `claim_instance`, `new`, `try_new`, `init`, `drop` |
| `holds[t]` | a `BochsOracle` value that `t` will drop |
| `unwinding` | threads that are panicking |
| `gAlive`, `pages` | `g_alive` and the keys of the shim's page map |
| `stranded` | history: the core is alive and no `Drop` will run for it |
| `spurious` | number of spurious wakeups, bounded by `MaxSpurious` |

Critical sections are single steps, because nobody sees their middle; the gaps
between them are where the interleavings are. `Claim`, `Park` and `GiveUp` are the
loop of `claim_instance`; `Expire` and `SpuriousWake` are the condition variable's.
`InitCore` is `init` with the caller's reaction to its result: a null handle (slot
released, panic or `None`), success, or the failed mode assertion, which unwinds
past both the release and the value. `Release` clears the flag and moves *one*
sleeper. The abstract holder is the thread with the value, or `Lost`.

### WhpMapping implements IndependentOracles

`pc[o]` follows an oracle through `try_new`, `step` and its drop. Locks are explicit
(`whpLock`, `ownerLock`) where they are held over more than one step. `claim_mapping`
is one critical section and so one step with five outcomes: kept, unmap failed, map
failed, taken. Drop takes the mutex, gives up the mapping, deletes the partition and
unlocks in four steps, and the RAM goes after it; a failed `try_new` does all that
with `WHP_LOCK` held. The hypervisor refuses a second mapped range, may fail any
call and may reuse a handle value once its partition is deleted. RAM is the set of
pages that hold data; `ramLive` says whether the buffer exists.

### HwStep implements StepContract

Registers are RIP, RSP and the flags TF, RF and one bit for all of the program's.
`BeginStep` arms the trap flag, as KVM does by `KVM_SET_GUEST_DEBUG` and WHP by a
register write. The CPU then executes an instruction of some class, chosen when it
executes because the caller may rewrite code between steps. The run ends in a debug
exit, an exception intercept, a halt, or an exit that needs a device. INT 1 on WHP is indistinguishable from the
step's own #DB and reported as retired; `OutcomeIsExact` says so. Delivery
through the IDT builds the frame on the IST stack as the architecture does, and the
`Handle` actions read it back with `stub_vector` and `unwind_frame`, arithmetic
included. On WHP the set of intercepted vectors is what `enable_exception_exits` and
the retry of the setup can end with: all wanted and supported ones, or none.

Of the steps that `StepContract` does not speak of (MOV SS, traps, INT n), the refinement
says nothing; the invariants do.

Left out: the next run's completion of a pending KVM MMIO or port access,
instructions that write TF or IF themselves, and other state than the registers above.

### BochsStep implements StepContract

The shim's loop calls `cpu_loop` until its callbacks have recorded an event. They only
*ask* the core to stop, so a fault goes on: `DeliverException` finds no gate in an IDT that
reads as zeros (the shim requires this), `GateMissing` raises the next exception, the
combination becomes a double fault, and `ThirdException` shuts the core down, where the
request is at last honoured. `Record` keeps the first exception, `RollBack` is the core's
return to `prev_rip`. `EXT`, `last_exception_type` and `activity_state` are the core's own
and outlast a step, which is why `Instrs` are executed in any sequence and by any oracle on
the same core (`Renew`). Instruction classes: `next`, `rep`, `hlt`, `sti`, `fault`, `push`
(moves RSP first), and `soft` (INT1, INT3, which reach delivery without the callback).

### SailSwap implements IndependentOracles

A `MODEL_LOCK` section is `Lock`, `EnterCtx`, some work on the global list, `LeaveCtx` and
`Unlock`, each a step, so that a call that forgot one would be seen. `region[b]` says which
addresses a heap block serves (`RegionOf`); allocation takes any free block. `step` is one section, and
`fault_msg` another. `rts_refcount` counts instances, and the last `Free` cleans up the
library. Rust's borrow rules (`Busy`, `Borrowable`) decide who may call what beside whom.
Only blocks are swapped in the model: the tag list is handled with the memory list.

### DecodeCache

Memory is a row of 128-byte lines. `cache.entries` is indexed by `hash`, the line exclusive-or
bit 7 of the fetch mode; an entry holds where its trace starts, the instruction that executes,
and the lines the trace covers. When single-stepped, a trace never goes beyond its first
instruction (`BochsStep`'s `OneInstruction`), so the rest of a trace is only its lines, chosen
freely up to the end of the page, which includes every merge. `cache.split` is the ring of
page-split traces, `cache.window` the stack cache with its copy of the stamps. A guest store
takes the fast path (`StoreFast`) or, without write permission in the data TLB or across
pages, the shim's `writePhysicalPage` (`StoreSlow`, `StoreAcross`). `unstamped` is history:
the lines whose last change nobody was told of.

Left out: pages that share entries or stamps, the wrap of the time stamp of trace links,
INVLPG, changes of the page tables. The prefetch queue points into memory and holds no bytes.

### OracleState and XsaveLayout implement AccessContract

`OracleState` is one oracle of any backend, called through the trait. A register is a pair
of kind and index (`Cells`); a backend keeps it in a *slot*, and the tables `SailSet`,
`SailGet`, `BochsSlot`, `KvmSlot` and `WhpSlot` are the translations each backend's accessors make:
which register numbers are clamped, which MSRs and control registers are dropped, which
register is two (the bases of FS and GS are segment fields and MSRs). `ArchSlot` is the slot
that an *instruction* uses, in the order in which instructions number the registers, so that a
setter which misses it is seen even if its own getter agrees with it. `Registers` are all those
that the trait names.

| Variable | Code |
|---|---|
| `machine` | backend, host and the calls made of it |
| `slots` | registers of the backend |
| `vec`, `inuse` | vector registers and the components in use, as the processor has them |
| `xcr0`, `layout` | the effective feature mask and the `XsaveLayout` probed for it |
| `mem`, `touched` | memory and the pages or blocks `is_mapped` reports |
| `pdeShadow`, `dtlb` | Bochs' read-only frames, and pages its TLB takes for writable |
| `written`, `stored`, `loaded` | history: addresses the caller wrote, the program stored to, Bochs' program loaded from |
| `armed`, `caps`, `regs`, `view` | history, and the state as the contract sees it |

`XsaveLayout` is the code of `src/hw.rs` on images that are functions from offsets to words:
`locate` from CPUID and the two bitmaps, `xsave_get_zmm`, `xsave_set_zmm`,
`xsave_reset_vectors`. `GetXsave` and `SetXsave` are the hypervisor's side: they put chunks
where the processor does (`host.base`) and load as zero what `XSTATE_BV` does not
name. A register that the code reads or writes at another offset therefore differs from
the contract's.

`AccessContract` says what `src/lib.rs` says: a write is kept under every name the register
has and nothing else changes, up to what `caps` lets the machine leave out; a snapshot is
what the accessors report, and restoring it brings that back; memory is bytes, and
`step_bytes` runs the bytes it is given; after `enable_shadow_stack` succeeds no ordinary
store reaches the frames, until the caller clears WP, and frames are never the page tables'.

Assumed: the hypervisor takes every value of general registers, RIP and RFLAGS (a refusal
panics in the code), and may refuse any other register, which the setters ignore. What a host
offers is as the manual has it (`HostsAssumption`): KVM offers a mask that a processor accepts;
a WHP that takes masks has a widest one, and takes the masks of AVX and AVX-512 within it; the
vector components have their sizes, and lie in an image where CPUID or the compaction rule puts
them, apart and within its length. Programs
are built in release mode, so that an address that overflows wraps. An image is always long
enough for the legacy area and header. The caller does not overwrite the page tables. Values are a
low half and one bit above it, enough to see 32-bit registers and the bits of CR0, CR4 and CET.

### BuildScript

One machine (`Sites`: its disk, `INCLUDE`, `LIB`, `PATH`, toolchain, missing sources, and the
hypervisor calls that fail there) is asked for builds, one after the other, in one `OUT_DIR`:
other versions of the crate, other variables, other features. That Cargo gives some of these directories of their own only removes
behaviours. `NeedsRun` is Cargo: the script runs again after a failure, a change of a variable
that the last run asked to watch, or an edit of a path it watches, made after the script began.
Unpacking is a step for every file operation, the rest one step per section of the script, and
`Interrupt` ends a build before any of them. A path is a sequence of names, an archive the
sequence of the kinds of its members: `archive_is_static` stops at the first that decides. Trees that somebody
`Edit`s are in `stale` until they are compiled again. Another vendored model is another version.

Of a finished build, `available` and `try_new` ask different things of the hypervisor, as in the
code: `is_available` makes the calls in `Probes` alone (KVM opens `/dev/kvm`, WHP loads its DLL and
asks for a hypervisor), while `try_new` goes through all those in `Calls` and returns the error of the
first that fails. Both see the same set of refused calls; a call whose answer changes in between is
left out. So a listed backend need not start, and nothing here says it does. What `BackendsAreTold`
says is that one that starts is listed, that hardware backends are never two, and that `try_new` says
"unsupported" of exactly the backends the build was not asked for or the platform does not have.

Assumed: removing the old stamp works (see below); the compiler and the linker find what is in
the directories they are given or, if `toolchain`, in those of their own; no error of a hypervisor's
call has a number that Rust reads as `Unsupported` (`ENOSYS`, `EOPNOTSUPP`); `csrc` and the manifest's
other files are edited together with the backend's tree. Left out: the rewriting of `config.h`
for MSVC, optimisation levels, the renaming prefix, zlib: they choose flags and have no effect
on which sources are used.

## 3. Runs

| Run | Bounds | Shows |
|---|---|---|
| `slot` | 3 threads, 2 pages, 1 spurious wakeup | types, one oracle, slot and core agree, no lost wakeup; hopeless waits panic; implements `SingleOracle` |
| `whp` | 3 oracles, 3 handles, 1 page | guest runs on its own live RAM, owner is accurate; `WHP_LOCK` comes back; implements `IndependentOracles` |
| `hw_step` | KVM and 3 WHP hosts, 12 instructions, 3 addresses, `RunLimit` 3 | faults are undone and reported exactly, no runaway; steps return; implements `StepContract` |
| `hw_rsp` | KVM, 2 instructions | *violated*: see the findings |
| `bochs_step` | 12 instructions, 3 addresses, 2 stack pointers, `GuardLimit` 3 | one instruction, first exception, registers and message right; steps return; implements `StepContract`, IF aside |
| `bochs_code`, `bochs_if` | the same | *violated*: see the findings |
| `decode` | 2 pages of 2 lines, 1 ring entry, 2 writes | host writes are seen; stamps cover traces; the stack cache knows of code |
| `decode_store` | the same | *violated*: see the findings |
| `sail` | 2 threads, 2 oracles, 1 region, slices of up to 2 bytes, 2 blocks | blocks have one owner, the library is up, faults are one's own; the lock comes back; implements `IndependentOracles` |
| `access` | one oracle of 4 backends, 8 hosts for vectors; 3 or 4 calls | `is_mapped` knows the writes a backend sees; shadow stacks hold; implements `AccessContract` |
| `build` | up to 3 requests, 1 edit, 2 versions; 13 installations of GMP on 4 search paths, 12 requests, with and without a toolchain's own; hypervisors that fail at different calls | the library is current; outcomes are justified |

Why the bounds are enough. Three threads give a woken waiter, a sleeping one and a
newcomer at once, the smallest case in which a wakeup can be lost to the wrong
thread. Three oracles let one drop while another steps and a third takes over the
freed handle. The retry loop has no state but its counter, so 3 stands for the 64 of
the code. `hw_step` takes one fault without an error code, two error codes for
one vector and a fault that some of the hosts intercept; addresses matter
to the driver only by their distance from the stubs, and stub addresses are the
code's real ones. `MaxRun` 3 lets a runaway guest be seen. The programs reach
`MaxRip`, where an instruction that would go on is not offered; a step
there can still be canceled or fault, so no run deadlocks. `bochs_step` has an exception of
each type that an instruction raises (benign, contributory, page fault), as only the types decide
the cascade (a double fault comes from the cascade alone), with and without an error code and a moved RSP; no step
calls `cpu_loop` a second time, so `GuardLimit` 3 is never met. `sail` needs two oracles and two threads for one swap to meet another, and two
blocks for one to be taken by the wrong list; a slice of two bytes keeps a call in
its section for a second `MemCtx`. `decode` has the least memory in which an
instruction crosses a page and the fetch mode exchanges two lines; a ring of one is always
full; two writes let one change what the other laid out.

`access` makes sequences of calls of four kinds, because registers, vectors and memory share
no state beyond RIP: every register accessor with snapshots, 3 calls on each backend (a write,
another to an alias, a restore); vectors with VZEROUPPER, snapshots, 4 calls on eight hosts
(set, clear, set, restore, in standard images of three widths and compacted ones with and without MPX and PKRU,
behind hypervisors that refuse masks or trim them); memory, 3 calls; and shadow stacks on Bochs, 4
calls (store to have the page in the TLB, enable, write a control register, store). 32 addresses hold
8 bytes of RAM, pages of 2, Sail blocks and Bochs frames of 4, an identity map of 12 in a physical
space of 16 with the page tables at 9 and 10, so that accesses end on, straddle and pass every one of these limits.

`build` needs three requests to go to another version and back, one edit for a tree to become
stale before, during or after a build, and an interruption anywhere. Versions are only compared, so two do.
The archives cover each form the code tells apart, damaged and empty ones too.

### Fairness

`BochsSlot`: the scheduler runs a thread that is inside the library, and a
`wait_timeout` that is not notified expires. `WhpMapping`: a thread inside a call is
scheduled and a guest run ends, which the trap flag ensures; no mutex is assumed
fair, so a thread that wants a lock may starve. `SailSwap`: the thread inside
`MODEL_LOCK` is scheduled, and the generated model's step ends; again no mutex is fair.
`HwStep`: a virtual processor told to run does, and its exit is handled. `BochsStep`: the
thread that steps is scheduled. No fairness is assumed of the caller. `OracleState` and
`BuildScript` have no liveness: each call, and each section of the script, is one step.

### Findings

1. "RSP back to its pre-fault value": `INT 13` pushes no error code, but the unwinder
   infers one from the vector, and reads RIP, CS and SS as error code, RIP and RSP (`hw_rsp`).
2. `EXT` is "0 if current CS:EIP caused exception": nothing clears it after an aborted
   delivery, so from an oracle's second fault on, error codes have bit 0 set (`bochs_code`).
3. "State is what was committed before the fault": the shutdown that ends a cascade clears
   IF in the caller's RFLAGS (`bochs_if`).
4. The core's "own stores keep that cache honest": the shim's `writePhysicalPage` does not
   stamp, so code changed by a guest's first store to a page, or by a store across pages, is
   executed in its old form (`decode_store`). A second way to the same state needs no TLB
   miss: a push to the first line of a page that the stack cache took for free of code, after
   a page-split instruction has run on into it; `StackPageHoldsNoCode` names the exception.

Differences that no run of its own shows, met while modelling:

- Steps. `claim_instance` calls its wait "Bounded", but every wakeup that finds the slot
  retaken starts another 30 s, so newcomers can overtake a waiter for ever. MOV SS defers the
  trap, so one step on KVM or WHP executes two instructions where `src/lib.rs` says exactly
  one. INT3 through the IDT leaves RIP *after* the instruction, the WHP intercept leaves it
  on it, and Bochs reports the general-protection fault of the failed delivery. On the
  hardware backends `fault_msg` is documented as empty if the step retired, and is empty
  after a fault without a vector as well. A KVM access to memory outside the RAM is completed
  by the next `KVM_RUN`, with the registers as the caller has left them.
- Registers. Sail stores RFLAGS as given, where `src/lib.rs` says that bit 1 reads as one and
  TF and RF are masked: restoring `CpuState::default()` gives 0 there and 2 elsewhere
  (`caps.rawFlags`). CR8 of Bochs reads as 0 and ignores writes, though the trait lists it. A WHP
  register read that fails gives zeros in a release build, and the segment setters write
  them back with the one field changed. `AnyOracle::try_new` promises to pass on why a backend
  did not start; its Sail and Bochs arms call constructors that panic or wait. `is_available`, to be
checked "in code that must not panic" (`src/kvm.rs`, `src/whp.rs`), and `Backend::available`, to be checked
before `AnyOracle::new`, make only the first calls of `try_new`: on a host where a later one fails,
`new` panics although the check has passed.
- Vectors. KVM and WHP probe the layout once; after a guest's XSETBV it is stale.
  `vector_chunks` reports the width by the layout, although an image too short for a component drops it.
- Memory. A hardware read that straddles the end of the RAM is all zeros, the bytes inside
  included. `is_mapped` is documented in `src/lib.rs` as "Whether the address's region was ever written",
  a hint only for its granularity; on KVM and WHP it does not know what the *program* has stored, as the
  comments at the drivers' `touched` and `docs/backend-differences.md` admit: a page that only the program
  has written reads as never touched. `MappedTracksWrites` excludes these stores. It marks too much: the page after a write that ends at a boundary, the
  target of a write that was dropped, and on Bochs the pages of guest loads; a write whose
  end overflows is dropped and marks nothing.
- Shadow stacks. `set_cr` flushes Bochs' TLB for CR3 and CR4 and not for CR0: a page stored to while
  WP was clear stays writable when WP is set again. The documentation calls this state the caller's own.
- Build. Cargo is not told of an external runtime (`SAIL_LIB_DIR`), of the headers in
  `X86_ORACLE_SAIL_MODEL_INC`, of `PATH`, `INCLUDE` and `LIB`, nor, without Sail, of
  `SAIL_MODEL_DEBUG`; `LibraryIsCurrent` exempts the runtime. `unpack_vendored_model` ignores whether the
  old stamp could be removed. Discovery accepts a directory with a static `libgmp.a` beside an
  import `gmp.lib`, and the static check then panics on it. The header and the library may come from
  different installations of GMP. The DLL of GMP is looked for in `../bin` only; if it is not
  there, none is copied, or one of an earlier build stays.

## 4. Proofs

`BochsSlotProofs` proves for any sets of threads and pages, and any number of spurious
wakeups, from `SlotAssumption` alone, the type invariant, `OneOracle`, `SlotCoversCore`,
`NoLostWakeup` and the refinement of `SingleOracle`. The inductive invariant `IInv`
is their conjunction with `ReleaserHoldsNothing`: a thread at `release_instance` owns no
oracle any more. Without it the invariants are not inductive, as a release by a thread
that still held the value would free the slot under a living core.

`WhpMappingProofs` proves for any sets of oracles, handles and pages the four safety
invariants and the refinement of `IndependentOracles`. The invariants hold together, not one
by one. `MInv` adds to them

- `Locking`: which steps hold `WHP_LOCK` or `MAPPING_OWNER`, and so who can run beside whom;
- `HandlesDiffer`: no two live partitions have the same handle value;
- `RamWhileUsed`: an oracle that is being created, idle or in a step has its RAM, and RAM that
  does not exist holds nothing;
- `OwnerTruth`: what `OwnerIsAccurate` says, weakened for the oracle in the middle of its drop;
- `GuestOwns`: the oracle whose guest runs is the recorded owner.

`RunsOnOwnRam` follows from the last two and `MappingBacksLiveRam`. Each proof has a lemma
per action or group of actions, one for the step and one temporal conclusion; the
refinement lemmas show that each step is an abstract step or a stutter.

`SailSwapProofs` proves the four safety invariants and the refinement of `IndependentOracles`
for any threads, addresses, regions and blocks and any finite set of oracles (`OraclesAssumption`; the
count of instances is a number; `AddressesAssumption`: every address has a region). `SInv` adds to `TypeOK`, `BlocksHaveOneOwner` and `FaultIsOwn`

- `Locking`: a thread is inside a `MODEL_LOCK` section exactly if it holds the lock, so at most one
  `MemCtx` exists and the global list is the list of one known instance;
- `Borrows`: two calls on one oracle at a time are shared ones, which is `&mut self`; without it a
  drop could take a list away from a call on the same oracle;
- `Jobs`: whether the oracle of a call exists at each of its steps, and what is left to do;
- `Counted`: `rts_refcount` is the number of instances, from which `LibraryIsUp` follows;
- `Remembered`: an instance's `last_exception` is what its last step threw, which is what lets
  `FaultIsOwn` speak of the second section of a step.

`DecodeCacheProofs` proves the four invariants for any number of pages, of lines per page (an
even one) and of ring entries (`SizesAssumption`). `HostWritesAreSeen` alone is not
inductive. What holds it up is said of each trace: it is `Placed` (in the line its
address and mode hash to, beginning on the page it is keyed by), `Findable` (a walk of every page
its bytes lie on finds it, or the ring does), `Covered` by stamps, and `UpToDate` but for lines a
guest store wrote without stamps. The parts are operators of a cache, not of the state,
because a step passes several caches between the fetch and the end of the instruction.

`HwStepProofs` proves the four invariants and the refinement of `StepContract` for either
driver, any host, any program below the stubs and any retry bound. The code reads vector,
error code and frame back from addresses, so the heart of `HInv` is `Tells`: for each
class of instruction, what the exit after it must look like (`InStub`, `Intercepted`, the words of
`ist`) and that the registers in it are those before the instruction, TF and RF aside.
`FlagFacts`, `StubFacts`, `BelowStubs` and `DeliverFacts` are the arithmetic of flags, stubs
and frames. `InstrsAssumption`: no fault or trap of the program is a #DB, except through
INT 1; `BoundsAssumption`: programs lie below the stubs, stack pointers are numbers.

`BochsStepProofs` proves the five invariants and the refinement for any program, addresses and
guard limit. `Progress` says for each program point which of four situations it is in:
`Untouched` (nothing ran), `Completed`, `Unwinding` (the cascade is under way; the next
exception will restore `prev_rip` and, if RSP is speculative, `prev_rsp`) or `Aborted`. `Caught` keeps the
first exception of the cascade in `g_step`; `OwnEXT` says that EXT, if set, is left over from an
earlier fault, which is why the error code of an oracle's first fault is exact, bit 0 included.
`InstrsAssumption`: an instruction passes an even error code for the vectors whose code
has an EXT bit, as the callers in `vendor/bochs/cpu` do (0, a selector with its low bits
cleared, or `vector * 8 + 2`). `GuardAssumption`: the guard is at least 1.

`BuildScriptProofs` proves both invariants for any machines, requests, trees and number of edits.
For `LibraryIsCurrent`, `LInv` says what an interruption may leave behind: `Stamped` (a stamp that is
whole vouches for the model beside it), `Unpacking` (which of the two is torn at each step),
`Compiling` and `Built` (what has been compiled so far is of this request), and `EditsAreSeen` (a tree
that is stale is dirty to Cargo). `SameKey` is the rest of the argument: requests that agree in
what Cargo watches agree in all that decides what is built.

For `OutcomeIsJustified`, the lemmas from `FirstFacts` to `ResolvedFacts` say what the searches come to: a
directory that will do, or else none that was searched would have done. `ArchiveFacts` says that
the first decisive member tells an import library from a static archive. From these follow that a
failed probe or a refused archive is justified (`HeaderIsMissing`, `ImportIsNamed`) and that a build
past both checks has the system's GMP (`ChecksSuffice`). `OInv` carries this through the build: `Checked`
and `Exporting` say what each section may rely on, `Finished` and `Failed` how builds end, told of
the request they were for, as another may be asked before Cargo notices. `AvailableFacts` says
that `Backend::available` lists the usable backends, all of them and in order. `TryFacts`: whichever calls
a hypervisor refuses, a backend that `try_new` creates has answered what `is_available` asks. `RequestsAssumption`: no version is `"none"` or `"torn"`, a runtime is
the vendored or an external one, and flags are Booleans. `SitesAssumption`: the search
variables are lists of paths, an archive is a list of names, and no directory is the unset variable.

`OracleStateProofs` proves `MappedTracksWrites`, `ShadowStacksHold` and the refinement of
`AccessContract` for any backend, host and sizes. The first is about the writes that a backend sees
(`Visible`): the caller's, `step_bytes`' code among them, and on Sail and Bochs the program's stores too.
On KVM and WHP those are excluded, because the drivers do not see them. There the proof is arithmetic: `write_mem` marks from the page of the first byte to the page of the byte *after* the
last. `HardwareMarks` shows that every page in between is the page of a byte named, or the next
one, and that nothing is marked when the end of the write overflows. The latter needs a slice to be
at most half the address space (`isize::MAX`; `InputsAssumption`), and RAM to end below the last address
(`SizesAssumption`). `AInv` adds that RIP, and the RIP of every snapshot, is an address, as
`step_bytes` writes there. `TablesAreWritable` proves that no
shadow stack range takes a frame of the page tables, the first part of `ShadowStacksHold`. `CetInv`, from
which the second follows, says that while shadow stacks are on, WP is set and the TLB holds no writable page of theirs.
It is kept by a store because a page lies in one frame (`PagesLieInFrames`, from `SizesAssumption`), by
`restore` because no snapshot holds a control register, and by `set_cr` because clearing WP ends
the promise. The theorem covers CR0 writes of any number and stores to any address (`InputsAssumption`).

The third theorem, `AccessorsImplementContract`, is `Spec => ImplementsAccessContract`: for every
machine that the assumptions allow, any calls of it and any sizes. The invariant it needs,
`RefinementInv`, has five parts. `LayoutInv`: mask and layout are what construction made them.
`PlacesInv`: every register a backend has is in its storage, RIP is a number, and snapshots have
the registers that `restore` puts back. `VecInv`: no component outside XCR0 is in use, and a
component with a chunk other than zero is in use, without which an image would drop it.
`HistoryInv` and `ViewInv` say what the history variables are. The steps are these.

- *Registers.* `SlotsAreArchitectural`: every setter writes the storage that an instruction uses, every
  getter reads it, and Sail's setters of FS and GS bases write one field more, which nothing reads.
  `OnePlaceEach`: two registers share storage exactly if they are two names of one base. Hence
  `PutIsAfter`, `RestoredIsAfterAll`, `EnablingSetsBits` and `RetiringStep`: what a call does to the
  storage is what the contract says it does to the registers.
- *Memory.* `WritesAreStores` and `ReadsAreLoads`, whether an access wraps (Sail, Bochs) or is
  dropped when it does not fit (KVM, WHP). `RangesAreFrames`: `map_shadow_stack` compares first and
  last frames without overflow, and refuses exactly the ranges that the trait calls bad.
- *Vectors.* `CompactedIsPlaced`: adding up the components below one, as `locate` does, finds the
  place the processor puts it, component by component for the six there are. `WidestKept`:
  the first mask that WHP takes has every vector component that any has. `OffsetsAreApart`: no two chunks
  share a word of an image, so `SetZmmFits`: writing one register through an image, which carries
  only the components in use, leaves the others alone. `FoldOfSets`: `restore` sets the
  registers one after the other, in any order; it is an induction over the subsets of `VecRegs`.
- *Calls.* One lemma for each action (`SetCellRefines` to `StepBytesRefines`) shows that it is the
  action of the contract of the same name and keeps the invariant. `ViewIsSeen` shows that what the
  accessors report is what the contract says they report. A store of the program needs `ShadowStacksHold`,
  so `TablesStayWritable` and `CetInv` are part of the argument.

The induction of `FoldOfSets` takes a least counterexample in a set (`WFMin`, with the finite
subsets well ordered by inclusion), which needs no operator as a parameter.

Only model-checked:

- the liveness properties (`HopelessWaitPanics`, `WhpLockReturned`, `LockReturned`, `StepReturns`),
  which are beyond the prover.

## 5. Plan

Every component of the inventory with logic of its own has its module, and every such module its
proofs (those about `XsaveLayout` are in `OracleStateProofs`). What is left is an extension of
`HwStep` by the pending KVM access, and a composition of `WhpMapping` with it.

### Not modelled

- `tests/differential.rs` is a client of the library: a corpus of encodings and a
  comparison of what two oracles report.
- Instruction semantics: the vendored Bochs core, apart from the parts of stepping, delivery, paging and
  caching named above, and the generated Sail model are third-party code.
- `csrc/x86oracle_prefix.h`, `src/native.rs` beyond the symbols it needs, and the flags that
  the build script passes: they have no state.
- Bochs' page walk: an identity map whose frames are read-only or not, and a TLB.
