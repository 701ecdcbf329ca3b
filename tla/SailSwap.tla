------------------------------ MODULE SailSwap ------------------------------
(***************************************************************************)
(* Oracles of the Sail backend (src/sail.rs, csrc/shim.cpp,                 *)
(* sail/harness.sail, vendor/sail/runtime/rts.c).  Registers are members of *)
(* each instance, but the runtime keeps guest memory in a process-wide list *)
(* of blocks.  A MemCtx swaps the instance's list into the global around    *)
(* every call, and MODEL_LOCK keeps the calls apart.                        *)
(*                                                                          *)
(* The tag list is swapped, grown and freed with the memory list, so one    *)
(* set of blocks stands for both.                                           *)
(***************************************************************************)
EXTENDS FiniteSets, Naturals

CONSTANTS
  Threads,      \* threads that own and borrow oracles
  Oracles,      \* instances
  Regions,      \* address regions that share a block (16 MiB in the code)
  Addresses,    \* addresses that callers read and write
  RegionOf,     \* RegionOf[a]: the region of address a
  Blocks,       \* heap cells the allocator may return
  Messages,     \* texts of the faults the model throws
  Syscall,      \* what the SYSCALL stub throws
  None          \* no thread, no region, no oracle; the empty message

Texts == Messages \cup {Syscall, None}

ASSUME OraclesAssumption == IsFiniteSet(Oracles)

ASSUME AddressesAssumption == RegionOf \in [Addresses -> Regions]

ASSUME NoneAssumption ==
  /\ None \notin Threads \cup Oracles \cup Regions \cup Messages \cup {Syscall}
  /\ Syscall \notin Messages

VARIABLES
  lock,             \* the thread that holds MODEL_LOCK
  sail_memory,      \* the global list
  memory,           \* memory[o]: the list of instance o, OracleInstance::memory
  region,           \* region[b]: the region block b backs, None if it is free
  alive,            \* the instances that exist
  rts_refcount,     \* instances that keep the runtime library initialised
  last_exception,   \* of each instance
  pc,               \* where each thread is
  job,              \* the call each thread makes: what, on which oracle, what is left
  thrown,           \* history: what each instance's last step threw
  answer            \* history: the message each thread was last given

heapvars == <<sail_memory, memory, region, alive, rts_refcount>>
history == <<thrown, answer>>
vars == <<lock, heapvars, last_exception, pc, job, history>>

\* A step that faults goes on as "threw" and then, for its message, as "stepmsg".
Exclusive == {"new", "write", "step", "threw", "stepmsg", "drop"}
Shared == {"read", "fault_msg"}
Job(kind, o, left) == [kind |-> kind, o |-> o, left |-> left]
NoJob == Job("read", None, {})

Init ==
  /\ lock = None
  /\ sail_memory = {}
  /\ memory = [o \in Oracles |-> {}]
  /\ region = [b \in Blocks |-> None]
  /\ alive = {}
  /\ rts_refcount = 0
  /\ last_exception = [o \in Oracles |-> None]
  /\ pc = [t \in Threads |-> "idle"]
  /\ job = [t \in Threads |-> NoJob]
  /\ thrown = [o \in Oracles |-> None]
  /\ answer = [t \in Threads |-> None]

-----------------------------------------------------------------------------
(* Calls.  Rust's borrows, and nothing else, keep two calls on one oracle    *)
(* apart: an exclusive call excludes all others, shared ones may overlap.    *)

Busy(o) == {t \in Threads : pc[t] # "idle" /\ job[t].o = o}

Borrowable(kind, o) ==
  \A t \in Busy(o) : kind \in Shared /\ job[t].kind \in Shared

Call(t, kind, o, left) ==
  /\ pc[t] = "idle"
  /\ IF kind = "new" THEN o \notin alive ELSE o \in alive
  /\ Borrowable(kind, o)
  /\ pc' = [pc EXCEPT ![t] = "call"]
  /\ job' = [job EXCEPT ![t] = Job(kind, o, left)]
  /\ UNCHANGED <<lock, heapvars, last_exception, history>>

\* Mutant: the call is made without MODEL_LOCK.
LockNothing(t) ==
  /\ pc[t] = "call"
  /\ pc' = [pc EXCEPT ![t] = "locked"]
  /\ UNCHANGED <<lock, heapvars, last_exception, job, history>>

Lock(t) ==
  /\ pc[t] = "call" /\ lock = None
  /\ lock' = t
  /\ pc' = [pc EXCEPT ![t] = "locked"]
  /\ UNCHANGED <<heapvars, last_exception, job, history>>

\* MemCtx: the instance's list becomes the global one.
EnterCtx(t) ==
  /\ pc[t] = "locked"
  /\ sail_memory' = memory[job[t].o]
  /\ pc' = [pc EXCEPT ![t] = "model"]
  /\ UNCHANGED <<lock, memory, region, alive, rts_refcount, last_exception, job,
                 history>>

\* Mutant: the list is swapped in and its new head is not saved.
LeaveUnsaved(t) ==
  /\ pc[t] = "leave"
  /\ pc' = [pc EXCEPT ![t] = IF job[t].left = {} THEN "unlock" ELSE "locked"]
  /\ UNCHANGED <<lock, heapvars, last_exception, job, history>>

\* ~MemCtx saves the head.  The global keeps it too, until the next call.  A
\* batched write goes round once for each byte without giving up the lock.
LeaveCtx(t) ==
  /\ pc[t] = "leave"
  /\ memory' = [memory EXCEPT ![job[t].o] = sail_memory]
  /\ pc' = [pc EXCEPT ![t] = IF job[t].left = {} THEN "unlock" ELSE "locked"]
  /\ UNCHANGED <<lock, sail_memory, region, alive, rts_refcount, last_exception, job,
                 history>>

\* After a step that faulted, step calls fault_msg, which locks anew.
Unlock(t) ==
  /\ pc[t] = "unlock"
  /\ lock' = None
  /\ IF job[t].kind = "threw"
     THEN /\ pc' = [pc EXCEPT ![t] = "call"]
          /\ job' = [job EXCEPT ![t].kind = "stepmsg"]
     ELSE /\ pc' = [pc EXCEPT ![t] = "idle"]
          /\ job' = [job EXCEPT ![t] = NoJob]
  /\ UNCHANGED <<heapvars, last_exception, history>>

-----------------------------------------------------------------------------
(* What happens inside a MemCtx *)

\* t is in the model, on a call of one of the kinds, and leaves it with this step.
InModel(t, kind) ==
  /\ pc[t] = "model" /\ job[t].kind = kind
  /\ pc' = [pc EXCEPT ![t] = "leave"]

\* x86oracle_new: setup_rts counts the instance; the reset writes no memory.
New(t) ==
  /\ InModel(t, "new")
  /\ alive' = alive \cup {job[t].o}
  /\ rts_refcount' = rts_refcount + 1
  /\ last_exception' = [last_exception EXCEPT ![job[t].o] = None]
  /\ thrown' = [thrown EXCEPT ![job[t].o] = None]
  /\ UNCHANGED <<lock, sail_memory, memory, region, job, answer>>

\* write_mem in rts.c: the region's block, or a new one.
StoreTo(r) ==
  IF \E b \in sail_memory : region[b] = r
  THEN UNCHANGED <<sail_memory, region>>
  ELSE \E b \in Blocks :
         /\ region[b] = None
         /\ region' = [region EXCEPT ![b] = r]
         /\ sail_memory' = sail_memory \cup {b}

\* Mutant: the loop over the slice does not advance.
NotAdvanced(t, a) == UNCHANGED job

Advanced(t, a) == job' = [job EXCEPT ![t].left = @ \ {a}]

WriteByte(t) ==
  /\ InModel(t, "write")
  /\ \E a \in job[t].left : StoreTo(RegionOf[a]) /\ Advanced(t, a)
  /\ UNCHANGED <<lock, memory, alive, rts_refcount, last_exception, history>>

ReadByte(t) ==
  /\ InModel(t, "read")
  /\ \E a \in job[t].left : Advanced(t, a)
  /\ UNCHANGED <<lock, heapvars, last_exception, history>>

\* A store of the instruction a step executes.
StepStore(t) ==
  /\ pc[t] = "model" /\ job[t].kind = "step"
  /\ \E r \in Regions : StoreTo(r)
  /\ UNCHANGED <<lock, memory, alive, rts_refcount, last_exception, pc, job, history>>

\* Mutant: the register is not cleared first, so an old message survives.
NotCleared(o, m) == IF m = None THEN last_exception[o] ELSE m

\* step_x86 clears last_exception and sets it only if the model throws.
Cleared(o, m) == m

\* The instruction retires, or throws m.  Only a fault sends step for its text.
StepEnds(t) ==
  /\ InModel(t, "step")
  /\ \E m \in Texts :
       /\ last_exception' = [last_exception EXCEPT ![job[t].o] = Cleared(job[t].o, m)]
       /\ thrown' = [thrown EXCEPT ![job[t].o] = m]
       /\ job' = IF m \in Messages THEN [job EXCEPT ![t].kind = "threw"] ELSE job
  /\ UNCHANGED <<lock, heapvars, answer>>

\* x86oracle_get_fault_msg, for the caller or for the step that threw.
GetFaultMsg(t) ==
  /\ InModel(t, "fault_msg") \/ InModel(t, "stepmsg")
  /\ answer' = [answer EXCEPT ![t] = last_exception[job[t].o]]
  /\ UNCHANGED <<lock, heapvars, last_exception, job, thrown>>

\* Mutants: the library goes down with any instance, or is never counted down.
CleanedUpEarly == 0
NeverCountedDown == rts_refcount

CountedDown == rts_refcount - 1

\* x86oracle_free: kill_mem, then cleanup_rts through model_fini; the instance
\* itself goes after the MemCtx.
Free(t) ==
  /\ InModel(t, "drop")
  /\ region' = [b \in Blocks |-> IF b \in sail_memory THEN None ELSE region[b]]
  /\ sail_memory' = {}
  /\ alive' = alive \ {job[t].o}
  /\ rts_refcount' = CountedDown
  /\ UNCHANGED <<lock, memory, last_exception, job, history>>

-----------------------------------------------------------------------------

Section(t) ==
  \/ EnterCtx(t) \/ LeaveCtx(t) \/ Unlock(t)
  \/ New(t) \/ WriteByte(t) \/ ReadByte(t) \/ StepEnds(t) \/ GetFaultMsg(t) \/ Free(t)

Slices == SUBSET Addresses \ {{}}

Calls(t, o) ==
  \/ \E kind \in {"new", "step", "fault_msg", "drop"} : Call(t, kind, o, {})
  \/ \E kind \in {"read", "write"}, s \in Slices : Call(t, kind, o, s)

Next == \E t \in Threads :
  \/ \E o \in Oracles : Calls(t, o)
  \/ Lock(t)
  \/ StepStore(t)
  \/ Section(t)

Spec == Init /\ [][Next]_vars

\* A thread inside MODEL_LOCK runs on; std's Mutex does not promise more.
FairSpec == Spec /\ \A t \in Threads : WF_vars(Section(t))

-----------------------------------------------------------------------------
(* Properties *)

\* The types; rts_refcount never passes the number of instances.
TypeOK ==
  /\ lock \in Threads \cup {None}
  /\ sail_memory \subseteq Blocks
  /\ memory \in [Oracles -> SUBSET Blocks]
  /\ region \in [Blocks -> Regions \cup {None}]
  /\ alive \subseteq Oracles
  /\ rts_refcount \in 0..Cardinality(Oracles)
  /\ last_exception \in [Oracles -> Texts]
  /\ pc \in [Threads -> {"idle", "call", "locked", "model", "leave", "unlock"}]
  /\ job \in [Threads -> [kind : Exclusive \cup Shared, o : Oracles \cup {None},
                          left : SUBSET Addresses]]
  /\ thrown \in [Oracles -> Texts]
  /\ answer \in [Threads -> Texts]

\* The list of an instance, wherever it is kept at the moment.
Swapped(o) == \E t \in Threads : pc[t] \in {"model", "leave"} /\ job[t].o = o
List(o) == IF Swapped(o) THEN sail_memory ELSE memory[o]

\* "Memory is per instance" (src/lib.rs) needs more than reads of the right list:
\* across all swaps no block is on the lists of two instances, none is lost or
\* freed while listed, and no instance has two blocks for one region, of which
\* only the first would be found.
BlocksHaveOneOwner ==
  /\ \A o, p \in Oracles : o # p => List(o) \cap List(p) = {}
  /\ {b \in Blocks : region[b] # None} = UNION {List(o) : o \in Oracles}
  /\ \A o \in Oracles : \A b, c \in List(o) : region[b] = region[c] => b = c
  /\ \A o \in Oracles \ alive : List(o) = {}

\* The library's scratch state is set up whenever a call is inside the model,
\* whatever other instances come and go: cleanup_rts runs with the last of them.
LibraryIsUp ==
  \A t \in Threads : pc[t] = "model" /\ job[t].kind # "new" => rts_refcount > 0

\* step reads the message in a second section, after other threads may have run
\* the model: it is still that of its own exception.  And fault_msg is empty
\* exactly if the instance's last step retired (src/lib.rs, fault_msg).
FaultIsOwn ==
  \A t \in Threads :
    pc[t] \in {"leave", "unlock"} /\ job[t].kind \in {"stepmsg", "fault_msg"}
      => answer[t] = thrown[job[t].o]

\* MODEL_LOCK always comes back: no call keeps it, and step does not ask for it
\* while it holds it.
LockReturned == \A t \in Threads : lock = t ~> lock # t

Promised == INSTANCE IndependentOracles WITH
  Pages <- Regions,
  memory <- [o \in Oracles |-> {region[b] : b \in List(o)}]

ImplementsIndependentOracles == Promised!Spec
=============================================================================
