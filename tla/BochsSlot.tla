----------------------------- MODULE BochsSlot -----------------------------
(***************************************************************************)
(* The life of a BochsOracle (src/bochs.rs) over the process-wide Bochs     *)
(* core (csrc/bochs_shim.cpp).  The mutex-protected flag OCCUPIED and the   *)
(* condition variable RELEASED admit one claimant at a time; the shim's     *)
(* g_alive and sparse page map are what the claimant then owns.             *)
(*                                                                          *)
(* A critical section of OCCUPIED or of BOCHS_LOCK is one step: nothing     *)
(* else can observe its middle.  Both locks ignore poisoning, so a panic    *)
(* inside a section leaves no trace but the values it wrote.                *)
(***************************************************************************)
EXTENDS Naturals

CONSTANTS
  Threads,      \* threads of the embedding program
  Pages,        \* guest pages an oracle may write; the pages of the identity
                \* map itself, which every oracle starts with, are left out
  NoThread,     \* refinement value: no oracle exists
  Lost,         \* refinement value: an oracle nobody will drop
  Boots,        \* the results the cpu_mode check of init can have
  MaxSpurious   \* bound: spurious wakeups of the condition variable

ASSUME SlotAssumption ==
  /\ NoThread \notin Threads
  /\ Lost \notin Threads
  /\ NoThread # Lost
  /\ Boots \subseteq BOOLEAN
  /\ MaxSpurious \in Nat

VARIABLES
  occupied,   \* OCCUPIED
  pc,         \* where each thread is in the construction or drop code
  holds,      \* holds[t]: a BochsOracle value is owned by t and will be dropped
  unwinding,  \* threads that are panicking
  gAlive,     \* the shim's g_alive
  pages,      \* pages present in the shim's page map
  stranded,   \* the slot is taken by an instance no Drop will ever run for
  spurious    \* spurious wakeups so far

vars == <<occupied, pc, holds, unwinding, gAlive, pages, stranded, spurious>>
core == <<gAlive, pages>>

Locations == { "running",    \* outside the library, or in a call that only uses the core
               "claiming",   \* about to test the flag in claim_instance's loop
               "parked",     \* inside RELEASED.wait_timeout
               "expired",    \* woken by the time limit, about to test the flag
               "init",       \* slot claimed by new(), core not yet reset
               "tryInit",    \* slot claimed by try_new(), core not yet reset
               "releasing",  \* about to run release_instance
               "panicking",  \* unwinding
               "dead" }      \* the thread ended by a panic

Init ==
  /\ occupied = FALSE
  /\ pc = [t \in Threads |-> "running"]
  /\ holds = [t \in Threads |-> FALSE]
  /\ unwinding = {}
  /\ gAlive = FALSE
  /\ pages = {}
  /\ stranded = FALSE
  /\ spurious = 0

Goto(t, l) == pc' = [pc EXCEPT ![t] = l]

Parked == {t \in Threads : pc[t] = "parked"}

-----------------------------------------------------------------------------
(* Claiming the slot *)

\* new(): enters claim_instance.  The thread may already hold an oracle: that
\* is the shadowing mistake the code's panic message speaks of.
CallNew(t) ==
  /\ pc[t] = "running"
  /\ Goto(t, "claiming")
  /\ UNCHANGED <<occupied, holds, unwinding, core, stranded, spurious>>

\* Mutant: the flag is set without having been tested.
ClaimUntested(t) ==
  /\ pc[t] \in {"claiming", "expired"}
  /\ occupied' = TRUE
  /\ Goto(t, "init")
  /\ UNCHANGED <<holds, unwinding, core, stranded, spurious>>

\* The loop of claim_instance ends: the flag is clear, whether the thread came
\* straight from new(), was notified, or timed out just as the slot was freed.
Claim(t) ==
  /\ pc[t] \in {"claiming", "expired"}
  /\ ~occupied
  /\ occupied' = TRUE
  /\ Goto(t, "init")
  /\ UNCHANGED <<holds, unwinding, core, stranded, spurious>>

\* The flag is set: the thread gives up the mutex and sleeps, for up to the
\* whole WAIT_LIMIT again if it had slept before.
Park(t) ==
  /\ pc[t] = "claiming"
  /\ occupied
  /\ Goto(t, "parked")
  /\ UNCHANGED <<occupied, holds, unwinding, core, stranded, spurious>>

\* The WAIT_LIMIT of this wait elapses.
Expire(t) ==
  /\ pc[t] = "parked"
  /\ Goto(t, "expired")
  /\ UNCHANGED <<occupied, holds, unwinding, core, stranded, spurious>>

\* A wakeup nobody sent, which a condition variable may always deliver.
SpuriousWake(t) ==
  /\ pc[t] = "parked"
  /\ spurious < MaxSpurious
  /\ spurious' = spurious + 1
  /\ Goto(t, "claiming")
  /\ UNCHANGED <<occupied, holds, unwinding, core, stranded>>

\* Mutant: the time limit sends the thread back to sleep.
GiveUpSleeps(t) ==
  /\ pc[t] = "expired"
  /\ occupied
  /\ Goto(t, "claiming")
  /\ UNCHANGED <<occupied, holds, unwinding, core, stranded, spurious>>

\* timed_out() and the flag still set: claim_instance panics.
GiveUp(t) ==
  /\ pc[t] = "expired"
  /\ occupied
  /\ Goto(t, "panicking")
  /\ unwinding' = unwinding \cup {t}
  /\ UNCHANGED <<occupied, holds, core, stranded, spurious>>

\* try_new() on a free slot.  On a taken one it returns None and changes nothing.
CallTryNew(t) ==
  /\ pc[t] = "running"
  /\ ~occupied
  /\ occupied' = TRUE
  /\ Goto(t, "tryInit")
  /\ UNCHANGED <<holds, unwinding, core, stranded, spurious>>

-----------------------------------------------------------------------------
(* Constructing, using and dropping the oracle *)

\* Mutant: the page map survives from one oracle to the next.
NothingCleared == pages

\* GuestPages::clear, run both when an oracle is freed and when one is made.
ClearedPages == {}

\* init(), one BOCHS_LOCK section.  x86oracle_bochs_new returns null while
\* g_alive is set, and the caller then releases the slot and panics (new) or
\* returns None (try_new).  Otherwise the core is reset over an empty page map;
\* if the mode check fails, the assertion unwinds past both the release and
\* the construction of the value, so no Drop will ever run.
InitCore(t, booted) ==
  /\ pc[t] \in {"init", "tryInit"}
  /\ IF gAlive
     THEN /\ Goto(t, "releasing")
          /\ unwinding' = IF pc[t] = "init" THEN unwinding \cup {t} ELSE unwinding
          /\ UNCHANGED <<holds, core, stranded>>
     ELSE /\ gAlive' = TRUE
          /\ pages' = ClearedPages
          /\ holds' = [holds EXCEPT ![t] = booted]
          /\ Goto(t, IF booted THEN "running" ELSE "panicking")
          /\ unwinding' = IF booted THEN unwinding ELSE unwinding \cup {t}
          /\ stranded' = ~booted
  /\ UNCHANGED <<occupied, spurious>>

\* write_mem of the owner, or any guest store: the page appears in the map.
WritePage(t, p) ==
  /\ pc[t] = "running"
  /\ holds[t]
  /\ pages' = pages \cup {p}
  /\ UNCHANGED <<occupied, pc, holds, unwinding, gAlive, stranded, spurious>>

\* x86oracle_bochs_free, under BOCHS_LOCK.
FreeCore(t) ==
  /\ gAlive' = FALSE
  /\ pages' = ClearedPages
  /\ holds' = [holds EXCEPT ![t] = FALSE]
  /\ UNCHANGED <<unwinding, stranded, spurious>>

\* Mutant: drop releases the slot first and frees the core second.
DropReleasesFirst(t) ==
  /\ pc[t] = "running"
  /\ holds[t]
  /\ \/ /\ occupied
        /\ occupied' = FALSE
        /\ UNCHANGED <<holds, unwinding, core, stranded, spurious>>
     \/ /\ ~occupied
        /\ FreeCore(t)
        /\ UNCHANGED occupied
  /\ UNCHANGED pc

\* Drop of a BochsOracle: the core is freed, then the slot released.
DropOracle(t) ==
  /\ pc[t] = "running"
  /\ holds[t]
  /\ FreeCore(t)
  /\ Goto(t, "releasing")
  /\ UNCHANGED occupied

\* Mutant: the flag is cleared but no waiter is told.
ReleaseSilently(t) ==
  /\ pc[t] = "releasing"
  /\ occupied' = FALSE
  /\ Goto(t, IF t \in unwinding THEN "panicking" ELSE "running")
  /\ UNCHANGED <<holds, unwinding, core, stranded, spurious>>

\* Mutant: a thread that drops its oracle while panicking goes on as if it had not.
ReleaseResumes(t) ==
  /\ pc[t] = "releasing"
  /\ occupied' = FALSE
  /\ \/ /\ Parked = {}
        /\ Goto(t, "running")
     \/ \E w \in Parked : pc' = [pc EXCEPT ![t] = "running", ![w] = "claiming"]
  /\ UNCHANGED <<holds, unwinding, core, stranded, spurious>>

\* release_instance: clears the flag and wakes one of the sleepers, if any.
\* The woken thread has no claim on the slot: it must test the flag again, and
\* may find that a newcomer was faster.
Release(t) ==
  LET resumed == IF t \in unwinding THEN "panicking" ELSE "running"
  IN  /\ pc[t] = "releasing"
      /\ occupied' = FALSE
      /\ \/ /\ Parked = {}
            /\ Goto(t, resumed)
         \/ \E w \in Parked : pc' = [pc EXCEPT ![t] = resumed, ![w] = "claiming"]
      /\ UNCHANGED <<holds, unwinding, core, stranded, spurious>>

\* A panicking thread drops the oracle it holds, or has none and ends.
Unwind(t) ==
  /\ pc[t] = "panicking"
  /\ \/ /\ holds[t]
        /\ FreeCore(t)
        /\ Goto(t, "releasing")
     \/ /\ ~holds[t]
        /\ Goto(t, "dead")
        /\ UNCHANGED <<holds, unwinding, core, stranded, spurious>>
  /\ UNCHANGED occupied

\* The program leaks its oracle (mem::forget, a static): no Drop will run.
Forget(t) ==
  /\ pc[t] = "running"
  /\ holds[t]
  /\ holds' = [holds EXCEPT ![t] = FALSE]
  /\ stranded' = TRUE
  /\ UNCHANGED <<occupied, pc, unwinding, core, spurious>>

\* A test runner replaces a thread that panicked.
Respawn(t) ==
  /\ pc[t] = "dead"
  /\ Goto(t, "running")
  /\ unwinding' = unwinding \ {t}
  /\ UNCHANGED <<occupied, holds, core, stranded, spurious>>

-----------------------------------------------------------------------------

\* What a thread does by itself once it is inside the library.
Advance(t) ==
  \/ Claim(t)
  \/ Park(t)
  \/ GiveUp(t)
  \/ \E booted \in Boots : InitCore(t, booted)
  \/ Release(t)
  \/ Unwind(t)

Next == \E t \in Threads :
  \/ CallNew(t)
  \/ CallTryNew(t)
  \/ Advance(t)
  \/ Expire(t)
  \/ SpuriousWake(t)
  \/ \E p \in Pages : WritePage(t, p)
  \/ DropOracle(t)
  \/ Forget(t)
  \/ Respawn(t)

Spec == Init /\ [][Next]_vars

\* The scheduler runs every thread that is inside the library, and a wait that
\* is never notified ends at its time limit.  Nothing is assumed of the program:
\* it need not call, write, drop or respawn.
Fairness == \A t \in Threads : WF_vars(Advance(t)) /\ WF_vars(Expire(t))

FairSpec == Spec /\ Fairness

-----------------------------------------------------------------------------
(* Properties *)

\* The types, and that a thread is unwinding exactly from its panic to its end:
\* the drop on the way neither stops nor forgets the panic.
TypeOK ==
  /\ occupied \in BOOLEAN
  /\ pc \in [Threads -> Locations]
  /\ holds \in [Threads -> BOOLEAN]
  /\ unwinding \subseteq Threads
  /\ gAlive \in BOOLEAN
  /\ pages \subseteq Pages
  /\ stranded \in BOOLEAN
  /\ spurious \in 0..MaxSpurious
  /\ \A t \in Threads : /\ pc[t] \in {"panicking", "dead"} => t \in unwinding
                        /\ t \in unwinding => pc[t] \in {"panicking", "releasing", "dead"}

\* The steps of a thread between taking the slot and giving it back.
OwnsSlot(t) == holds[t] \/ pc[t] \in {"init", "tryInit", "releasing"}

\* At most one oracle exists, so the unlocked process globals of the shim have
\* one owner: two holders, or a holder beside a stranded instance, would share
\* registers and memory (the SAFETY note on BochsOracle's Send and Sync).
OneOracle ==
  /\ \A t, u \in Threads : OwnsSlot(t) /\ OwnsSlot(u) => t = u
  /\ stranded => \A t \in Threads : ~OwnsSlot(t)

\* The Rust flag and the shim's flag agree: g_alive is set exactly while an
\* oracle exists, and the slot is taken at least as long, so a claimant never
\* finds the core alive and "Bochs CPU initialization failed" cannot happen.
SlotCoversCore ==
  /\ occupied <=> stranded \/ \E t \in Threads : OwnsSlot(t)
  /\ gAlive <=> stranded \/ \E t \in Threads : holds[t]
  /\ \A t \in Threads : pc[t] \in {"init", "tryInit"} => ~gAlive

\* No wakeup is lost: while the slot is free and threads sleep in
\* claim_instance, some thread is awake and about to test the flag.  This is
\* what makes notify_one (rather than notify_all) enough.
NoLostWakeup ==
  ~occupied /\ Parked # {} => \E t \in Threads : pc[t] \in {"claiming", "expired"}

\* A thread inside claim_instance's loop.
Waiting(t) == pc[t] \in {"claiming", "parked", "expired"}

\* A wait that cannot succeed ends in the panic, not in a silent deadlock: the
\* waiter holds the oracle itself (shadowing), or nobody will ever drop it.
HopelessWaitPanics ==
  \A t \in Threads : Waiting(t) /\ (stranded \/ holds[t]) ~> pc[t] = "panicking"

-----------------------------------------------------------------------------
(* The slot, the flags and the core together implement SingleOracle. *)

Holder == CASE stranded -> Lost
            [] ~stranded /\ \E t \in Threads : holds[t] ->
                 CHOOSE t \in Threads : holds[t]
            [] OTHER -> NoThread

Oracle == INSTANCE SingleOracle WITH holder <- Holder, memory <- pages

\* Callers see oracles one at a time, each starting from empty memory.
ImplementsSingleOracle == Oracle!Spec
=============================================================================
