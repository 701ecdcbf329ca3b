----------------------------- MODULE WhpMapping -----------------------------
(***************************************************************************)
(* How WhpOracles share the one guest-RAM mapping the Windows Hypervisor    *)
(* Platform allows per process (src/whp.rs).  WHP_LOCK serializes creation  *)
(* and stepping; MAPPING_OWNER names the partition that holds the mapping   *)
(* and is the only lock Partition::drop takes.                              *)
(*                                                                          *)
(* The hypervisor is external: it gives out partition handles, reusing the  *)
(* values of deleted ones, refuses a mapping while another partition has    *)
(* one, and any of its calls may fail.                                      *)
(***************************************************************************)
EXTENDS FiniteSets

CONSTANTS
  Oracles,   \* WhpOracle objects, each driven by a thread of its own
  Handles,   \* partition handle values
  Pages,     \* guest pages
  None       \* no handle, no mapping, no lock holder

\* A mapped range: the partition it belongs to and whose RAM backs it.
Mappings == [part : Handles, of : Oracles]

ASSUME MappingAssumption == None \notin Oracles \cup Handles \cup Mappings

VARIABLES
  whpLock,    \* the oracle whose thread holds WHP_LOCK
  ownerLock,  \* the oracle whose thread holds the MAPPING_OWNER mutex
  owner,      \* the value under that mutex
  pc,         \* where each oracle's thread is
  handle,     \* handle[o]: the partition of o
  ramLive,    \* the oracles whose GuestRam is allocated
  ram,        \* ram[o]: the pages of o's GuestRam that hold data
  mapping     \* external: the one mapped range, from a partition to a GuestRam

locks == <<whpLock, ownerLock>>
memory == <<ramLive, ram>>
vars == <<locks, owner, pc, handle, memory, mapping>>

Locations == { "absent",    \* no such oracle
               "creating",  \* try_new: before WHvCreatePartition
               "setup",     \* try_new: partition created, not yet set up
               "newClaim",  \* try_new: at claim_mapping
               "entering",  \* try_new: control structures and long mode
               "idle",      \* between calls
               "stepClaim", \* step: at claim_mapping
               "guest",     \* step: the virtual processor runs
               "dropping",  \* Partition::drop: before the MAPPING_OWNER mutex
               "unmapping", \* Partition::drop: mutex held
               "deleting",  \* Partition::drop: mapping given up
               "deleted",   \* Partition::drop: partition deleted, mutex still held
               "freeing" }  \* the partition is gone, the GuestRam is not

Init ==
  /\ whpLock = None /\ ownerLock = None /\ owner = None
  /\ pc = [o \in Oracles |-> "absent"]
  /\ handle = [o \in Oracles |-> None]
  /\ ramLive = {}
  /\ ram = [o \in Oracles |-> {}]
  /\ mapping = None

Goto(o, l) == pc' = [pc EXCEPT ![o] = l]

\* Values the hypervisor may hand out: those no live partition uses.
FreeHandles == Handles \ {handle[o] : o \in Oracles}

-----------------------------------------------------------------------------
(* try_new *)

BeginNew(o) ==
  /\ pc[o] = "absent"
  /\ whpLock = None
  /\ whpLock' = o
  /\ Goto(o, "creating")
  /\ UNCHANGED <<ownerLock, owner, handle, memory, mapping>>

\* WHvCreatePartition; on failure try_new returns and WHP_LOCK is released.
CreatePartition(o) ==
  /\ pc[o] = "creating"
  /\ \/ /\ \E h \in FreeHandles : handle' = [handle EXCEPT ![o] = h]
        /\ Goto(o, "setup")
        /\ UNCHANGED whpLock
     \/ /\ Goto(o, "absent")
        /\ whpLock' = None
        /\ UNCHANGED handle
  /\ UNCHANGED <<ownerLock, owner, memory, mapping>>

\* Mutant: an early return forgets the partition.
SetupLeaks(o) ==
  /\ pc[o] = "setup"
  /\ \/ /\ ramLive' = ramLive \cup {o}
        /\ Goto(o, "newClaim")
        /\ UNCHANGED whpLock
     \/ /\ Goto(o, "absent")
        /\ whpLock' = None
        /\ UNCHANGED ramLive
  /\ UNCHANGED <<ownerLock, owner, handle, ram, mapping>>

\* Setup, GuestRam::new and WHvCreateVirtualProcessor.  When one fails the
\* early return drops the partition; a GuestRam already allocated goes first,
\* which is harmless because nothing was mapped yet.
SetupPartition(o) ==
  /\ pc[o] = "setup"
  /\ \/ /\ ramLive' = ramLive \cup {o}
        /\ Goto(o, "newClaim")
     \/ /\ Goto(o, "dropping")
        /\ UNCHANGED ramLive
  /\ UNCHANGED <<locks, owner, handle, ram, mapping>>

\* build_control_structures and enter_long_mode.  When it fails the oracle is
\* dropped, mapping and all, with WHP_LOCK still held.
EnterLongMode(o) ==
  /\ pc[o] = "entering"
  /\ \/ /\ Goto(o, "idle")
        /\ whpLock' = None
     \/ /\ Goto(o, "dropping")
        /\ UNCHANGED whpLock
  /\ UNCHANGED <<ownerLock, owner, handle, memory, mapping>>

-----------------------------------------------------------------------------
(* claim_mapping, one MAPPING_OWNER section: no other step reads owner or    *)
(* the mapping between its lock and its unlock, so it is one step.           *)

InClaim(o) == pc[o] \in {"newClaim", "stepClaim"} /\ ownerLock = None

\* Where the caller of claim_mapping goes on success.
Claimed(o) ==
  /\ Goto(o, IF pc[o] = "newClaim" THEN "entering" ELSE "guest")
  /\ UNCHANGED whpLock

\* And on failure: try_new drops the oracle, step returns a Fault.
ClaimFailed(o) ==
  /\ Goto(o, IF pc[o] = "newClaim" THEN "dropping" ELSE "idle")
  /\ whpLock' = IF pc[o] = "newClaim" THEN whpLock ELSE None

\* The oracle already owns the mapping.
ClaimKept(o) ==
  /\ InClaim(o)
  /\ owner = handle[o]
  /\ Claimed(o)
  /\ UNCHANGED <<ownerLock, owner, handle, memory, mapping>>

\* WHvUnmapGpaRange of the previous owner fails: it stays the owner.
ClaimUnmapFails(o) ==
  /\ InClaim(o)
  /\ owner \notin {None, handle[o]}
  /\ ClaimFailed(o)
  /\ UNCHANGED <<ownerLock, owner, handle, memory, mapping>>

\* Mutant: the previous owner's range is not unmapped first.
NothingUnmapped == mapping

\* What is left mapped after the previous owner, if any, was unmapped.
AfterUnmap == IF mapping # None /\ owner # None /\ mapping.part = owner
              THEN None ELSE mapping

\* WHvMapGpaRange fails, of itself or because another range is still mapped:
\* nobody owns the mapping any more.
ClaimMapFails(o) ==
  /\ InClaim(o)
  /\ owner # handle[o]
  /\ mapping' = AfterUnmap
  /\ owner' = None
  /\ ClaimFailed(o)
  /\ UNCHANGED <<ownerLock, handle, memory>>

\* The previous owner is unmapped and this oracle's RAM mapped.
ClaimTaken(o) ==
  /\ InClaim(o)
  /\ owner # handle[o]
  /\ AfterUnmap = None
  /\ mapping' = [part |-> handle[o], of |-> o]
  /\ owner' = handle[o]
  /\ Claimed(o)
  /\ UNCHANGED <<ownerLock, handle, memory>>

-----------------------------------------------------------------------------
(* step, and the direct memory API *)

\* Mutant: step runs without WHP_LOCK.
StepUnlocked(o) ==
  /\ pc[o] = "idle"
  /\ whpLock' = o
  /\ Goto(o, "stepClaim")
  /\ UNCHANGED <<ownerLock, owner, handle, memory, mapping>>

BeginStep(o) ==
  /\ pc[o] = "idle"
  /\ whpLock = None
  /\ whpLock' = o
  /\ Goto(o, "stepClaim")
  /\ UNCHANGED <<ownerLock, owner, handle, memory, mapping>>

\* External: a guest store goes wherever the mapped range points.
GuestStore(o, p) ==
  /\ pc[o] = "guest"
  /\ mapping # None
  /\ mapping.part = handle[o]
  /\ ram' = [ram EXCEPT ![mapping.of] = @ \cup {p}]
  /\ UNCHANGED <<locks, owner, pc, handle, ramLive, mapping>>

\* Mutant: an exit may claim and run again, without bound.
EndStepRetries(o) ==
  /\ pc[o] = "guest"
  /\ \/ whpLock' = None /\ Goto(o, "idle")
     \/ Goto(o, "stepClaim") /\ UNCHANGED whpLock
  /\ UNCHANGED <<ownerLock, owner, handle, memory, mapping>>

\* WHvRunVirtualProcessor returned and step maps the exit to its outcome.
EndStep(o) ==
  /\ pc[o] = "guest"
  /\ whpLock' = None
  /\ Goto(o, "idle")
  /\ UNCHANGED <<ownerLock, owner, handle, memory, mapping>>

\* write_mem goes straight to the host buffer, with no lock.
HostWrite(o, p) ==
  /\ pc[o] = "idle"
  /\ ram' = [ram EXCEPT ![o] = @ \cup {p}]
  /\ UNCHANGED <<locks, owner, pc, handle, ramLive, mapping>>

-----------------------------------------------------------------------------
(* Partition::drop, then the GuestRam's *)

\* Mutant: the fields are declared, and so dropped, in the other order.
RamGoesFirst(o) ==
  /\ pc[o] = "idle"
  /\ ramLive' = ramLive \ {o}
  /\ Goto(o, "dropping")
  /\ UNCHANGED <<locks, owner, handle, ram, mapping>>

BeginDrop(o) ==
  /\ pc[o] = "idle"
  /\ Goto(o, "dropping")
  /\ UNCHANGED <<locks, owner, handle, memory, mapping>>

DropLock(o) ==
  /\ pc[o] = "dropping"
  /\ ownerLock = None
  /\ ownerLock' = o
  /\ Goto(o, "unmapping")
  /\ UNCHANGED <<whpLock, owner, handle, memory, mapping>>

\* Mutant: the partition dies with MAPPING_OWNER still naming it.
DropKeepsOwner(o) ==
  /\ pc[o] = "unmapping"
  /\ Goto(o, "deleting")
  /\ UNCHANGED <<locks, owner, handle, memory, mapping>>

\* Give up the mapping while the handle is still alive.  The result of the
\* unmap is ignored.
DropUnmap(o) ==
  /\ pc[o] = "unmapping"
  /\ \/ /\ owner = handle[o]
        /\ owner' = None
        /\ mapping' \in {None, mapping}
     \/ /\ owner # handle[o]
        /\ UNCHANGED <<owner, mapping>>
  /\ Goto(o, "deleting")
  /\ UNCHANGED <<locks, handle, memory>>

\* WHvDeletePartition: the handle value is free again, and whatever the
\* partition still had mapped goes with it.
DropDelete(o) ==
  /\ pc[o] = "deleting"
  /\ handle' = [handle EXCEPT ![o] = None]
  /\ mapping' = IF mapping # None /\ mapping.part = handle[o] THEN None ELSE mapping
  /\ Goto(o, "deleted")
  /\ UNCHANGED <<locks, owner, memory>>

DropUnlock(o) ==
  /\ pc[o] = "deleted"
  /\ ownerLock' = None
  /\ Goto(o, "freeing")
  /\ UNCHANGED <<whpLock, owner, handle, memory, mapping>>

\* Mutant: the buffer goes back to a pool with its contents.
RamNotZeroed(o) ==
  /\ pc[o] = "freeing"
  /\ ramLive' = ramLive \ {o}
  /\ whpLock' = IF whpLock = o THEN None ELSE whpLock
  /\ Goto(o, "absent")
  /\ UNCHANGED <<ownerLock, owner, handle, ram, mapping>>

\* The ram field is dropped after the partition field; a failed try_new then
\* also releases WHP_LOCK.
FreeRam(o) ==
  /\ pc[o] = "freeing"
  /\ ramLive' = ramLive \ {o}
  /\ ram' = [ram EXCEPT ![o] = {}]
  /\ whpLock' = IF whpLock = o THEN None ELSE whpLock
  /\ Goto(o, "absent")
  /\ UNCHANGED <<ownerLock, owner, handle, mapping>>

-----------------------------------------------------------------------------

\* The steps of a call in progress.
Proceed(o) ==
  \/ CreatePartition(o) \/ SetupPartition(o) \/ EnterLongMode(o)
  \/ ClaimKept(o) \/ ClaimUnmapFails(o) \/ ClaimMapFails(o) \/ ClaimTaken(o)
  \/ EndStep(o)
  \/ DropLock(o) \/ DropUnmap(o) \/ DropDelete(o) \/ DropUnlock(o) \/ FreeRam(o)

Next == \E o \in Oracles :
  \/ BeginNew(o) \/ BeginStep(o) \/ BeginDrop(o)
  \/ Proceed(o)
  \/ \E p \in Pages : GuestStore(o, p) \/ HostWrite(o, p)

Spec == Init /\ [][Next]_vars

\* A thread inside a call is scheduled; the guest's run ends (the trap flag
\* ends it after one instruction).  No mutex is assumed to be fair.
Fairness == \A o \in Oracles : WF_vars(Proceed(o))

FairSpec == Spec /\ Fairness

-----------------------------------------------------------------------------
(* Properties *)

\* Where an oracle's partition exists and its RAM does not.
HasPartition(o) == pc[o] \notin {"absent", "creating", "deleted", "freeing"}
HasNoRam(o) == pc[o] \in {"absent", "creating", "setup"}

\* The types, and that partitions and RAM exist exactly as long as control says:
\* no early return leaks one.
TypeOK ==
  /\ whpLock \in Oracles \cup {None}
  /\ ownerLock \in Oracles \cup {None}
  /\ owner \in Handles \cup {None}
  /\ pc \in [Oracles -> Locations]
  /\ handle \in [Oracles -> Handles \cup {None}]
  /\ ramLive \subseteq Oracles
  /\ ram \in [Oracles -> SUBSET Pages]
  /\ mapping \in Mappings \cup {None}
  /\ \A o \in Oracles : /\ handle[o] # None <=> HasPartition(o)
                        /\ HasNoRam(o) => o \notin ramLive

\* While the guest of o executes, the one mapping is o's partition over o's own
\* RAM: no other oracle's creation, step or drop can take it away or redirect
\* it, although drop does not hold WHP_LOCK.
RunsOnOwnRam ==
  \A o \in Oracles :
    pc[o] = "guest" => mapping = [part |-> handle[o], of |-> o]

\* The hypervisor never maps RAM that has been freed, nor through a partition
\* that is gone (the "Drop order matters" comment on WhpOracle).
MappingBacksLiveRam ==
  mapping # None => /\ mapping.of \in ramLive
                    /\ handle[mapping.of] = mapping.part

\* Between critical sections MAPPING_OWNER tells the truth: a recorded owner is
\* a live partition with its range mapped, and no owner means no mapping.  A
\* stale owner whose handle value was given to the next partition would make
\* claim_mapping a no-op for it, or "send the next unmap to the wrong place".
OwnerIsAccurate ==
  ownerLock = None =>
    /\ owner # None => mapping # None /\ mapping.part = owner
    /\ owner = None => mapping = None

\* WHP_LOCK is always given back, whatever fails while it is held; no mutex
\* needs to be fair for that.  Waiting for MAPPING_OWNER under WHP_LOCK, also
\* in the drop of a failed try_new, cannot deadlock.
WhpLockReturned == \A o \in Oracles : whpLock = o ~> whpLock # o

-----------------------------------------------------------------------------
(* "WHP partitions are independent, so instances are too": the oracles that  *)
(* share the mapping implement IndependentOracles.                           *)

\* An oracle exists for its caller once its RAM does and until it is freed.
Independent == INSTANCE IndependentOracles WITH alive <- ramLive, memory <- ram

ImplementsIndependentOracles == Independent!Spec
=============================================================================
