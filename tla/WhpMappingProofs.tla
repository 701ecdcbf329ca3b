-------------------------- MODULE WhpMappingProofs --------------------------
(***************************************************************************)
(* Proofs about WhpMapping, for any number of oracles, any set of handle    *)
(* values, reused or not, and any failures of the hypervisor's calls.       *)
(***************************************************************************)
EXTENDS WhpMapping, TLAPS

-----------------------------------------------------------------------------
(* The inductive invariant *)

\* What runs under WHP_LOCK.  A drop may or may not: that of a failed try_new
\* does, that of an oracle the caller drops does not.
UnderWhpLock == {"creating", "setup", "newClaim", "entering", "stepClaim", "guest"}

\* What runs under the MAPPING_OWNER mutex for more than one step.
UnderOwnerLock == {"unmapping", "deleting", "deleted"}

\* Control agrees with the two mutexes.
Locking ==
  \A o \in Oracles : /\ pc[o] \in UnderWhpLock => whpLock = o
                     /\ ownerLock = o <=> pc[o] \in UnderOwnerLock

\* Two live partitions never share a handle value.
HandlesDiffer ==
  \A o, q \in Oracles : handle[o] # None /\ handle[o] = handle[q] => o = q

\* An oracle that can be claimed for or used has its RAM; RAM that is not
\* allocated holds nothing.
UsesRam == {"newClaim", "entering", "idle", "stepClaim", "guest"}
RamWhileUsed ==
  \A o \in Oracles :
    /\ pc[o] \in UsesRam => o \in ramLive
    /\ o \notin ramLive => ram[o] = {}

\* OwnerIsAccurate also inside the critical section of drop: a mapping without
\* an owner is one whose unmap failed in a drop about to delete the partition,
\* and from its unmap on a partition is not the owner.
OwnerTruth ==
  /\ owner # None => mapping # None /\ mapping.part = owner
  /\ owner = None /\ mapping # None =>
       \E o \in Oracles : pc[o] = "deleting" /\ mapping.part = handle[o]
  /\ \A o \in Oracles : pc[o] = "deleting" => owner # handle[o]

\* The guest that runs is the owner's.
GuestOwns == \A o \in Oracles : pc[o] = "guest" => owner = handle[o]

MInv ==
  /\ TypeOK
  /\ Locking
  /\ HandlesDiffer
  /\ RamWhileUsed
  /\ MappingBacksLiveRam
  /\ OwnerTruth
  /\ GuestOwns

LEMMA InitEstablishes == Init => MInv
<1> SUFFICES ASSUME Init PROVE MInv
  OBVIOUS
<1> USE MappingAssumption DEF Init
<1>1. TypeOK
  <2>1. /\ pc \in [Oracles -> Locations] /\ handle \in [Oracles -> Handles \cup {None}]
        /\ ram \in [Oracles -> SUBSET Pages]
    BY DEF Locations
  <2>2. \A o \in Oracles : handle[o] = None /\ ~HasPartition(o) /\ o \notin ramLive
    BY DEF HasPartition
  <2> QED BY <2>1, <2>2 DEF TypeOK
<1>2. Locking /\ HandlesDiffer /\ RamWhileUsed
  BY DEF Locking, UnderWhpLock, UnderOwnerLock, HandlesDiffer, RamWhileUsed, UsesRam
<1>3. MappingBacksLiveRam /\ OwnerTruth /\ GuestOwns
  BY DEF MappingBacksLiveRam, OwnerTruth, GuestOwns
<1> QED BY <1>1, <1>2, <1>3 DEF MInv

-----------------------------------------------------------------------------
(* Steps that leave the partitions, the RAM and the mapping alone *)

\* Such a step preserves the invariant if it neither enters nor leaves the part
\* of drop between unmap and delete, and enters the guest as the owner only.
LEMMA QuietPreserves ==
  ASSUME NEW o \in Oracles, NEW l, MInv, Goto(o, l),
         UNCHANGED <<owner, handle, memory, mapping>>,
         TypeOK', Locking',
         pc[o] # "deleting", l # "deleting",
         l = "guest" => owner = handle[o],
         l \in UsesRam => o \in ramLive
  PROVE  MInv'
<1> USE DEF MInv, Goto, memory, TypeOK
<1>1. HandlesDiffer' /\ MappingBacksLiveRam'
  BY DEF HandlesDiffer, MappingBacksLiveRam
<1>2. RamWhileUsed'
  BY DEF RamWhileUsed
<1>3. OwnerTruth'
  BY DEF OwnerTruth
<1>4. GuestOwns'
  BY DEF GuestOwns
<1> QED BY <1>1, <1>2, <1>3, <1>4

\* try_new up to the claim, as far as it allocates nothing, and the calls that
\* begin: BeginNew, BeginStep, BeginDrop and the failures.
LEMMA CallsPreserve ==
  ASSUME NEW o \in Oracles, MInv,
         BeginNew(o) \/ BeginStep(o) \/ BeginDrop(o) \/ EnterLongMode(o) \/ EndStep(o)
  PROVE  MInv'
<1> USE MappingAssumption DEF locks, Goto
<1> DEFINE Moves(l) == /\ Goto(o, l) /\ UNCHANGED <<owner, handle, memory, mapping>>
                       /\ pc[o] # "deleting"
                       /\ l \in UsesRam => o \in ramLive
<1>1. TypeOK'
  BY DEF MInv, TypeOK, Locations, HasPartition, HasNoRam, memory,
         BeginNew, BeginStep, BeginDrop, EnterLongMode, EndStep
<1>2. Locking'
  BY DEF MInv, TypeOK, Locking, UnderWhpLock, UnderOwnerLock,
         BeginNew, BeginStep, BeginDrop, EnterLongMode, EndStep
<1>3. \E l \in {"creating", "stepClaim", "dropping", "idle"} : Moves(l)
  <2>1. BeginNew(o) => Moves("creating")
    BY DEF BeginNew, UsesRam
  <2>2. BeginStep(o) => Moves("stepClaim")
    BY DEF MInv, RamWhileUsed, BeginStep, UsesRam
  <2>3. BeginDrop(o) => Moves("dropping")
    BY DEF BeginDrop, UsesRam
  <2>4. EnterLongMode(o) => Moves("idle") \/ Moves("dropping")
    BY DEF MInv, RamWhileUsed, EnterLongMode, UsesRam
  <2>5. EndStep(o) => Moves("idle")
    BY DEF MInv, RamWhileUsed, EndStep, UsesRam
  <2> QED BY <2>1, <2>2, <2>3, <2>4, <2>5
<1> QED BY <1>1, <1>2, <1>3, QuietPreserves

-----------------------------------------------------------------------------
(* Creation *)

LEMMA CreatePartitionPreserves ==
  ASSUME NEW o \in Oracles, MInv, CreatePartition(o)
  PROVE  MInv'
<1> USE MappingAssumption DEF MInv, TypeOK, CreatePartition, Goto, locks, memory
<1>1. pc[o] = "creating" /\ handle[o] = None
  BY DEF HasPartition
<1>2. CASE handle' = handle /\ Goto(o, "absent") /\ whpLock' = None
  <2>1. TypeOK'
    BY <1>2 DEF Locations, HasPartition, HasNoRam
  <2>2. Locking'
    BY <1>2 DEF Locking, UnderWhpLock, UnderOwnerLock
  <2> QED BY <1>1, <1>2, <2>1, <2>2, QuietPreserves DEF UsesRam
<1>3. ASSUME NEW h \in FreeHandles, handle' = [handle EXCEPT ![o] = h],
             Goto(o, "setup"), whpLock' = whpLock
      PROVE  MInv'
  <2>1. h \in Handles /\ \A q \in Oracles : handle[q] # h
    BY <1>3 DEF FreeHandles
  <2>2. \A q \in Oracles : q # o => handle'[q] = handle[q] /\ pc'[q] = pc[q]
    BY <1>3
  <2>3. handle'[o] = h /\ pc'[o] = "setup"
    BY <1>3
  <2>4. TypeOK'
    <3>1. handle' \in [Oracles -> Handles \cup {None}] /\ pc' \in [Oracles -> Locations]
      BY <1>3, <2>1 DEF Locations
    <3>2. \A q \in Oracles : /\ handle'[q] # None <=> HasPartition(q)'
                             /\ HasNoRam(q)' => q \notin ramLive
      BY <1>1, <2>1, <2>2, <2>3 DEF HasPartition, HasNoRam
    <3> QED BY <1>3, <3>1, <3>2 DEF HasPartition, HasNoRam
  <2>5. Locking'
    BY <1>1, <1>3 DEF Locking, UnderWhpLock, UnderOwnerLock
  <2>6. HandlesDiffer'
    BY <2>1, <2>2, <2>3 DEF HandlesDiffer
  <2>7. RamWhileUsed'
    BY <2>2, <2>3 DEF RamWhileUsed, UsesRam
  <2>8. MappingBacksLiveRam'
    BY <1>1, <2>2 DEF MappingBacksLiveRam, Mappings
  <2>9. OwnerTruth'
    BY <1>1, <2>2, <2>3 DEF OwnerTruth
  <2>10. GuestOwns'
    BY <2>2, <2>3 DEF GuestOwns
  <2> QED BY <2>4, <2>5, <2>6, <2>7, <2>8, <2>9, <2>10
<1> QED BY <1>2, <1>3

LEMMA SetupPreserves ==
  ASSUME NEW o \in Oracles, MInv, SetupPartition(o)
  PROVE  MInv'
<1> USE MappingAssumption DEF MInv, SetupPartition, Goto, locks
<1>1. TypeOK'
  BY DEF TypeOK, Locations, HasPartition, HasNoRam
<1>2. Locking'
  BY DEF TypeOK, Locking, UnderWhpLock, UnderOwnerLock
<1>3. HandlesDiffer' /\ MappingBacksLiveRam'
  BY DEF HandlesDiffer, MappingBacksLiveRam
<1>4. RamWhileUsed'
  BY DEF TypeOK, RamWhileUsed, UsesRam
<1>5. OwnerTruth' /\ GuestOwns'
  BY DEF TypeOK, OwnerTruth, GuestOwns
<1> QED BY <1>1, <1>2, <1>3, <1>4, <1>5

-----------------------------------------------------------------------------
(* claim_mapping *)

\* Outside the critical section of drop, the previous owner's unmap leaves
\* nothing mapped; so a claim that fails half-way leaves no mapping and no owner.
LEMMA UnmapLeavesNothing == MInv /\ ownerLock = None => AfterUnmap = None
BY MappingAssumption DEF MInv, TypeOK, Locking, UnderOwnerLock, OwnerTruth, AfterUnmap

\* The claimant holds WHP_LOCK, so nobody else is in the guest.
LEMMA ClaimantAlone ==
  ASSUME MInv, NEW o \in Oracles, InClaim(o)
  PROVE  /\ \A q \in Oracles : pc[q] \notin UnderOwnerLock
         /\ \A q \in Oracles : pc[q] # "guest"
         /\ o \in ramLive /\ handle[o] \in Handles
<1> USE MappingAssumption DEF MInv, TypeOK, InClaim
<1>1. \A q \in Oracles : pc[q] \notin UnderOwnerLock
  BY DEF Locking
<1>2. \A q \in Oracles : pc[q] # "guest"
  BY DEF Locking, UnderWhpLock
<1>3. o \in ramLive /\ handle[o] \in Handles
  BY DEF RamWhileUsed, UsesRam, HasPartition
<1> QED BY <1>1, <1>2, <1>3

LEMMA ClaimPreserves ==
  ASSUME NEW o \in Oracles, MInv,
         ClaimKept(o) \/ ClaimUnmapFails(o) \/ ClaimMapFails(o) \/ ClaimTaken(o)
  PROVE  MInv'
<1> USE MappingAssumption
<1>1. InClaim(o)
  BY DEF ClaimKept, ClaimUnmapFails, ClaimMapFails, ClaimTaken
<1>2. /\ \A q \in Oracles : pc[q] \notin UnderOwnerLock
      /\ \A q \in Oracles : pc[q] # "guest"
      /\ o \in ramLive /\ handle[o] \in Handles
  BY <1>1, ClaimantAlone
<1>3. /\ pc[o] \in {"newClaim", "stepClaim"} /\ whpLock = o
  BY <1>1 DEF InClaim, MInv, Locking, UnderWhpLock
<1>4. UNCHANGED <<ownerLock, handle, ramLive, ram>>
  BY DEF ClaimKept, ClaimUnmapFails, ClaimMapFails, ClaimTaken, memory
<1>5. \/ pc' = [pc EXCEPT ![o] = "entering"] /\ whpLock' = whpLock
      \/ pc' = [pc EXCEPT ![o] = "guest"] /\ whpLock' = whpLock
      \/ pc' = [pc EXCEPT ![o] = "dropping"] /\ whpLock' = whpLock
      \/ pc' = [pc EXCEPT ![o] = "idle"] /\ whpLock' = None
  BY <1>3 DEF ClaimKept, ClaimUnmapFails, ClaimMapFails, ClaimTaken, Claimed, ClaimFailed, Goto
<1>6. \/ UNCHANGED <<owner, mapping>>
      \/ owner' = None /\ mapping' = None
      \/ owner' = handle[o] /\ mapping' = [part |-> handle[o], of |-> o]
  BY <1>1, UnmapLeavesNothing
     DEF InClaim, ClaimKept, ClaimUnmapFails, ClaimMapFails, ClaimTaken
<1>7. pc'[o] = "guest" => owner' = handle[o]
  BY <1>3 DEF MInv, TypeOK, ClaimKept, ClaimUnmapFails, ClaimMapFails, ClaimTaken,
              Claimed, ClaimFailed, Goto
<1>8. \A q \in Oracles : q # o => pc'[q] = pc[q]
  BY <1>5 DEF MInv, TypeOK
<1>9. pc'[o] \in {"entering", "guest", "dropping", "idle"}
  BY <1>5 DEF MInv, TypeOK
<1>10. TypeOK'
  <2>1. pc' \in [Oracles -> Locations]
    BY <1>5 DEF MInv, TypeOK, Locations
  <2>2. owner' \in Handles \cup {None} /\ mapping' \in Mappings \cup {None}
    BY <1>2, <1>6 DEF MInv, TypeOK, Mappings
  <2>3. \A q \in Oracles : /\ handle'[q] # None <=> HasPartition(q)'
                           /\ HasNoRam(q)' => q \notin ramLive'
    BY <1>2, <1>4, <1>8, <1>9 DEF MInv, TypeOK, HasPartition, HasNoRam
  <2>4. whpLock' \in Oracles \cup {None}
    BY <1>5 DEF MInv, TypeOK
  <2> QED BY <1>4, <2>1, <2>2, <2>3, <2>4 DEF MInv, TypeOK
<1>11. Locking'
  <2>1. \A q \in Oracles : pc'[q] \in UnderWhpLock => whpLock' = q
    BY <1>3, <1>5 DEF MInv, TypeOK, Locking, UnderWhpLock
  <2>2. \A q \in Oracles : ownerLock' = q <=> pc'[q] \in UnderOwnerLock
    BY <1>3, <1>4, <1>8, <1>9 DEF MInv, Locking, UnderOwnerLock
  <2> QED BY <2>1, <2>2 DEF Locking
<1>12. HandlesDiffer' /\ RamWhileUsed'
  BY <1>2, <1>4, <1>8 DEF MInv, HandlesDiffer, RamWhileUsed
<1>13. MappingBacksLiveRam'
  BY <1>2, <1>4, <1>6 DEF MInv, MappingBacksLiveRam
<1>14. OwnerTruth'
  <2>1. \A q \in Oracles : pc[q] # "deleting" /\ pc'[q] # "deleting"
    BY <1>2, <1>8, <1>9 DEF UnderOwnerLock
  <2>2. CASE UNCHANGED <<owner, mapping>>
    BY <1>4, <2>1, <2>2 DEF MInv, OwnerTruth
  <2>3. CASE owner' = None /\ mapping' = None
    BY <2>1, <2>3 DEF OwnerTruth
  <2>4. CASE owner' = handle[o] /\ mapping' = [part |-> handle[o], of |-> o]
    <3>1. mapping' \in Mappings /\ mapping'.part = owner' /\ owner' # None
      BY <1>2, <2>4 DEF Mappings
    <3> QED BY <2>1, <3>1 DEF OwnerTruth
  <2> QED BY <1>6, <2>2, <2>3, <2>4
<1>15. GuestOwns'
  BY <1>2, <1>4, <1>7, <1>8 DEF MInv, GuestOwns
<1> QED BY <1>10, <1>11, <1>12, <1>13, <1>14, <1>15 DEF MInv

-----------------------------------------------------------------------------
(* Stores, of the guest and of the host *)

LEMMA StorePreserves ==
  ASSUME NEW o \in Oracles, NEW p \in Pages, MInv, GuestStore(o, p) \/ HostWrite(o, p)
  PROVE  MInv'
<1> USE MappingAssumption DEF MInv, GuestStore, HostWrite, locks
<1>1. PICK q \in Oracles : q \in ramLive /\ ram' = [ram EXCEPT ![q] = @ \cup {p}]
  BY DEF TypeOK, MappingBacksLiveRam, Mappings, RamWhileUsed, UsesRam
<1>2. UNCHANGED <<whpLock, ownerLock, owner, pc, handle, ramLive, mapping>>
  OBVIOUS
<1>3. TypeOK'
  BY <1>1, <1>2 DEF TypeOK, HasPartition, HasNoRam
<1>4. Locking' /\ HandlesDiffer' /\ MappingBacksLiveRam' /\ OwnerTruth' /\ GuestOwns'
  BY <1>2 DEF Locking, HandlesDiffer, MappingBacksLiveRam, OwnerTruth, GuestOwns
<1>5. RamWhileUsed'
  BY <1>1, <1>2 DEF TypeOK, RamWhileUsed
<1> QED BY <1>3, <1>4, <1>5

-----------------------------------------------------------------------------
(* Drop *)

LEMMA DropLocksPreserve ==
  ASSUME NEW o \in Oracles, MInv, DropLock(o) \/ DropUnlock(o)
  PROVE  MInv'
<1> USE MappingAssumption DEF MInv, TypeOK, DropLock, DropUnlock, Goto, memory
<1>1. TypeOK'
  BY DEF Locations, HasPartition, HasNoRam
<1>2. Locking'
  BY DEF Locking, UnderWhpLock, UnderOwnerLock
<1>3. CASE DropLock(o)
  BY <1>1, <1>2, <1>3, QuietPreserves DEF UsesRam
<1>4. CASE DropUnlock(o)
  BY <1>1, <1>2, <1>4, QuietPreserves DEF UsesRam
<1> QED BY <1>3, <1>4

LEMMA DropUnmapPreserves ==
  ASSUME NEW o \in Oracles, MInv, DropUnmap(o)
  PROVE  MInv'
<1> USE MappingAssumption DEF MInv, TypeOK, DropUnmap, Goto, locks, memory
<1>1. TypeOK'
  BY DEF Locations, HasPartition, HasNoRam
<1>2. Locking'
  BY DEF Locking, UnderWhpLock, UnderOwnerLock
<1>3. HandlesDiffer' /\ RamWhileUsed' /\ MappingBacksLiveRam'
  BY DEF HandlesDiffer, RamWhileUsed, UsesRam, MappingBacksLiveRam
<1>4. pc'[o] = "deleting" /\ \A q \in Oracles : q # o => pc'[q] = pc[q]
  OBVIOUS
<1>5. \A q \in Oracles : pc[q] # "deleting"
  BY DEF Locking, UnderOwnerLock
<1>6. handle[o] # None
  BY DEF HasPartition
<1>7. OwnerTruth'
  <2>1. CASE owner = handle[o]
    BY <1>4, <1>5, <1>6, <2>1 DEF OwnerTruth
  <2>2. CASE owner # handle[o]
    BY <1>4, <1>5, <1>6, <2>2 DEF OwnerTruth
  <2> QED BY <2>1, <2>2
<1>8. GuestOwns'
  <2>1. \A q \in Oracles : pc'[q] = "guest" => q # o /\ pc[q] = "guest" /\ owner = handle[q]
    BY <1>4 DEF GuestOwns
  <2>2. \A q \in Oracles : q # o => handle[q] # handle[o]
    BY <1>6 DEF HandlesDiffer
  <2> QED BY <2>1, <2>2 DEF GuestOwns
<1> QED BY <1>1, <1>2, <1>3, <1>7, <1>8

LEMMA DropDeletePreserves ==
  ASSUME NEW o \in Oracles, MInv, DropDelete(o)
  PROVE  MInv'
<1> USE MappingAssumption DEF MInv, TypeOK, DropDelete, Goto, locks, memory
<1>1. TypeOK'
  BY DEF Locations, HasPartition, HasNoRam
<1>2. Locking'
  BY DEF Locking, UnderWhpLock, UnderOwnerLock
<1>3. HandlesDiffer' /\ RamWhileUsed'
  BY DEF HandlesDiffer, RamWhileUsed, UsesRam
<1>4. MappingBacksLiveRam'
  BY DEF MappingBacksLiveRam, Mappings
<1>5. OwnerTruth'
  BY DEF OwnerTruth, Locking, UnderOwnerLock
<1>6. GuestOwns'
  BY DEF GuestOwns
<1> QED BY <1>1, <1>2, <1>3, <1>4, <1>5, <1>6

\* The RAM that is freed is not mapped: its partition is gone.
LEMMA FreeRamPreserves ==
  ASSUME NEW o \in Oracles, MInv, FreeRam(o)
  PROVE  MInv'
<1> USE MappingAssumption DEF MInv, TypeOK, FreeRam, Goto
<1>1. TypeOK'
  BY DEF Locations, HasPartition, HasNoRam
<1>2. Locking'
  BY DEF Locking, UnderWhpLock, UnderOwnerLock
<1>3. HandlesDiffer' /\ RamWhileUsed'
  BY DEF HandlesDiffer, RamWhileUsed, UsesRam
<1>4. handle[o] = None
  BY DEF HasPartition
<1>5. mapping # None => mapping.of # o /\ mapping.of \in Oracles
  BY <1>4 DEF MappingBacksLiveRam, Mappings
<1>6. MappingBacksLiveRam'
  BY <1>5 DEF MappingBacksLiveRam
<1>7. OwnerTruth' /\ GuestOwns'
  BY DEF OwnerTruth, GuestOwns
<1> QED BY <1>1, <1>2, <1>3, <1>6, <1>7

-----------------------------------------------------------------------------
(* Every step, and the theorems *)

LEMMA StepPreserves == MInv /\ [Next]_vars => MInv'
<1> SUFFICES ASSUME MInv, [Next]_vars PROVE MInv'
  OBVIOUS
<1>1. CASE UNCHANGED vars
  BY <1>1 DEF MInv, TypeOK, HasPartition, HasNoRam, Locking, HandlesDiffer, RamWhileUsed,
              MappingBacksLiveRam, OwnerTruth, GuestOwns, vars, locks, memory
<1>2. CASE Next
  <2> PICK o \in Oracles :
        \/ BeginNew(o) \/ BeginStep(o) \/ BeginDrop(o)
        \/ Proceed(o)
        \/ \E p \in Pages : GuestStore(o, p) \/ HostWrite(o, p)
    BY <1>2 DEF Next
  <2>1. CASE BeginNew(o) \/ BeginStep(o) \/ BeginDrop(o)
    BY <2>1, CallsPreserve
  <2>2. CASE Proceed(o)
    <3>1. CASE CreatePartition(o) BY <3>1, CreatePartitionPreserves
    <3>2. CASE SetupPartition(o)  BY <3>2, SetupPreserves
    <3>3. CASE EnterLongMode(o) \/ EndStep(o)  BY <3>3, CallsPreserve
    <3>4. CASE ClaimKept(o) \/ ClaimUnmapFails(o) \/ ClaimMapFails(o) \/ ClaimTaken(o)
      BY <3>4, ClaimPreserves
    <3>5. CASE DropLock(o) \/ DropUnlock(o)  BY <3>5, DropLocksPreserve
    <3>6. CASE DropUnmap(o)   BY <3>6, DropUnmapPreserves
    <3>7. CASE DropDelete(o)  BY <3>7, DropDeletePreserves
    <3>8. CASE FreeRam(o)     BY <3>8, FreeRamPreserves
    <3> QED BY <2>2, <3>1, <3>2, <3>3, <3>4, <3>5, <3>6, <3>7, <3>8 DEF Proceed
  <2>3. CASE \E p \in Pages : GuestStore(o, p) \/ HostWrite(o, p)
    BY <2>3, StorePreserves
  <2> QED BY <2>1, <2>2, <2>3
<1> QED BY <1>1, <1>2

\* The invariant of the mapping protocol, from which the theorems follow.
THEOREM MappingInvariant == Spec => []MInv
BY InitEstablishes, StepPreserves, PTL DEF Spec

\* Types, and that no early return of try_new leaks a partition or its RAM.
THEOREM MappingTypeOK == Spec => []TypeOK
<1>1. MInv => TypeOK
  BY DEF MInv
<1> QED BY <1>1, MappingInvariant, PTL

\* The hypervisor never maps freed RAM: the order of WhpOracle's fields, and of
\* Partition::drop, is enough, whichever calls fail.
THEOREM MappedRamIsLive == Spec => []MappingBacksLiveRam
<1>1. MInv => MappingBacksLiveRam
  BY DEF MInv
<1> QED BY <1>1, MappingInvariant, PTL

\* MAPPING_OWNER is right between critical sections, although handle values are
\* reused.
THEOREM OwnerIsRight == Spec => []OwnerIsAccurate
<1>1. MInv => OwnerIsAccurate
  <2> SUFFICES ASSUME MInv, ownerLock = None
               PROVE  /\ owner # None => mapping # None /\ mapping.part = owner
                      /\ owner = None => mapping = None
    BY DEF OwnerIsAccurate
  <2>1. \A o \in Oracles : pc[o] # "deleting"
    BY MappingAssumption DEF MInv, Locking, UnderOwnerLock
  <2> QED BY <2>1 DEF MInv, OwnerTruth
<1> QED BY <1>1, MappingInvariant, PTL

\* A running guest sees its own RAM, whatever the other oracles are doing.
THEOREM GuestRunsOnOwnRam == Spec => []RunsOnOwnRam
<1>1. MInv => RunsOnOwnRam
  <2> SUFFICES ASSUME MInv, NEW o \in Oracles, pc[o] = "guest"
               PROVE  mapping = [part |-> handle[o], of |-> o]
    BY DEF RunsOnOwnRam
  <2>1. owner = handle[o] /\ handle[o] # None
    BY DEF MInv, GuestOwns, TypeOK, HasPartition
  <2>2. mapping \in Mappings /\ mapping.part = handle[o]
    BY <2>1 DEF MInv, OwnerTruth, TypeOK
  <2>3. mapping.of \in Oracles /\ handle[mapping.of] = handle[o]
    BY <2>1, <2>2, MappingAssumption DEF MInv, MappingBacksLiveRam, Mappings
  <2>4. mapping.of = o
    BY <2>1, <2>3 DEF MInv, HandlesDiffer
  <2> QED BY <2>2, <2>4 DEF Mappings
<1> QED BY <1>1, MappingInvariant, PTL

-----------------------------------------------------------------------------
(* The shared mapping implements IndependentOracles *)

\* A guest or host store is a store of exactly one live oracle.
LEMMA StoreRefines ==
  ASSUME NEW o \in Oracles, NEW p \in Pages, MInv, GuestStore(o, p) \/ HostWrite(o, p)
  PROVE  Independent!Next
<1>1. CASE GuestStore(o, p)
  <2>1. mapping.of \in Oracles /\ mapping.of \in ramLive
    BY <1>1 DEF GuestStore, MInv, TypeOK, MappingBacksLiveRam
  <2>2. Independent!Store(mapping.of, p)
    BY <1>1, <2>1 DEF GuestStore, Independent!Store
  <2> QED BY <2>1, <2>2 DEF Independent!Next
<1>2. CASE HostWrite(o, p)
  <2>1. o \in ramLive
    BY <1>2 DEF HostWrite, MInv, RamWhileUsed, UsesRam
  <2>2. Independent!Store(o, p)
    BY <1>2, <2>1 DEF HostWrite, Independent!Store
  <2> QED BY <2>2 DEF Independent!Next
<1> QED BY <1>1, <1>2

\* Freeing the RAM destroys the oracle, if it got as far as having any.
LEMMA FreeRamRefines ==
  ASSUME NEW o \in Oracles, MInv, FreeRam(o)
  PROVE  Independent!Next \/ UNCHANGED Independent!vars
<1>1. CASE o \in ramLive
  <2>1. Independent!Destroy(o)
    BY <1>1 DEF FreeRam, Independent!Destroy
  <2> QED BY <2>1 DEF Independent!Next
<1>2. CASE o \notin ramLive
  <2>1. ramLive' = ramLive
    BY <1>2 DEF FreeRam
  <2>2. ram[o] = {} /\ ram \in [Oracles -> SUBSET Pages]
    BY <1>2 DEF MInv, RamWhileUsed, TypeOK
  <2>3. ram' = ram
    BY <2>2 DEF FreeRam
  <2> QED BY <2>1, <2>3 DEF Independent!vars
<1> QED BY <1>1, <1>2

LEMMA SetupRefines ==
  ASSUME NEW o \in Oracles, MInv, SetupPartition(o)
  PROVE  Independent!Next \/ UNCHANGED Independent!vars
<1>1. o \notin ramLive
  BY DEF SetupPartition, MInv, TypeOK, HasNoRam
<1>2. ramLive' = ramLive \cup {o} /\ ram' = ram => Independent!Create(o)
  BY <1>1 DEF Independent!Create
<1> QED BY <1>2 DEF SetupPartition, Independent!Next, Independent!vars

LEMMA StepRefines ==
  ASSUME MInv, [Next]_vars
  PROVE  [Independent!Next]_(Independent!vars)
<1>1. CASE UNCHANGED vars
  BY <1>1 DEF vars, memory, Independent!vars
<1>2. CASE Next
  <2> PICK o \in Oracles :
        \/ BeginNew(o) \/ BeginStep(o) \/ BeginDrop(o)
        \/ Proceed(o)
        \/ \E p \in Pages : GuestStore(o, p) \/ HostWrite(o, p)
    BY <1>2 DEF Next
  <2>1. CASE \/ BeginNew(o) \/ BeginStep(o) \/ BeginDrop(o)
             \/ CreatePartition(o) \/ EnterLongMode(o) \/ EndStep(o)
             \/ ClaimKept(o) \/ ClaimUnmapFails(o) \/ ClaimMapFails(o) \/ ClaimTaken(o)
             \/ DropLock(o) \/ DropUnmap(o) \/ DropDelete(o) \/ DropUnlock(o)
    BY <2>1 DEF BeginNew, BeginStep, BeginDrop, CreatePartition, EnterLongMode, EndStep,
         ClaimKept, ClaimUnmapFails, ClaimMapFails, ClaimTaken,
         DropLock, DropUnmap, DropDelete, DropUnlock, memory, Independent!vars
  <2>2. CASE SetupPartition(o)
    BY <2>2, SetupRefines
  <2>3. CASE FreeRam(o)
    BY <2>3, FreeRamRefines
  <2>4. CASE \E p \in Pages : GuestStore(o, p) \/ HostWrite(o, p)
    BY <2>4, StoreRefines
  <2> QED BY <2>1, <2>2, <2>3, <2>4 DEF Proceed
<1> QED BY <1>1, <1>2

\* "WHP partitions are independent, so instances are too", for any number of
\* oracles sharing the one mapping.
THEOREM MappingImplementsIndependentOracles == Spec => ImplementsIndependentOracles
<1>1. Init => Independent!Init
  BY DEF Init, Independent!Init
<1>2. MInv /\ [Next]_vars => [Independent!Next]_(Independent!vars)
  BY StepRefines
<1> QED BY <1>1, <1>2, MappingInvariant, PTL
        DEF Spec, ImplementsIndependentOracles, Independent!Spec
=============================================================================
