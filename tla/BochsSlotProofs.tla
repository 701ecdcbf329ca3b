--------------------------- MODULE BochsSlotProofs ---------------------------
(***************************************************************************)
(* Proofs about BochsSlot, for any number of threads, any set of pages and  *)
(* any bound on spurious wakeups.                                           *)
(***************************************************************************)
EXTENDS BochsSlot, TLAPS

-----------------------------------------------------------------------------
(* The inductive invariant *)

\* A thread that gives the slot back, or has just taken it, holds no oracle.
\* Without this a release could clear the flag under a live oracle.
ReleaserHoldsNothing ==
  \A t \in Threads : holds[t] => pc[t] \notin {"init", "tryInit", "releasing"}

\* What every step preserves: who owns the slot, what the flags say of it, and
\* who is awake to take it.
IInv ==
  /\ TypeOK
  /\ ReleaserHoldsNothing
  /\ OneOracle
  /\ SlotCoversCore
  /\ NoLostWakeup

LEMMA InitEstablishes == Init => IInv
<1> SUFFICES ASSUME Init PROVE IInv
  OBVIOUS
<1> USE SlotAssumption DEF Init
<1>1. TypeOK
  <2>1. pc \in [Threads -> Locations] /\ holds \in [Threads -> BOOLEAN]
    BY DEF Locations
  <2>2. \A t \in Threads : pc[t] = "running" /\ t \notin unwinding
    OBVIOUS
  <2>3. unwinding \subseteq Threads /\ pages \subseteq Pages /\ spurious \in 0..MaxSpurious
    OBVIOUS
  <2> QED BY <2>1, <2>2, <2>3 DEF TypeOK
<1>2. ReleaserHoldsNothing /\ OneOracle /\ SlotCoversCore
  BY DEF ReleaserHoldsNothing, OneOracle, OwnsSlot, SlotCoversCore
<1>3. NoLostWakeup
  BY DEF NoLostWakeup, Parked
<1> QED BY <1>1, <1>2, <1>3 DEF IInv

-----------------------------------------------------------------------------
(* Steps that do not concern the owner of the slot *)

Ownership == ReleaserHoldsNothing /\ OneOracle /\ SlotCoversCore

\* The steps between taking the slot and giving it back.
OwnerLocations == {"init", "tryInit", "releasing"}

\* A thread that moves outside the owner's code disturbs nobody's ownership.
LEMMA MovingKeepsOwnership ==
  ASSUME NEW t \in Threads, NEW l, TypeOK, Ownership,
         pc[t] \notin OwnerLocations, l \notin OwnerLocations,
         Goto(t, l), UNCHANGED <<occupied, holds, gAlive, stranded>>
  PROVE  Ownership'
<1> USE DEF TypeOK, OwnerLocations, Goto
<1>1. \A u \in Threads : pc'[u] \in OwnerLocations <=> pc[u] \in OwnerLocations
  OBVIOUS
<1>2. \A u \in Threads : OwnsSlot(u)' <=> OwnsSlot(u)
  BY DEF OwnsSlot
<1>3. ReleaserHoldsNothing'
  BY DEF Ownership, ReleaserHoldsNothing
<1>4. OneOracle'
  BY <1>2 DEF Ownership, OneOracle
<1>5. SlotCoversCore'
  BY <1>2 DEF Ownership, SlotCoversCore
<1> QED BY <1>3, <1>4, <1>5 DEF Ownership

\* The waiting loop, the panic at its end, and the return of a dead thread.
LEMMA WaitingPreserves ==
  ASSUME NEW t \in Threads, IInv,
         CallNew(t) \/ Park(t) \/ Expire(t) \/ SpuriousWake(t) \/ GiveUp(t) \/ Respawn(t)
  PROVE  IInv'
<1> USE SlotAssumption DEF IInv
<1>1. TypeOK'
  BY DEF TypeOK, Locations, Goto, core,
         CallNew, Park, Expire, SpuriousWake, GiveUp, Respawn
<1>2. Ownership'
  <2> DEFINE Moved(l) == /\ pc[t] \notin OwnerLocations /\ l \notin OwnerLocations
                         /\ Goto(t, l) /\ UNCHANGED <<occupied, holds, gAlive, stranded>>
  <2>1. Moved("claiming") \/ Moved("parked") \/ Moved("expired")
          \/ Moved("panicking") \/ Moved("running")
    BY DEF OwnerLocations, core, CallNew, Park, Expire, SpuriousWake, GiveUp, Respawn
  <2> QED BY <2>1, MovingKeepsOwnership DEF Ownership
<1>3. NoLostWakeup'
  BY DEF NoLostWakeup, Parked, TypeOK, Locations, Goto,
         CallNew, Park, Expire, SpuriousWake, GiveUp, Respawn
<1> QED BY <1>1, <1>2, <1>3 DEF Ownership

-----------------------------------------------------------------------------
(* Steps that take the slot, use it and give it back *)

LEMMA TakingPreserves ==
  ASSUME NEW t \in Threads, IInv, Claim(t) \/ CallTryNew(t)
  PROVE  IInv'
<1> USE SlotAssumption DEF IInv, Claim, CallTryNew, Goto, core
<1>1. TypeOK'
  BY DEF TypeOK, Locations
<1>2. \A u \in Threads : ~OwnsSlot(u)
  BY DEF SlotCoversCore
<1>3. ~stranded
  BY DEF SlotCoversCore
<1>4. \A u \in Threads : OwnsSlot(u)' <=> u = t
  BY <1>2 DEF OwnsSlot, TypeOK
<1>5. ReleaserHoldsNothing'
  BY <1>2 DEF ReleaserHoldsNothing, OwnsSlot, TypeOK
<1>6. OneOracle'
  BY <1>3, <1>4 DEF OneOracle
<1>7. SlotCoversCore'
  BY <1>2, <1>3, <1>4 DEF SlotCoversCore, OwnsSlot, TypeOK
<1>8. NoLostWakeup'
  BY DEF NoLostWakeup
<1> QED BY <1>1, <1>5, <1>6, <1>7, <1>8

\* The claimant owns the slot alone, so it finds the core dead, and the step
\* makes it the one holder or strands the instance.
LEMMA InitCorePreserves ==
  ASSUME NEW t \in Threads, NEW booted \in Boots, IInv, InitCore(t, booted)
  PROVE  IInv'
<1> USE SlotAssumption DEF IInv, InitCore, Goto, core
<1>1. booted \in BOOLEAN
  OBVIOUS
<1>2. ~gAlive /\ OwnsSlot(t) /\ ~stranded
  BY DEF SlotCoversCore, OneOracle, OwnsSlot
<1>3. \A u \in Threads : u # t => ~OwnsSlot(u)
  BY <1>2 DEF OneOracle
<1>4. t \notin unwinding /\ ~holds[t]
  BY <1>2 DEF TypeOK, ReleaserHoldsNothing
<1>5. TypeOK'
  BY <1>1, <1>2, <1>4 DEF TypeOK, Locations, ClearedPages
<1>6. \A u \in Threads : u # t => ~OwnsSlot(u)' /\ ~holds'[u]
  BY <1>2, <1>3 DEF OwnsSlot, TypeOK
<1>7. /\ holds'[t] = booted /\ stranded' = ~booted /\ gAlive' = TRUE
      /\ pc'[t] \notin OwnerLocations /\ occupied' = occupied
  BY <1>1, <1>2 DEF TypeOK, OwnerLocations
<1>8. ReleaserHoldsNothing'
  BY <1>6, <1>7 DEF ReleaserHoldsNothing, OwnsSlot, OwnerLocations
<1>9. OneOracle'
  BY <1>6, <1>7 DEF OneOracle, OwnsSlot, OwnerLocations
<1>10. SlotCoversCore'
  <2>1. occupied'
    BY <1>2, <1>7 DEF SlotCoversCore
  <2>2. stranded' \/ \E u \in Threads : holds'[u]
    BY <1>1, <1>7
  <2>3. stranded' \/ \E u \in Threads : OwnsSlot(u)'
    BY <2>2 DEF OwnsSlot
  <2>4. \A u \in Threads : pc'[u] \notin {"init", "tryInit"}
    BY <1>6, <1>7 DEF OwnsSlot, OwnerLocations
  <2> QED BY <1>7, <2>1, <2>2, <2>3, <2>4 DEF SlotCoversCore
<1>11. NoLostWakeup'
  BY <1>2, <1>7 DEF NoLostWakeup, SlotCoversCore
<1> QED BY <1>5, <1>8, <1>9, <1>10, <1>11

LEMMA UsingPreserves ==
  ASSUME NEW t \in Threads, NEW p \in Pages, IInv, WritePage(t, p)
  PROVE  IInv'
<1> USE DEF IInv, WritePage
<1>1. TypeOK'
  BY DEF TypeOK
<1>2. ReleaserHoldsNothing' /\ OneOracle' /\ SlotCoversCore'
  BY DEF ReleaserHoldsNothing, OneOracle, SlotCoversCore, OwnsSlot
<1>3. NoLostWakeup'
  BY DEF NoLostWakeup, Parked
<1> QED BY <1>1, <1>2, <1>3

\* Freeing the core: the holder, running or unwinding, moves on to the release
\* with the slot still taken.
LEMMA FreeingPreserves ==
  ASSUME NEW t \in Threads, IInv, pc[t] \in {"running", "panicking"}, holds[t],
         FreeCore(t), Goto(t, "releasing"), UNCHANGED occupied
  PROVE  IInv'
<1> USE DEF IInv, FreeCore, Goto
<1>1. TypeOK'
  BY DEF TypeOK, Locations, ClearedPages
<1>2. OwnsSlot(t) /\ ~stranded
  BY DEF OneOracle, OwnsSlot
<1>3. \A u \in Threads : u # t => ~OwnsSlot(u)
  BY <1>2 DEF OneOracle
<1>4. \A u \in Threads : OwnsSlot(u)' <=> u = t
  BY <1>3 DEF OwnsSlot, TypeOK
<1>5. \A u \in Threads : ~holds'[u]
  BY <1>3 DEF OwnsSlot, TypeOK
<1>6. ReleaserHoldsNothing' /\ OneOracle'
  BY <1>2, <1>4, <1>5 DEF ReleaserHoldsNothing, OneOracle
<1>7. occupied' = TRUE
  BY <1>2 DEF SlotCoversCore
<1>8. SlotCoversCore'
  BY <1>2, <1>4, <1>5, <1>7 DEF SlotCoversCore, TypeOK
<1>9. NoLostWakeup'
  BY <1>7 DEF NoLostWakeup
<1> QED BY <1>1, <1>6, <1>8, <1>9

\* The release hands the slot to nobody: every sleeper is either still asleep
\* beside the one just woken, or there was none.
LEMMA ReleasePreserves ==
  ASSUME NEW t \in Threads, IInv, Release(t)
  PROVE  IInv'
<1> USE DEF IInv, Release, Goto, core
<1>1. TypeOK'
  BY DEF TypeOK, Locations, Parked
<1>2. OwnsSlot(t) /\ ~holds[t] /\ ~stranded
  BY DEF OneOracle, OwnsSlot, ReleaserHoldsNothing
<1>3. \A u \in Threads : u # t => ~OwnsSlot(u)
  BY <1>2 DEF OneOracle
<1>4. \A u \in Threads : ~OwnsSlot(u)'
  BY <1>2, <1>3 DEF OwnsSlot, TypeOK, Parked
<1>5. \A u \in Threads : ~holds'[u] /\ pc'[u] \notin OwnerLocations
  BY <1>4 DEF OwnsSlot, OwnerLocations
<1>6. ~occupied' /\ stranded' = stranded /\ gAlive' = gAlive /\ holds' = holds
  OBVIOUS
<1>7. ReleaserHoldsNothing' /\ OneOracle'
  BY <1>4, <1>5 DEF ReleaserHoldsNothing, OneOracle
<1>8. SlotCoversCore'
  BY <1>2, <1>4, <1>5, <1>6 DEF SlotCoversCore, OwnerLocations, TypeOK
<1>9. NoLostWakeup'
  <2>1. CASE Parked = {}
    BY <2>1 DEF NoLostWakeup, Parked, TypeOK
  <2>2. CASE \E w \in Parked : pc' = [pc EXCEPT
               ![t] = IF t \in unwinding THEN "panicking" ELSE "running", ![w] = "claiming"]
    BY <2>2 DEF NoLostWakeup, Parked, TypeOK
  <2> QED BY <2>1, <2>2
<1> QED BY <1>1, <1>7, <1>8, <1>9

LEMMA LeakingPreserves ==
  ASSUME NEW t \in Threads, IInv, Forget(t)
  PROVE  IInv'
<1> USE DEF IInv, Forget, core
<1>1. TypeOK'
  BY DEF TypeOK
<1>2. OwnsSlot(t) /\ ~stranded
  BY DEF OneOracle, OwnsSlot
<1>3. \A u \in Threads : ~OwnsSlot(u)'
  BY <1>2 DEF OneOracle, OwnsSlot, TypeOK
<1>4. ReleaserHoldsNothing' /\ OneOracle'
  BY <1>3 DEF ReleaserHoldsNothing, OneOracle, OwnsSlot
<1>5. SlotCoversCore'
  BY <1>2, <1>3 DEF SlotCoversCore, OwnsSlot
<1>6. NoLostWakeup'
  BY DEF NoLostWakeup, Parked
<1> QED BY <1>1, <1>4, <1>5, <1>6

LEMMA UnwindPreserves ==
  ASSUME NEW t \in Threads, IInv, Unwind(t)
  PROVE  IInv'
<1>1. CASE holds[t]
  BY <1>1, FreeingPreserves DEF Unwind
<1>2. CASE ~holds[t]
  <2> USE <1>2 DEF IInv, Unwind, core
  <2>1. TypeOK'
    BY DEF TypeOK, Locations, Goto
  <2>2. Ownership'
    BY MovingKeepsOwnership DEF Ownership, OwnerLocations
  <2>3. NoLostWakeup'
    BY DEF NoLostWakeup, Parked, TypeOK, Goto
  <2> QED BY <2>1, <2>2, <2>3 DEF Ownership
<1> QED BY <1>1, <1>2

-----------------------------------------------------------------------------
(* Every step, and the theorems *)

LEMMA StepPreserves == IInv /\ [Next]_vars => IInv'
<1> SUFFICES ASSUME IInv, [Next]_vars PROVE IInv'
  OBVIOUS
<1>1. CASE UNCHANGED vars
  BY <1>1 DEF IInv, TypeOK, ReleaserHoldsNothing, OneOracle, OwnsSlot, SlotCoversCore,
              NoLostWakeup, Parked, vars, core
<1>2. CASE Next
  <2> PICK t \in Threads :
        \/ CallNew(t) \/ CallTryNew(t) \/ Advance(t) \/ Expire(t) \/ SpuriousWake(t)
        \/ \E p \in Pages : WritePage(t, p)
        \/ DropOracle(t) \/ Forget(t) \/ Respawn(t)
    BY <1>2 DEF Next
  <2>1. CASE CallNew(t) \/ Expire(t) \/ SpuriousWake(t) \/ Respawn(t)
    BY <2>1, WaitingPreserves
  <2>2. CASE CallTryNew(t)
    BY <2>2, TakingPreserves
  <2>3. CASE Advance(t)
    <3>1. CASE Claim(t)
      BY <3>1, TakingPreserves
    <3>2. CASE Park(t) \/ GiveUp(t)
      BY <3>2, WaitingPreserves
    <3>3. CASE \E booted \in Boots : InitCore(t, booted)
      BY <3>3, InitCorePreserves
    <3>4. CASE Release(t)
      BY <3>4, ReleasePreserves
    <3>5. CASE Unwind(t)
      BY <3>5, UnwindPreserves
    <3> QED BY <2>3, <3>1, <3>2, <3>3, <3>4, <3>5 DEF Advance
  <2>4. CASE \E p \in Pages : WritePage(t, p)
    BY <2>4, UsingPreserves
  <2>5. CASE DropOracle(t)
    BY <2>5, FreeingPreserves DEF DropOracle
  <2>6. CASE Forget(t)
    BY <2>6, LeakingPreserves
  <2> QED BY <2>1, <2>2, <2>3, <2>4, <2>5, <2>6
<1> QED BY <1>1, <1>2

\* The invariant of the slot protocol, from which the theorems below follow.
THEOREM SlotInvariant == Spec => []IInv
BY InitEstablishes, StepPreserves, PTL DEF Spec

\* Types, and that a panic is neither forgotten nor invented by the drop that
\* runs while it unwinds.
THEOREM SlotTypeOK == Spec => []TypeOK
<1>1. IInv => TypeOK
  BY DEF IInv
<1> QED BY <1>1, SlotInvariant, PTL

\* claim_instance and release_instance admit one oracle at a time, for any
\* number of threads, panics, leaks and spurious wakeups.
THEOREM SlotIsExclusive == Spec => []OneOracle
<1>1. IInv => OneOracle
  BY DEF IInv
<1> QED BY <1>1, SlotInvariant, PTL

\* OCCUPIED and the shim's g_alive never disagree in a way a claimant could see:
\* x86oracle_bochs_new never returns null.
THEOREM ClaimantFindsDeadCore == Spec => []SlotCoversCore
<1>1. IInv => SlotCoversCore
  BY DEF IInv
<1> QED BY <1>1, SlotInvariant, PTL

\* notify_one is enough.
THEOREM WakeupsAreNotLost == Spec => []NoLostWakeup
<1>1. IInv => NoLostWakeup
  BY DEF IInv
<1> QED BY <1>1, SlotInvariant, PTL

-----------------------------------------------------------------------------
(* The slot implements SingleOracle *)

\* What the refinement mapping says of the holder.
HolderFacts ==
  /\ \A t \in Threads : holds[t] => Holder = t /\ ~stranded
  /\ stranded => Holder = Lost
  /\ ~stranded /\ (\A t \in Threads : ~holds[t]) => Holder = NoThread

\* The CHOOSE of the refinement mapping is determined, because one thread holds.
LEMMA HolderIsOwner == IInv => HolderFacts
<1> SUFFICES ASSUME IInv PROVE HolderFacts
  OBVIOUS
<1>1. \A t \in Threads : holds[t] => Holder = t /\ ~stranded
  <2> SUFFICES ASSUME NEW t \in Threads, holds[t] PROVE Holder = t /\ ~stranded
    OBVIOUS
  <2>1. ~stranded
    BY DEF IInv, OneOracle, OwnsSlot
  <2>2. \A u \in Threads : holds[u] => u = t
    BY DEF IInv, OneOracle, OwnsSlot
  <2>3. (CHOOSE u \in Threads : holds[u]) = t
    BY <2>2
  <2> QED BY <2>1, <2>3 DEF Holder
<1>2. stranded => Holder = Lost
  BY DEF Holder
<1>3. ~stranded /\ (\A t \in Threads : ~holds[t]) => Holder = NoThread
  BY DEF Holder
<1> QED BY <1>1, <1>2, <1>3 DEF HolderFacts

LEMMA HolderIsOwnerNext == IInv' => HolderFacts'
BY HolderIsOwner, PTL

LEMMA InitRefines == Init => Oracle!Init
BY DEF Init, Oracle!Init, Holder

\* A step that leaves the value and the memory alone is a stutter.
LEMMA QuietRefines ==
  ASSUME UNCHANGED <<holds, stranded, pages>>
  PROVE  UNCHANGED Oracle!vars
BY DEF Oracle!vars, Holder

\* The construction step creates the oracle or strands it.
LEMMA InitCoreRefines ==
  ASSUME NEW t \in Threads, NEW booted \in Boots, IInv, IInv', InitCore(t, booted)
  PROVE  Oracle!Next
<1> USE SlotAssumption DEF InitCore, core
<1>1. ~gAlive /\ ~stranded /\ \A u \in Threads : ~holds[u]
  BY DEF IInv, SlotCoversCore
<1>2. Holder = NoThread
  BY <1>1, HolderIsOwner DEF HolderFacts
<1>3. holds' = [holds EXCEPT ![t] = booted] /\ stranded' = ~booted /\ pages' = {}
  BY <1>1 DEF ClearedPages
<1>4. CASE booted
  <2>1. holds'[t]
    BY <1>3, <1>4 DEF IInv, TypeOK
  <2>2. Holder' = t
    BY <2>1, HolderIsOwnerNext DEF HolderFacts
  <2>3. Oracle!Create(t)
    BY <1>2, <1>3, <2>2 DEF Oracle!Create
  <2> QED BY <2>3 DEF Oracle!Next
<1>5. CASE ~booted
  <2>1. Holder' = Lost
    BY <1>3, <1>5, HolderIsOwnerNext DEF HolderFacts
  <2>2. Oracle!Abandon(t)
    BY <1>2, <1>3, <2>1 DEF Oracle!Abandon
  <2> QED BY <2>2 DEF Oracle!Next
<1> QED BY <1>4, <1>5

LEMMA FreeingRefines ==
  ASSUME NEW t \in Threads, IInv, IInv', holds[t], FreeCore(t)
  PROVE  Oracle!Next
<1>1. Holder = t /\ ~stranded
  BY HolderIsOwner DEF HolderFacts
<1>2. ~stranded' /\ pages' = {}
  BY <1>1 DEF FreeCore, ClearedPages
<1>3. \A u \in Threads : ~holds'[u]
  BY DEF FreeCore, IInv, TypeOK, OneOracle, OwnsSlot
<1>4. Holder' = NoThread
  BY <1>2, <1>3, HolderIsOwnerNext DEF HolderFacts
<1>5. Oracle!Destroy(t)
  BY <1>1, <1>2, <1>4 DEF Oracle!Destroy
<1> QED BY <1>5 DEF Oracle!Next

LEMMA WriteRefines ==
  ASSUME NEW t \in Threads, NEW p \in Pages, IInv, WritePage(t, p)
  PROVE  Oracle!Next
<1>1. Holder = t
  BY HolderIsOwner DEF HolderFacts, WritePage
<1>2. Holder' = Holder
  BY DEF WritePage, Holder
<1>3. Oracle!Write(t, p)
  BY <1>1, <1>2 DEF Oracle!Write, WritePage
<1> QED BY <1>3 DEF Oracle!Next

LEMMA ForgetRefines ==
  ASSUME NEW t \in Threads, IInv, IInv', Forget(t)
  PROVE  Oracle!Next
<1>1. Holder = t
  BY HolderIsOwner DEF HolderFacts, Forget
<1>2. Holder' = Lost
  BY HolderIsOwnerNext DEF HolderFacts, Forget
<1>3. Oracle!Abandon(t)
  BY <1>1, <1>2 DEF Oracle!Abandon, Forget, core
<1> QED BY <1>3 DEF Oracle!Next

LEMMA StepRefines ==
  ASSUME IInv, IInv', [Next]_vars
  PROVE  [Oracle!Next]_(Oracle!vars)
<1>1. CASE UNCHANGED vars
  BY <1>1, QuietRefines DEF vars, core
<1>2. CASE Next
  <2> PICK t \in Threads :
        \/ CallNew(t) \/ CallTryNew(t) \/ Advance(t) \/ Expire(t) \/ SpuriousWake(t)
        \/ \E p \in Pages : WritePage(t, p)
        \/ DropOracle(t) \/ Forget(t) \/ Respawn(t)
    BY <1>2 DEF Next
  <2>1. CASE \/ CallNew(t) \/ CallTryNew(t) \/ Expire(t) \/ SpuriousWake(t) \/ Respawn(t)
             \/ Claim(t) \/ Park(t) \/ GiveUp(t) \/ Release(t)
    BY <2>1, QuietRefines DEF CallNew, CallTryNew, Expire, SpuriousWake, Respawn,
         Claim, Park, GiveUp, Release, core
  <2>2. CASE \E booted \in Boots : InitCore(t, booted)
    BY <2>2, InitCoreRefines
  <2>3. CASE Unwind(t)
    BY <2>3, FreeingRefines, QuietRefines DEF Unwind, core
  <2>4. CASE \E p \in Pages : WritePage(t, p)
    BY <2>4, WriteRefines
  <2>5. CASE DropOracle(t)
    BY <2>5, FreeingRefines DEF DropOracle
  <2>6. CASE Forget(t)
    BY <2>6, ForgetRefines
  <2> QED BY <2>1, <2>2, <2>3, <2>4, <2>5, <2>6 DEF Advance
<1> QED BY <1>1, <1>2

\* The slot, the flags and the core implement SingleOracle: whatever the number
\* of threads, each oracle a caller gets starts from empty memory, and what it
\* reads is what it wrote.
THEOREM SlotImplementsSingleOracle == Spec => ImplementsSingleOracle
<1>1. IInv /\ IInv' /\ [Next]_vars => [Oracle!Next]_(Oracle!vars)
  BY StepRefines
<1> QED BY <1>1, InitRefines, SlotInvariant, PTL DEF Spec, ImplementsSingleOracle, Oracle!Spec
=============================================================================
