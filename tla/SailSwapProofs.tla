--------------------------- MODULE SailSwapProofs ---------------------------
(***************************************************************************)
(* Proofs about SailSwap, for any threads, oracles, addresses and blocks.   *)
(***************************************************************************)
EXTENDS SailSwap, FiniteSetTheorems, TLAPS

-----------------------------------------------------------------------------
(* The inductive invariant *)

\* The program points inside a MODEL_LOCK section, those where a MemCtx exists,
\* and those behind the work of the call.
InSection == {"locked", "model", "leave", "unlock"}
InCtx == {"model", "leave"}
Done == {"leave", "unlock"}

\* A thread is inside a section exactly if it holds MODEL_LOCK.
Locking == \A t \in Threads : lock = t <=> pc[t] \in InSection

\* Two calls on one oracle at a time are shared borrows.
Borrows ==
  \A t, u \in Threads :
    t # u /\ pc[t] # "idle" /\ pc[u] # "idle" /\ job[t].o = job[u].o
      => job[t].kind \in Shared /\ job[u].kind \in Shared

\* What a call is made on exists, but for new before its work and drop after it.
\* Only reads and writes have bytes left; a step that threw is past its work.
Jobs ==
  \A t \in Threads : pc[t] # "idle" =>
    /\ job[t].o \in Oracles
    /\ job[t].o \notin alive <=> \/ job[t].kind = "new" /\ pc[t] \notin Done
                                 \/ job[t].kind = "drop" /\ pc[t] \in Done
    /\ job[t].kind \notin {"read", "write"} => job[t].left = {}
    /\ job[t].kind = "threw" => pc[t] \in Done

\* Each instance that exists is counted once.
Counted == rts_refcount = Cardinality(alive)

\* An instance remembers what its last step threw.
Remembered == \A o \in Oracles : last_exception[o] = thrown[o]

SInv ==
  /\ TypeOK
  /\ Locking
  /\ Borrows
  /\ Jobs
  /\ Counted
  /\ Remembered
  /\ BlocksHaveOneOwner
  /\ FaultIsOwn

LEMMA InitEstablishes == Init => SInv
<1> SUFFICES ASSUME Init PROVE SInv
  OBVIOUS
<1> USE DEF Init
<1>1. Cardinality({}) = 0 /\ Cardinality(Oracles) \in Nat
  BY FS_EmptySet, FS_CardinalityType, OraclesAssumption
<1>2. TypeOK
  <2>1. NoJob \in [kind : Exclusive \cup Shared, o : Oracles \cup {None}, left : SUBSET Addresses]
    BY DEF NoJob, Job, Shared
  <2> QED BY <1>1, <2>1 DEF TypeOK, Texts
<1>3. Locking /\ Borrows /\ Jobs
  BY NoneAssumption DEF Locking, InSection, Borrows, Jobs
<1>4. Counted /\ Remembered
  BY <1>1 DEF Counted, Remembered
<1>5. BlocksHaveOneOwner
  <2>1. \A o \in Oracles : List(o) = {}
    BY DEF List, Swapped
  <2> QED BY <2>1 DEF BlocksHaveOneOwner
<1>6. FaultIsOwn
  BY DEF FaultIsOwn
<1> QED BY <1>2, <1>3, <1>4, <1>5, <1>6 DEF SInv

-----------------------------------------------------------------------------
(* Control: who is inside, on what *)

\* The lock holder alone is inside, so a MemCtx has one oracle at a time.
LEMMA OneInside ==
  ASSUME Locking, NEW t \in Threads, NEW u \in Threads,
         pc[t] \in InSection, pc[u] \in InSection
  PROVE  t = u
BY DEF Locking

LEMMA SwappedIsMine ==
  ASSUME Locking, NEW t \in Threads, pc[t] \in InCtx, NEW o
  PROVE  Swapped(o) <=> o = job[t].o
BY OneInside DEF Swapped, InCtx, InSection

LEMMA NothingSwapped ==
  ASSUME Locking, NEW t \in Threads, pc[t] \in {"locked", "unlock"}, NEW o
  PROVE  ~Swapped(o)
BY OneInside DEF Swapped, InSection

\* An exclusive call is the only one on its oracle.
LEMMA AloneOn ==
  ASSUME Borrows, NEW t \in Threads, NEW u \in Threads, t # u,
         pc[t] # "idle", pc[u] # "idle", job[t].kind \in Exclusive
  PROVE  job[u].o # job[t].o
BY DEF Borrows, Exclusive, Shared

\* A step of t that goes from one point inside the section to another, or out of
\* it, and leaves the call and the instances alone keeps control in order.
LEMMA MovePreservesControl ==
  ASSUME SInv, NEW t \in Threads, NEW l \in InSection,
         pc[t] \in InSection, pc' = [pc EXCEPT ![t] = l],
         job[t].kind \in {"new", "drop", "threw"} => (pc[t] \in Done <=> l \in Done),
         UNCHANGED <<lock, job, alive>>
  PROVE  (Locking /\ Borrows /\ Jobs)'
<1> USE DEF SInv, TypeOK, InSection, Done
<1>1. Locking'
  BY DEF Locking
<1>2. Borrows'
  BY DEF Borrows
<1>3. Jobs'
  BY DEF Jobs
<1> QED BY <1>1, <1>2, <1>3

\* Whatever leaves the lists, the blocks and the instances alone keeps their order.
LEMMA SameListsPreserve ==
  ASSUME SInv, \A o \in Oracles : List(o)' = List(o), UNCHANGED <<region, alive>>
  PROVE  BlocksHaveOneOwner'
BY DEF SInv, BlocksHaveOneOwner

-----------------------------------------------------------------------------
(* Calls and the lock *)

LEMMA CallPreserves ==
  ASSUME NEW t \in Threads, NEW o \in Oracles, SInv, Calls(t, o)
  PROVE  SInv'
<1> PICK kind \in {"new", "step", "fault_msg", "drop", "read", "write"},
         left \in SUBSET Addresses :
      Call(t, kind, o, left) /\ (kind \notin {"read", "write"} => left = {})
  BY DEF Calls, Slices
<1> USE DEF SInv, TypeOK, Call, heapvars, history, Job
<1>1. TypeOK'
  BY DEF Exclusive, Shared
<1>2. Locking'
  BY DEF Locking, InSection
<1>3. Borrows'
  BY DEF Borrows, Borrowable, Busy, Shared
<1>4. Jobs'
  BY DEF Jobs, Done
<1>5. BlocksHaveOneOwner'
  <2>1. \A p \in Oracles : List(p)' = List(p)
    BY DEF List, Swapped
  <2> QED BY <2>1, SameListsPreserve
<1>6. Counted' /\ Remembered' /\ FaultIsOwn'
  BY DEF Counted, Remembered, FaultIsOwn
<1> QED BY <1>1, <1>2, <1>3, <1>4, <1>5, <1>6

LEMMA LockPreserves ==
  ASSUME NEW t \in Threads, SInv, Lock(t)
  PROVE  SInv'
<1> USE DEF SInv, TypeOK, Lock, heapvars, history
<1>1. TypeOK' /\ Counted' /\ Remembered' /\ FaultIsOwn'
  BY DEF Counted, Remembered, FaultIsOwn
<1>2. Locking'
  BY NoneAssumption DEF Locking, InSection
<1>3. Borrows' /\ Jobs'
  BY DEF Borrows, Jobs, Done
<1>4. BlocksHaveOneOwner'
  <2>1. \A p \in Oracles : List(p)' = List(p)
    BY DEF List, Swapped
  <2> QED BY <2>1, SameListsPreserve
<1> QED BY <1>1, <1>2, <1>3, <1>4

LEMMA UnlockPreserves ==
  ASSUME NEW t \in Threads, SInv, Unlock(t)
  PROVE  SInv'
<1> USE DEF SInv, TypeOK, Unlock, heapvars, history
<1>1. TypeOK'
  <2>1. NoJob \in [kind : Exclusive \cup Shared, o : Oracles \cup {None}, left : SUBSET Addresses]
    BY DEF NoJob, Job, Shared
  <2>2. [job[t] EXCEPT !.kind = "stepmsg"]
          \in [kind : Exclusive \cup Shared, o : Oracles \cup {None}, left : SUBSET Addresses]
    <3>1. job[t] \in [kind : Exclusive \cup Shared, o : Oracles \cup {None}, left : SUBSET Addresses]
      OBVIOUS
    <3>2. "stepmsg" \in Exclusive
      BY DEF Exclusive
    <3> QED BY <3>1, <3>2
  <2>3. \/ job' = [job EXCEPT ![t] = NoJob]
        \/ job' = [job EXCEPT ![t] = [job[t] EXCEPT !.kind = "stepmsg"]]
    BY <2>2
  <2>4. job' \in [Threads -> [kind : Exclusive \cup Shared, o : Oracles \cup {None},
                              left : SUBSET Addresses]]
    BY <2>1, <2>2, <2>3
  <2> QED BY <2>4
<1>2. Locking'
  BY NoneAssumption DEF Locking, InSection
<1>3. Borrows' /\ Jobs'
  <2>1. CASE job[t].kind = "threw"
    <3>1. /\ job'[t].o = job[t].o /\ job'[t].left = job[t].left
          /\ job'[t].kind = "stepmsg" /\ pc'[t] = "call"
      BY <2>1
    <3>2. \A u \in Threads \ {t} : job'[u] = job[u] /\ pc'[u] = pc[u]
      BY <2>1
    <3>3. Borrows'
      BY <2>1, <3>1, <3>2 DEF Borrows, Shared
    <3>4. Jobs'
      BY <2>1, <3>1, <3>2 DEF Jobs, Done
    <3> QED BY <3>3, <3>4
  <2>2. CASE job[t].kind # "threw"
    <3>1. pc'[t] = "idle" /\ UNCHANGED alive
      BY <2>2
    <3>2. \A u \in Threads \ {t} : job'[u] = job[u] /\ pc'[u] = pc[u]
      BY <2>2
    <3>3. job'[t].kind = "read" /\ job'[t].left = {}
      BY <2>2 DEF NoJob, Job
    <3>4. Borrows'
      BY <3>1, <3>2 DEF Borrows
    <3>5. Jobs'
      BY <3>1, <3>2, <3>3 DEF Jobs, Done
    <3> QED BY <3>4, <3>5
  <2> QED BY <2>1, <2>2
<1>4. BlocksHaveOneOwner'
  <2>1. \A p \in Oracles : List(p)' = List(p)
    BY DEF List, Swapped
  <2> QED BY <2>1, SameListsPreserve
<1>5. Counted' /\ Remembered' /\ FaultIsOwn'
  BY DEF Counted, Remembered, FaultIsOwn
<1> QED BY <1>1, <1>2, <1>3, <1>4, <1>5

-----------------------------------------------------------------------------
(* MemCtx: swapping moves lists, and changes none *)

LEMMA EnterCtxKeepsLists ==
  ASSUME NEW t \in Threads, SInv, EnterCtx(t), NEW p \in Oracles
  PROVE  List(p)' = List(p)
<1> USE DEF SInv, TypeOK, EnterCtx
<1>1. ~Swapped(p)
  BY NothingSwapped
<1>2. Swapped(p)' <=> p = job[t].o
  BY <1>1 DEF Swapped
<1> QED BY <1>1, <1>2 DEF List

LEMMA LeaveCtxKeepsLists ==
  ASSUME NEW t \in Threads, SInv, LeaveCtx(t), NEW p \in Oracles
  PROVE  List(p)' = List(p)
<1> USE DEF SInv, TypeOK, LeaveCtx
<1>1. Swapped(p) <=> p = job[t].o
  BY SwappedIsMine DEF InCtx
<1>2. ~Swapped(p)'
  BY OneInside DEF Swapped, InSection
<1>3. job[t].o \in Oracles
  BY DEF Jobs
<1> QED BY <1>1, <1>2, <1>3 DEF List

LEMMA MemCtxPreserves ==
  ASSUME NEW t \in Threads, SInv, EnterCtx(t) \/ LeaveCtx(t)
  PROVE  SInv'
<1> USE DEF SInv, TypeOK, EnterCtx, LeaveCtx, history
<1>1. job[t].o \in Oracles
  BY DEF Jobs
<1>2. TypeOK' /\ Counted' /\ Remembered'
  BY <1>1 DEF Counted, Remembered
<1>3. (Locking /\ Borrows /\ Jobs)'
  <2>1. \E l \in InSection :
          /\ pc[t] \in InSection /\ pc' = [pc EXCEPT ![t] = l]
          /\ job[t].kind \in {"new", "drop", "threw"} => (pc[t] \in Done <=> l \in Done)
    BY DEF Jobs, InSection, Done
  <2> QED BY <2>1, MovePreservesControl
<1>4. BlocksHaveOneOwner'
  <2>1. \A p \in Oracles : List(p)' = List(p)
    BY EnterCtxKeepsLists, LeaveCtxKeepsLists
  <2> QED BY <2>1, SameListsPreserve
<1>5. FaultIsOwn'
  BY DEF FaultIsOwn, Jobs
<1> QED BY <1>2, <1>3, <1>4, <1>5

-----------------------------------------------------------------------------
(* Inside a MemCtx *)

\* Work that leaves lists and blocks alone, on the way to "leave".
LEMMA WorkKeepsLists ==
  ASSUME NEW t \in Threads, SInv, pc[t] = "model",
         pc' = [pc EXCEPT ![t] = "leave"],
         \A u \in Threads : job'[u].o = job[u].o,
         UNCHANGED <<sail_memory, memory>>, NEW p \in Oracles
  PROVE  List(p)' = List(p)
<1> USE DEF SInv, TypeOK
<1>1. Swapped(p)' <=> Swapped(p)
  BY DEF Swapped
<1> QED BY <1>1 DEF List

LEMMA NewPreserves ==
  ASSUME NEW t \in Threads, SInv, New(t)
  PROVE  SInv'
<1> USE DEF SInv, TypeOK, New, InModel
<1>1. job[t].o \in Oracles /\ job[t].o \notin alive
  BY DEF Jobs, Done
<1>2. Counted' /\ rts_refcount' \in 0..Cardinality(Oracles)
  <2>1. IsFiniteSet(alive)
    BY FS_Subset, OraclesAssumption
  <2>2. Cardinality(alive') = Cardinality(alive) + 1 /\ Cardinality(alive) \in Nat
    BY <1>1, <2>1, FS_AddElement, FS_CardinalityType
  <2>3. Cardinality(alive') <= Cardinality(Oracles) /\ Cardinality(Oracles) \in Nat
    BY <1>1, FS_Subset, FS_CardinalityType, OraclesAssumption
  <2> QED BY <2>2, <2>3 DEF Counted
<1>3. TypeOK'
  BY <1>1, <1>2 DEF Texts
<1>4. Locking' /\ Borrows'
  BY DEF Locking, InSection, Borrows
<1>5. Jobs'
  <2>1. \A u \in Threads \ {t} : pc[u] # "idle" => job[u].o # job[t].o
    BY AloneOn DEF Exclusive
  <2> QED BY <2>1 DEF Jobs, Done
<1>6. Remembered'
  BY DEF Remembered
<1>7. BlocksHaveOneOwner'
  <2>1. \A p \in Oracles : List(p)' = List(p)
    BY WorkKeepsLists
  <2> QED BY <2>1 DEF BlocksHaveOneOwner
<1>8. FaultIsOwn'
  BY OneInside DEF FaultIsOwn, InSection
<1> QED BY <1>2, <1>3, <1>4, <1>5, <1>6, <1>7, <1>8

\* A list grows by a block nobody had, for a region it did not serve.
LEMMA StoreKeepsOwners ==
  ASSUME NEW t \in Threads, SInv, pc[t] = "model", NEW r \in Regions, StoreTo(r),
         pc' \in {pc, [pc EXCEPT ![t] = "leave"]},
         \A u \in Threads : job'[u].o = job[u].o,
         UNCHANGED <<memory, alive>>, job[t].o \in alive
  PROVE  /\ BlocksHaveOneOwner'
         /\ sail_memory' \subseteq Blocks
         /\ region' \in [Blocks -> Regions \cup {None}]
         /\ \A p \in Oracles : {region'[b] : b \in List(p)'} =
              IF p = job[t].o THEN {region[b] : b \in List(p)} \cup {r}
              ELSE {region[b] : b \in List(p)}
<1> USE DEF SInv, TypeOK
<1> DEFINE o == job[t].o
<1>1. o \in Oracles
  OBVIOUS
<1>2. \A p \in Oracles : (Swapped(p) <=> p = o) /\ (Swapped(p)' <=> p = o)
  <2>1. \A p \in Oracles : Swapped(p) <=> p = o
    BY SwappedIsMine DEF InCtx
  <2>2. \A p \in Oracles : Swapped(p)' <=> Swapped(p)
    BY DEF Swapped
  <2> QED BY <2>1, <2>2
<1>3. /\ List(o) = sail_memory /\ List(o)' = sail_memory'
      /\ \A p \in Oracles \ {o} : List(p) = memory[p] /\ List(p)' = memory[p]
  BY <1>1, <1>2 DEF List
<1>4. CASE \E b \in sail_memory : region[b] = r
  <2>1. UNCHANGED <<sail_memory, region>>
    BY <1>4 DEF StoreTo
  <2>2. \A p \in Oracles : List(p)' = List(p)
    BY <1>3, <2>1
  <2>3. BlocksHaveOneOwner'
    BY <2>1, <2>2, SameListsPreserve
  <2> QED BY <1>3, <1>4, <2>1, <2>2, <2>3
<1>5. CASE ~\E b \in sail_memory : region[b] = r
  <2> PICK b \in Blocks : /\ region[b] = None
                         /\ region' = [region EXCEPT ![b] = r]
                         /\ sail_memory' = sail_memory \cup {b}
    BY <1>5 DEF StoreTo
  <2> USE NoneAssumption
  <2>1. \A p \in Oracles : b \notin List(p) /\ List(p) \subseteq Blocks
    BY DEF BlocksHaveOneOwner, List
  <2>2. List(o)' = List(o) \cup {b} /\ \A p \in Oracles \ {o} : List(p)' = List(p)
    BY <1>3
  <2>3. region' \in [Blocks -> Regions \cup {None}] /\ region'[b] = r
        /\ \A c \in Blocks \ {b} : region'[c] = region[c]
    OBVIOUS
  <2>4. ASSUME NEW p \in Oracles, NEW q \in Oracles, p # q
        PROVE  List(p)' \cap List(q)' = {}
    <3>1. List(p) \cap List(q) = {} /\ b \notin List(p) /\ b \notin List(q)
      BY <2>1, <2>4 DEF BlocksHaveOneOwner
    <3>2. \A s \in {p, q} : IF s = o THEN List(s)' = List(s) \cup {b} ELSE List(s)' = List(s)
      BY <2>2
    <3> QED BY <2>4, <3>1, <3>2
  <2>5. {c \in Blocks : region'[c] # None} = UNION {List(p)' : p \in Oracles}
    <3>1. {c \in Blocks : region[c] # None} = UNION {List(p) : p \in Oracles}
      BY DEF BlocksHaveOneOwner
    <3>2. {c \in Blocks : region'[c] # None} = {c \in Blocks : region[c] # None} \cup {b}
      BY <2>3
    <3>3. UNION {List(p)' : p \in Oracles} = (UNION {List(p) : p \in Oracles}) \cup {b}
      BY <1>1, <2>2, SMTT(60)
    <3> QED BY <3>1, <3>2, <3>3
  <2>6. \A p \in Oracles : \A c, d \in List(p)' : region'[c] = region'[d] => c = d
    <3>1. \A p \in Oracles : \A c, d \in List(p) : region[c] = region[d] => c = d
      BY DEF BlocksHaveOneOwner
    <3>2. \A c \in List(o) : region'[c] # r
      BY <1>3, <1>5, <2>1, <2>3
    <3> QED BY <2>1, <2>2, <2>3, <3>1, <3>2
  <2>7. \A p \in Oracles \ alive : List(p)' = {}
    BY <2>2 DEF BlocksHaveOneOwner
  <2>8. BlocksHaveOneOwner'
    BY <2>4, <2>5, <2>6, <2>7 DEF BlocksHaveOneOwner
  <2> QED BY <2>1, <2>2, <2>3, <2>8
<1> QED BY <1>4, <1>5

LEMMA WriteBytePreserves ==
  ASSUME NEW t \in Threads, SInv, WriteByte(t)
  PROVE  SInv'
<1> USE DEF SInv, TypeOK, WriteByte, InModel, history
<1> PICK a \in job[t].left : StoreTo(RegionOf[a]) /\ Advanced(t, a)
  OBVIOUS
<1>1. /\ RegionOf[a] \in Regions /\ job' = [job EXCEPT ![t].left = @ \ {a}]
      /\ \A u \in Threads : job'[u].o = job[u].o /\ job'[u].kind = job[u].kind
      /\ \A u \in Threads : job[u].left = {} => job'[u].left = {}
      /\ job[t].o \in alive /\ job' \in [Threads -> [kind : Exclusive \cup Shared,
                                         o : Oracles \cup {None}, left : SUBSET Addresses]]
  <2>1. RegionOf[a] \in Regions /\ job' = [job EXCEPT ![t].left = @ \ {a}]
    BY AddressesAssumption DEF Advanced
  <2>2. job[t].o \in alive
    BY DEF Jobs
  <2> QED BY <2>1, <2>2
<1>2. /\ BlocksHaveOneOwner' /\ sail_memory' \subseteq Blocks
      /\ region' \in [Blocks -> Regions \cup {None}]
  BY <1>1, StoreKeepsOwners
<1>3. TypeOK'
  BY <1>1, <1>2
<1>4. Locking' /\ Borrows'
  BY <1>1 DEF Locking, InSection, Borrows
<1>5. Jobs'
  BY <1>1 DEF Jobs, Done
<1>6. Counted' /\ Remembered' /\ FaultIsOwn'
  BY <1>1, OneInside DEF Counted, Remembered, FaultIsOwn, InSection
<1> QED BY <1>2, <1>3, <1>4, <1>5, <1>6

LEMMA ReadBytePreserves ==
  ASSUME NEW t \in Threads, SInv, ReadByte(t)
  PROVE  SInv'
<1> USE DEF SInv, TypeOK, ReadByte, InModel, heapvars, history
<1> PICK a \in job[t].left : Advanced(t, a)
  OBVIOUS
<1>1. /\ \A u \in Threads : job'[u].o = job[u].o /\ job'[u].kind = job[u].kind
      /\ \A u \in Threads : job[u].left = {} => job'[u].left = {}
      /\ job' \in [Threads -> [kind : Exclusive \cup Shared,
                               o : Oracles \cup {None}, left : SUBSET Addresses]]
  BY DEF Advanced
<1>2. TypeOK'
  BY <1>1
<1>3. Locking' /\ Borrows'
  BY <1>1 DEF Locking, InSection, Borrows
<1>4. Jobs'
  BY <1>1, SMTT(60) DEF Jobs, Done
<1>5. BlocksHaveOneOwner'
  <2>1. \A p \in Oracles : List(p)' = List(p)
    BY <1>1, WorkKeepsLists
  <2> QED BY <2>1, SameListsPreserve
<1>6. Counted' /\ Remembered' /\ FaultIsOwn'
  BY <1>1, OneInside DEF Counted, Remembered, FaultIsOwn, InSection
<1> QED BY <1>2, <1>3, <1>4, <1>5, <1>6

LEMMA StepStorePreserves ==
  ASSUME NEW t \in Threads, SInv, StepStore(t)
  PROVE  SInv'
<1> USE DEF SInv, TypeOK, StepStore, history
<1> PICK r \in Regions : StoreTo(r)
  OBVIOUS
<1>1. job[t].o \in alive
  BY DEF Jobs
<1>2. /\ BlocksHaveOneOwner' /\ sail_memory' \subseteq Blocks
      /\ region' \in [Blocks -> Regions \cup {None}]
  BY <1>1, StoreKeepsOwners
<1>3. TypeOK'
  BY <1>2
<1>4. Locking' /\ Borrows' /\ Jobs'
  BY DEF Locking, Borrows, Jobs
<1>5. Counted' /\ Remembered' /\ FaultIsOwn'
  BY DEF Counted, Remembered, FaultIsOwn
<1> QED BY <1>2, <1>3, <1>4, <1>5

\* Only the thread inside can throw, so no message another is about to return goes stale.
LEMMA StepEndsPreserves ==
  ASSUME NEW t \in Threads, SInv, StepEnds(t)
  PROVE  SInv'
<1> USE DEF SInv, TypeOK, StepEnds, InModel, heapvars
<1> PICK m \in Texts :
      /\ last_exception' = [last_exception EXCEPT ![job[t].o] = m]
      /\ thrown' = [thrown EXCEPT ![job[t].o] = m]
      /\ job' = IF m \in Messages THEN [job EXCEPT ![t].kind = "threw"] ELSE job
  BY DEF Cleared
<1>1. /\ \A u \in Threads : job'[u].o = job[u].o /\ job'[u].left = job[u].left
      /\ \A u \in Threads \ {t} : job'[u] = job[u]
      /\ job'[t].kind \in {"step", "threw"}
      /\ job' \in [Threads -> [kind : Exclusive \cup Shared,
                               o : Oracles \cup {None}, left : SUBSET Addresses]]
  BY DEF Exclusive
<1>2. TypeOK'
  BY <1>1
<1>3. Locking' /\ Borrows'
  <2>1. Locking'
    BY DEF Locking, InSection
  <2>2. Borrows'
    BY <1>1, AloneOn DEF Borrows, Exclusive
  <2> QED BY <2>1, <2>2
<1>4. Jobs'
  BY <1>1 DEF Jobs, Done
<1>5. BlocksHaveOneOwner'
  <2>1. \A p \in Oracles : List(p)' = List(p)
    BY <1>1, WorkKeepsLists
  <2> QED BY <2>1, SameListsPreserve
<1>6. Counted' /\ Remembered'
  BY DEF Counted, Remembered
<1>7. FaultIsOwn'
  BY <1>1, OneInside DEF FaultIsOwn, InSection
<1> QED BY <1>2, <1>3, <1>4, <1>5, <1>6, <1>7

LEMMA GetFaultMsgPreserves ==
  ASSUME NEW t \in Threads, SInv, GetFaultMsg(t)
  PROVE  SInv'
<1> USE DEF SInv, TypeOK, GetFaultMsg, InModel, heapvars
<1>1. job[t].o \in Oracles
  BY DEF Jobs
<1>2. TypeOK'
  BY <1>1
<1>3. (Locking /\ Borrows /\ Jobs)'
  <2>1. "leave" \in InSection /\ pc[t] \in InSection /\ pc' = [pc EXCEPT ![t] = "leave"]
        /\ job[t].kind \notin {"new", "drop", "threw"}
    BY DEF InSection
  <2> QED BY <2>1, MovePreservesControl
<1>4. BlocksHaveOneOwner'
  <2>1. \A p \in Oracles : List(p)' = List(p)
    BY WorkKeepsLists
  <2> QED BY <2>1, SameListsPreserve
<1>5. Counted' /\ Remembered'
  BY DEF Counted, Remembered
<1>6. FaultIsOwn'
  BY <1>1 DEF FaultIsOwn, Remembered
<1> QED BY <1>2, <1>3, <1>4, <1>5, <1>6

-----------------------------------------------------------------------------
(* Drop *)

\* kill_mem frees the blocks of one instance, all of them and no other's.
LEMMA FreeKeepsOwners ==
  ASSUME NEW t \in Threads, SInv, Free(t)
  PROVE  /\ BlocksHaveOneOwner'
         /\ \A p \in Oracles : {region'[b] : b \in List(p)'} =
              IF p = job[t].o THEN {} ELSE {region[b] : b \in List(p)}
<1> USE DEF SInv, TypeOK, Free, InModel
<1> DEFINE o == job[t].o
<1>1. o \in Oracles
  BY DEF Jobs
<1>2. \A p \in Oracles : (Swapped(p) <=> p = o) /\ (Swapped(p)' <=> p = o)
  <2>1. \A p \in Oracles : Swapped(p) <=> p = o
    BY SwappedIsMine DEF InCtx
  <2>2. \A p \in Oracles : Swapped(p)' <=> Swapped(p)
    BY DEF Swapped
  <2> QED BY <2>1, <2>2
<1>3. /\ List(o) = sail_memory
      /\ \A p \in Oracles : List(p)' = IF p = o THEN {} ELSE List(p)
  BY <1>1, <1>2 DEF List
<1>4. \A p \in Oracles \ {o} : List(p) \cap sail_memory = {} /\ List(p) \subseteq Blocks
  BY <1>1, <1>3 DEF BlocksHaveOneOwner, List
<1>5. \A p \in Oracles \ {o} : \A b \in List(p) : region'[b] = region[b]
  BY <1>4
<1>6. \A p, q \in Oracles : p # q => List(p)' \cap List(q)' = {}
  BY <1>3 DEF BlocksHaveOneOwner
<1>7. {b \in Blocks : region'[b] # None} = UNION {List(p)' : p \in Oracles}
  <2>1. {b \in Blocks : region[b] # None} = UNION {List(p) : p \in Oracles}
    BY DEF BlocksHaveOneOwner
  <2>2. {b \in Blocks : region'[b] # None} = {b \in Blocks : region[b] # None} \ sail_memory
    OBVIOUS
  <2>3. ASSUME NEW b
        PROVE  (\E p \in Oracles : b \in List(p)')
                 <=> (\E p \in Oracles : b \in List(p)) /\ b \notin sail_memory
    BY <1>1, <1>3, <1>4
  <2>4. UNION {List(p)' : p \in Oracles} = (UNION {List(p) : p \in Oracles}) \ sail_memory
    BY <2>3
  <2> QED BY <2>1, <2>2, <2>4
<1> HIDE DEF SInv, TypeOK, Free, InModel
<1>8. \A p \in Oracles : \A b, c \in List(p)' : region'[b] = region'[c] => b = c
  <2>1. \A p \in Oracles : \A b, c \in List(p) : region[b] = region[c] => b = c
    BY DEF SInv, BlocksHaveOneOwner
  <2> QED BY <1>3, <1>5, <2>1
<1>9. \A p \in Oracles \ alive' : List(p)' = {}
  BY <1>3 DEF SInv, Free, BlocksHaveOneOwner
<1>10. BlocksHaveOneOwner'
  BY <1>6, <1>7, <1>8, <1>9 DEF BlocksHaveOneOwner
<1>11. \A p \in Oracles : {region'[b] : b \in List(p)'} =
         IF p = o THEN {} ELSE {region[b] : b \in List(p)}
  BY <1>3, <1>5
<1> QED BY <1>10, <1>11

LEMMA FreePreserves ==
  ASSUME NEW t \in Threads, SInv, Free(t)
  PROVE  SInv'
<1> USE DEF SInv, TypeOK, Free, InModel, history
<1>1. job[t].o \in Oracles /\ job[t].o \in alive
  BY DEF Jobs, Done
<1>2. Counted' /\ rts_refcount' \in 0..Cardinality(Oracles)
  <2>1. IsFiniteSet(alive)
    BY FS_Subset, OraclesAssumption
  <2>2. Cardinality(alive') = Cardinality(alive) - 1 /\ Cardinality(alive) \in Nat
        /\ Cardinality(alive') \in Nat
    BY <1>1, <2>1, FS_RemoveElement, FS_CardinalityType
  <2>3. Cardinality(Oracles) \in Nat
    BY FS_CardinalityType, OraclesAssumption
  <2> QED BY <2>2, <2>3 DEF Counted, CountedDown
<1>3. TypeOK'
  BY <1>1, <1>2
<1>4. Locking' /\ Borrows'
  BY DEF Locking, InSection, Borrows
<1>5. Jobs'
  <2>1. \A u \in Threads \ {t} : pc[u] # "idle" => job[u].o # job[t].o
    BY AloneOn DEF Exclusive
  <2> QED BY <1>1, <2>1 DEF Jobs, Done
<1>6. Remembered' /\ FaultIsOwn'
  BY DEF Remembered, FaultIsOwn
<1> QED BY <1>2, <1>3, <1>4, <1>5, <1>6, FreeKeepsOwners

-----------------------------------------------------------------------------
(* The theorems *)

LEMMA StepPreserves == SInv /\ [Next]_vars => SInv'
<1> SUFFICES ASSUME SInv, [Next]_vars PROVE SInv'
  OBVIOUS
<1>1. ASSUME NEW t \in Threads, NEW o \in Oracles, Calls(t, o) PROVE SInv'
  BY <1>1, CallPreserves
<1>2. ASSUME NEW t \in Threads, Lock(t) \/ StepStore(t) PROVE SInv'
  BY <1>2, LockPreserves, StepStorePreserves
<1>3. ASSUME NEW t \in Threads, Section(t) PROVE SInv'
  BY <1>3, MemCtxPreserves, UnlockPreserves, NewPreserves, WriteBytePreserves,
     ReadBytePreserves, StepEndsPreserves, GetFaultMsgPreserves, FreePreserves
  DEF Section
<1>4. CASE UNCHANGED vars
  <2>1. TypeOK' /\ Counted' /\ Remembered' /\ FaultIsOwn'
    BY <1>4 DEF vars, heapvars, history, SInv, TypeOK, Counted, Remembered, FaultIsOwn
  <2>2. Locking' /\ Borrows' /\ Jobs'
    BY <1>4 DEF vars, heapvars, SInv, Locking, Borrows, Jobs
  <2>3. \A o \in Oracles : List(o)' = List(o)
    BY <1>4 DEF vars, heapvars, List, Swapped
  <2>4. BlocksHaveOneOwner'
    BY <1>4, <2>3, SameListsPreserve DEF vars, heapvars
  <2> QED BY <2>1, <2>2, <2>4 DEF SInv
<1> QED BY <1>1, <1>2, <1>3, <1>4 DEF Next

\* MODEL_LOCK, the borrows, the instance count and the block lists stay in order
\* in every state of any number of threads on any number of oracles.
THEOREM SwapInvariant == Spec => []SInv
BY InitEstablishes, StepPreserves, PTL DEF Spec

\* Every variable keeps its type; in particular rts_refcount stays between 0 and
\* the number of instances.
THEOREM SwapTypeOK == Spec => []TypeOK
<1>1. SInv => TypeOK
  BY DEF SInv
<1> QED BY <1>1, SwapInvariant, PTL

\* The swapping of lists through the process-wide global (MemCtx, kill_mem) never
\* shares, loses or doubles a block: "Memory is per instance".
THEOREM BlockOwners == Spec => []BlocksHaveOneOwner
<1>1. SInv => BlocksHaveOneOwner
  BY DEF SInv
<1> QED BY <1>1, SwapInvariant, PTL

\* cleanup_rts cannot run under a call: whoever is inside the model is on an
\* instance that exists and is counted.
THEOREM LibraryStaysUp == Spec => []LibraryIsUp
<1>1. SInv => LibraryIsUp
  <2> SUFFICES ASSUME SInv, NEW t \in Threads, pc[t] = "model", job[t].kind # "new"
               PROVE  rts_refcount > 0
    BY DEF LibraryIsUp
  <2>1. job[t].o \in alive
    BY DEF SInv, TypeOK, Jobs, Done
  <2>2. IsFiniteSet(alive)
    BY FS_Subset, OraclesAssumption DEF SInv, TypeOK
  <2>3. Cardinality(alive) \in Nat /\ Cardinality(alive) # 0
    BY <2>1, <2>2, FS_CardinalityType, FS_EmptySet
  <2> QED BY <2>3 DEF SInv, Counted
<1> QED BY <1>1, SwapInvariant, PTL

\* The message step fetches in a second section, and the one fault_msg returns,
\* is that of the instance's own last step.
THEOREM FaultsAreOwn == Spec => []FaultIsOwn
<1>1. SInv => FaultIsOwn
  BY DEF SInv
<1> QED BY <1>1, SwapInvariant, PTL

-----------------------------------------------------------------------------
(* The swapped lists implement IndependentOracles *)

\* What an instance has stored, wherever its list is.
Stored == [o \in Oracles |-> {region[b] : b \in List(o)}]

LEMMA SameListsStutter ==
  ASSUME \A o \in Oracles : List(o)' = List(o), UNCHANGED <<region, alive>>
  PROVE  UNCHANGED Promised!vars
<1>1. Stored' = Stored
  BY DEF Stored
<1> QED BY <1>1 DEF Stored, Promised!vars

\* Taking a lock, swapping lists in and out, reading and faulting touch no memory.
LEMMA ControlRefines ==
  ASSUME NEW t \in Threads, SInv,
         \/ \E o \in Oracles : Calls(t, o)
         \/ Lock(t) \/ EnterCtx(t) \/ LeaveCtx(t) \/ Unlock(t)
         \/ ReadByte(t) \/ StepEnds(t) \/ GetFaultMsg(t)
  PROVE  UNCHANGED Promised!vars
<1> USE DEF SInv, TypeOK, heapvars
<1>1. CASE \E o \in Oracles : Calls(t, o)
  <2>1. \A p \in Oracles : List(p)' = List(p)
    BY <1>1 DEF Calls, Call, Job, List, Swapped
  <2> QED BY <1>1, <2>1, SameListsStutter DEF Calls, Call
<1>2. CASE Lock(t) \/ Unlock(t)
  <2>1. \A p \in Oracles : List(p)' = List(p)
    BY <1>2 DEF Lock, Unlock, List, Swapped
  <2> QED BY <1>2, <2>1, SameListsStutter DEF Lock, Unlock
<1>3. CASE EnterCtx(t) \/ LeaveCtx(t)
  <2>1. \A p \in Oracles : List(p)' = List(p)
    BY <1>3, EnterCtxKeepsLists, LeaveCtxKeepsLists
  <2> QED BY <1>3, <2>1, SameListsStutter DEF EnterCtx, LeaveCtx
<1>4. CASE ReadByte(t) \/ StepEnds(t) \/ GetFaultMsg(t)
  <2>1. /\ pc[t] = "model" /\ pc' = [pc EXCEPT ![t] = "leave"]
        /\ \A u \in Threads : job'[u].o = job[u].o
        /\ UNCHANGED <<sail_memory, memory, region, alive>>
    BY <1>4 DEF ReadByte, Advanced, StepEnds, GetFaultMsg, InModel
  <2>2. \A p \in Oracles : List(p)' = List(p)
    BY <2>1, WorkKeepsLists
  <2> QED BY <2>1, <2>2, SameListsStutter
<1> QED BY <1>1, <1>2, <1>3, <1>4

\* The caller's bytes and the program's stores reach the oracle of the call alone.
LEMMA StoreRefines ==
  ASSUME NEW t \in Threads, SInv, WriteByte(t) \/ StepStore(t)
  PROVE  Promised!Next
<1>1. PICK r \in Regions :
        /\ pc[t] = "model" /\ StoreTo(r)
        /\ pc' \in {pc, [pc EXCEPT ![t] = "leave"]}
        /\ \A u \in Threads : job'[u].o = job[u].o
        /\ UNCHANGED <<memory, alive>> /\ job[t].o \in alive
  <2>1. CASE WriteByte(t)
    <3>1. PICK a \in job[t].left : StoreTo(RegionOf[a]) /\ Advanced(t, a)
      BY <2>1 DEF WriteByte
    <3>2. RegionOf[a] \in Regions
      BY AddressesAssumption DEF SInv, TypeOK
    <3> QED BY <2>1, <3>1, <3>2 DEF SInv, TypeOK, Jobs, WriteByte, InModel, Advanced
  <2>2. CASE StepStore(t)
    BY <2>2 DEF SInv, TypeOK, Jobs, StepStore
  <2> QED BY <2>1, <2>2
<1>2. \A p \in Oracles : {region'[b] : b \in List(p)'} =
        IF p = job[t].o THEN {region[b] : b \in List(p)} \cup {r}
        ELSE {region[b] : b \in List(p)}
  BY <1>1, StoreKeepsOwners
<1>3. Stored' = [Stored EXCEPT ![job[t].o] = @ \cup {r}]
  BY <1>2 DEF Stored
<1>4. Promised!Store(job[t].o, r)
  BY <1>1, <1>3 DEF Stored, Promised!Store
<1>5. job[t].o \in Oracles
  BY <1>1 DEF SInv, TypeOK
<1> QED BY <1>4, <1>5 DEF Promised!Next

LEMMA NewRefines ==
  ASSUME NEW t \in Threads, SInv, New(t)
  PROVE  Promised!Next
<1> USE DEF SInv, TypeOK, New, InModel
<1>1. job[t].o \in Oracles /\ job[t].o \notin alive
  BY DEF Jobs, Done
<1>2. \A p \in Oracles : List(p)' = List(p)
  BY WorkKeepsLists
<1>3. Stored' = Stored
  BY <1>2 DEF Stored
<1>4. Promised!Create(job[t].o)
  BY <1>1, <1>3 DEF Stored, Promised!Create
<1> QED BY <1>1, <1>4 DEF Promised!Next

LEMMA FreeRefines ==
  ASSUME NEW t \in Threads, SInv, Free(t)
  PROVE  Promised!Next
<1> PICK o \in Oracles : o = job[t].o /\ o \in alive
  BY DEF SInv, TypeOK, Free, InModel, Jobs, Done
<1>1. \A p \in Oracles : {region'[b] : b \in List(p)'} =
        IF p = o THEN {} ELSE {region[b] : b \in List(p)}
  BY FreeKeepsOwners
<1>2. Stored' = [Stored EXCEPT ![o] = {}]
  BY <1>1 DEF Stored
<1>3. Promised!Destroy(o)
  BY <1>2 DEF Free, Stored, Promised!Destroy
<1> QED BY <1>3 DEF Promised!Next

LEMMA StepRefines ==
  ASSUME SInv, [Next]_vars
  PROVE  [Promised!Next]_(Promised!vars)
<1>1. CASE UNCHANGED vars
  <2>1. \A o \in Oracles : List(o)' = List(o)
    BY <1>1 DEF vars, heapvars, List, Swapped
  <2> QED BY <1>1, <2>1, SameListsStutter DEF vars, heapvars
<1>2. CASE Next
  <2> PICK t \in Threads :
        (\E o \in Oracles : Calls(t, o)) \/ Lock(t) \/ StepStore(t) \/ Section(t)
    BY <1>2 DEF Next
  <2> QED BY ControlRefines, StoreRefines, NewRefines, FreeRefines DEF Section
<1> QED BY <1>1, <1>2

\* "Instances are independent": oracles that share the runtime's one global list
\* behave as if each had a memory of its own, whatever the threads do.
THEOREM SwapImplementsIndependentOracles == Spec => ImplementsIndependentOracles
<1>1. Init => Promised!Init
  <2> SUFFICES ASSUME Init PROVE Promised!Init
    OBVIOUS
  <2>1. Stored = [o \in Oracles |-> {}]
    BY DEF Init, Stored, List, Swapped
  <2> QED BY <2>1 DEF Init, Stored, Promised!Init
<1>2. SInv /\ [Next]_vars => [Promised!Next]_(Promised!vars)
  BY StepRefines
<1> QED BY <1>1, <1>2, SwapInvariant, PTL
        DEF Spec, ImplementsIndependentOracles, Promised!Spec
=============================================================================
