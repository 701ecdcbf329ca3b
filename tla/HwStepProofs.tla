---------------------------- MODULE HwStepProofs ----------------------------
(***************************************************************************)
(* Proofs about HwStep, for either driver, any host, any program below the  *)
(* stubs and any retry bound.                                               *)
(***************************************************************************)
EXTENDS HwStep, TLAPS

-----------------------------------------------------------------------------
(* The inductive invariant *)

Same(r) == /\ r.rip = before.rip /\ r.rsp = before.rsp
           /\ get_rflags(r) = get_rflags(before)

Past(r) == /\ r.rip \in {before.rip, before.rip + 1} /\ r.rsp = before.rsp
           /\ get_rflags(r) = get_rflags(before)

\* The registers in a frame whose RIP is word n + 1.
Pushed(n) == [rip |-> ist[n + 1], rsp |-> ist[n + 4], flags |-> ist[n + 3]]

\* The vCPU halted in the stub of v.
InStub(v) == exit.why = "halt" /\ regs.rip = STUB_BASE + v * STUB_STRIDE + 1 /\ Len(ist) \in {5, 6}

Intercepted(v) == exit.why = "exception" /\ exit.vec = v /\ backend = "whp"

\* What the exit after a single instruction tells about it.
Tells(i) ==
  /\ i.cls \in {"plain", "rep"} =>
       \/ exit.why = "debug" /\ Past(regs)
       \/ Intercepted(1) /\ Past(regs)
       \/ InStub(1) /\ backend = "whp" /\ Past(Pushed(0))
  /\ i.cls = "movss" => FALSE
  /\ i.cls = "hlt" => exit.why = "halt" /\ stub_vector(regs.rip) = NoVector /\ Past(regs)
  /\ i.cls = "fault" =>
       \/ Intercepted(i.vec) /\ exit.err = i.err /\ Same(regs)
       \/ /\ InStub(i.vec)
          /\ IF has_error_code(i.vec) THEN ist[1] = i.err /\ Same(Pushed(1)) ELSE Same(Pushed(0))
  /\ i.cls = "trap" => Intercepted(i.vec) \/ InStub(i.vec)
  /\ i.cls = "int" => InStub(i.vec)
  /\ i.cls = "outside" => exit.why = "other" /\ Same(regs)

\* In the guest TF is set, and nothing but a MOV SS has executed.
Running ==
  pc = "run" =>
    /\ Armed(regs.flags) /\ regs.rsp = before.rsp
    /\ get_rflags(regs) = get_rflags(before)
    /\ \/ ran = <<>> /\ regs.rip = before.rip
       \/ Len(ran) = 1 /\ ran[1].cls = "movss"

Exited ==
  pc = "exit" =>
    /\ exit.why # "none"
    /\ \/ Len(ran) = 1 /\ Tells(ran[1])
       \/ Len(ran) = 2 /\ ran[1].cls = "movss"
    /\ exit.why = "halt" => stub_vector(regs.rip) = NoVector \/ Len(ist) \in {5, 6}

Hosts == backend = "kvm" => intercepts = {}

\* After the step: what retired moved RIP only, and an exit without a device failed.
Returned ==
  /\ RanOne({"plain", "rep", "hlt"}) => Past(regs)
  /\ RanOne({"outside"}) => outcome.kind = "fault"

HInv ==
  /\ TypeOK
  /\ Hosts /\ Running /\ Exited
  /\ pc = "api" => ran = <<>>
  /\ FaultRestoresState /\ OutcomeIsExact /\ Returned /\ NoRunaway

-----------------------------------------------------------------------------
(* Flags, stubs and frames *)

LEMMA FlagFacts ==
  ASSUME NEW f \in Nat
  PROVE  /\ Masked(f) \in Nat /\ Masked(Masked(f)) = Masked(f)
         /\ Masked(Masked(f) + TF) = Masked(f) /\ Armed(Masked(f) + TF)
         /\ Masked(Masked(f) + RF + (f % 2)) = Masked(f)
         /\ Masked(f) + RF + (f % 2) \in Nat
         /\ Armed(f) => f - TF \in Nat /\ Masked(f - TF) = Masked(f)
         /\ ~Armed(f) => Masked(f + TF) = Masked(f) /\ Armed(f + TF)
BY DEF Masked, Armed, TF, RF

LEMMA StubFacts ==
  ASSUME NEW v \in Vectors
  PROVE  /\ STUB_BASE + v * STUB_STRIDE + 1 \in Nat
         /\ stub_vector(STUB_BASE + v * STUB_STRIDE + 1) = v
         /\ v # NoVector
BY DEF Vectors, stub_vector, STUB_BASE, STUB_STRIDE, STUB_AREA, CTRL_BASE, RAM_SIZE, NoVector

LEMMA BelowStubs ==
  ASSUME NEW r \in 0..MaxRip
  PROVE  stub_vector(r) = NoVector
<1>1. r \in Nat /\ r <= STUB_BASE
  <2>1. STUB_BASE \in Nat
    BY DEF STUB_BASE, CTRL_BASE, RAM_SIZE
  <2> QED BY <2>1, BoundsAssumption
<1> QED BY <1>1 DEF stub_vector, STUB_BASE, STUB_STRIDE, STUB_AREA, CTRL_BASE, RAM_SIZE, NoVector

\* A delivery leaves the interrupted state where unwind_frame will look for it.
LEMMA DeliverFacts ==
  ASSUME TypeOK, NEW v \in Vectors, NEW r \in Nat, NEW f \in Nat,
         NEW c \in {<<>>} \cup {<<e>> : e \in Nat}, Deliver(v, r, f, c)
  PROVE  /\ ist' \in Seq(Nat) /\ regs' \in [rip : Nat, rsp : Nat, flags : Nat]
         /\ pc' = "exit" /\ exit' = [why |-> "halt", vec |-> NoVector, err |-> 0]
         /\ InStub(v)'
         /\ c = <<>> => Pushed(0)' = [rip |-> r, rsp |-> regs.rsp, flags |-> f]
         /\ \A e \in Nat : c = <<e>> =>
              ist'[1] = e /\ Pushed(1)' = [rip |-> r, rsp |-> regs.rsp, flags |-> f]
<1> DEFINE frame == c \o <<r, SEL_CODE64, f, regs.rsp, SEL_DATA>>
<1>1. /\ ist' = frame /\ pc' = "exit"
      /\ exit' = [why |-> "halt", vec |-> NoVector, err |-> 0]
      /\ regs' = [rip |-> STUB_BASE + v * STUB_STRIDE + 1,
                  rsp |-> IST_STACK_TOP - 8 * Len(frame), flags |-> Masked(regs.flags)]
  BY DEF Deliver
<1>2. regs.rsp \in Nat /\ regs.flags \in Nat /\ SEL_CODE64 \in Nat /\ SEL_DATA \in Nat
  BY DEF TypeOK, SEL_CODE64, SEL_DATA
<1>3. ASSUME c = <<>>
      PROVE  frame \in Seq(Nat) /\ Len(frame) = 5 /\ frame[1] = r /\ frame[3] = f
             /\ frame[4] = regs.rsp
  BY <1>2, <1>3
<1>4. ASSUME NEW e \in Nat, c = <<e>>
      PROVE  frame \in Seq(Nat) /\ Len(frame) = 6 /\ frame[1] = e /\ frame[2] = r
             /\ frame[4] = f /\ frame[5] = regs.rsp
  BY <1>2, <1>4
<1>5. c = <<>> \/ \E e \in Nat : c = <<e>>
  OBVIOUS
<1> HIDE DEF frame
<1>6. frame \in Seq(Nat) /\ Len(frame) \in {5, 6}
  BY <1>3, <1>4, <1>5
<1>7. STUB_BASE + v * STUB_STRIDE + 1 \in Nat /\ IST_STACK_TOP - 8 * Len(frame) \in Nat
      /\ Masked(regs.flags) \in Nat
  <2>1. IST_STACK_TOP - 8 * Len(frame) \in Nat
    <3>1. \A n \in {5, 6} : IST_STACK_TOP - 8 * n \in Nat
      BY DEF IST_STACK_TOP, CTRL_BASE, RAM_SIZE
    <3> QED BY <3>1, <1>6
  <2> QED BY <2>1, <1>2, StubFacts, FlagFacts
<1>8. regs' \in [rip : Nat, rsp : Nat, flags : Nat]
  BY <1>1, <1>7
<1>9. InStub(v)'
  <2>1. exit'.why = "halt" /\ regs'.rip = STUB_BASE + v * STUB_STRIDE + 1
    BY <1>1
  <2> QED BY <2>1, <1>1, <1>6 DEF InStub
<1>10. c = <<>> => Pushed(0)' = [rip |-> r, rsp |-> regs.rsp, flags |-> f]
  BY <1>1, <1>3 DEF Pushed
<1>11. ASSUME NEW e \in Nat, c = <<e>>
       PROVE  ist'[1] = e /\ Pushed(1)' = [rip |-> r, rsp |-> regs.rsp, flags |-> f]
  BY <1>1, <1>4, <1>11 DEF Pushed
<1> QED BY <1>1, <1>6, <1>8, <1>9, <1>10, <1>11

LEMMA InstrFacts ==
  ASSUME NEW i \in Instrs
  PROVE  /\ i.cls \in Classes /\ i.vec \in Vectors /\ i.err \in Nat
         /\ i.cls \in {"fault", "trap"} => i.vec # 1
BY InstrsAssumption

LEMMA ResultFacts ==
  /\ Retired \in Results /\ NoResult \in Results /\ NoFault \in Results
  /\ \A v \in Vectors \cup {NoVector}, e \in Nat :
       /\ Faulted(v, e) \in Results
       /\ Faulted(v, e).kind = "fault" /\ Faulted(v, e).vec = v /\ Faulted(v, e).err = e
BY DEF Retired, NoResult, NoFault, Faulted, Results, Vectors, NoVector

LEMMA StubRange ==
  ASSUME NEW r \in Nat
  PROVE  stub_vector(r) \in Vectors \cup {NoVector}
<1>1. CASE r > STUB_BASE /\ r <= STUB_BASE + STUB_AREA
  <2> DEFINE n == r - 1 - STUB_BASE
  <2>1. stub_vector(r) = n \div 16
    BY <1>1 DEF stub_vector, STUB_STRIDE
  <2>2. n \in 0..4095
    BY <1>1 DEF STUB_BASE, STUB_STRIDE, STUB_AREA, CTRL_BASE, RAM_SIZE
  <2> HIDE DEF n
  <2>3. n \div 16 \in 0..255
    BY <2>2
  <2> QED BY <2>1, <2>3 DEF Vectors
<1> QED BY <1>1 DEF stub_vector

-----------------------------------------------------------------------------
(* What returning and leaving the guest come down to *)

\* A step that returns preserves the invariant if what it returns is right.
LEMMA ReturnKeeps ==
  ASSUME HInv, NEW o \in Results, NEW fault \in Results, Return(o, fault),
         regs' \in [rip : Nat, rsp : Nat, flags : Nat],
         FaultRestoresState', OutcomeIsExact', Returned'
  PROVE  HInv'
<1>1. /\ pc' = "returned" /\ outcome' = o /\ lastFault' = fault
      /\ exit' = NoExit /\ tries' = 0 /\ ist' = <<>>
      /\ UNCHANGED <<backend, intercepts, before, ran>>
  BY DEF Return, fixed, history
<1>2. TypeOK'
  <2>1. NoExit \in [why : {"none", "debug", "exception", "halt", "other"},
                    vec : Vectors \cup {NoVector}, err : Nat]
    BY DEF NoExit
  <2>2. 0 \in 0..(RunLimit - 1)
    BY BoundsAssumption
  <2> QED BY <1>1, <2>1, <2>2 DEF HInv, TypeOK
<1>3. Hosts' /\ NoRunaway'
  BY <1>1 DEF HInv, Hosts, NoRunaway
<1>4. Running' /\ Exited' /\ (pc = "api" => ran = <<>>)'
  BY <1>1 DEF Running, Exited
<1> QED BY <1>2, <1>3, <1>4 DEF HInv

\* So does an instruction that ends the run, if the exit tells what it was.
LEMMA ExitKeeps ==
  ASSUME HInv, NEW i \in Instrs, NEW classes, Runs(i, classes),
         pc' = "exit",
         exit' \in [why : {"debug", "exception", "halt", "other"},
                    vec : Vectors \cup {NoVector}, err : Nat],
         regs' \in [rip : Nat, rsp : Nat, flags : Nat], ist' \in Seq(Nat),
         exit'.why = "halt" => stub_vector(regs'.rip) = NoVector \/ Len(ist') \in {5, 6},
         ran = <<>> => Tells(i)'
  PROVE  HInv'
<1>1. /\ pc = "run" /\ ran' = Append(ran, i)
      /\ UNCHANGED <<backend, intercepts, tries, outcome, lastFault, before>>
  BY DEF Runs, fixed, results
<1>2. TypeOK'
  BY <1>1 DEF HInv, TypeOK
<1>3. \/ ran = <<>>
      \/ Len(ran) = 1 /\ ran[1].cls = "movss"
  BY <1>1 DEF HInv, Running
<1>4. \/ ran = <<>> /\ Len(ran') = 1 /\ ran'[1] = i
      \/ Len(ran') = 2 /\ ran'[1].cls = "movss"
  <2>1. ran \in Seq(Instrs)
    BY DEF HInv, TypeOK
  <2>2. CASE ran = <<>>
    BY <2>2, <1>1
  <2>3. CASE Len(ran) = 1 /\ ran[1].cls = "movss"
    <3>1. /\ Len(Append(ran, i)) = Len(ran) + 1
          /\ \A k \in 1..Len(ran) : Append(ran, i)[k] = ran[k]
      BY <2>1
    <3>2. Len(Append(ran, i)) = 2 /\ Append(ran, i)[1] = ran[1]
      BY <2>3, <3>1
    <3> QED BY <3>2, <2>3, <1>1
  <2> QED BY <2>2, <2>3, <1>3
<1>5. Exited'
  BY <1>4 DEF Exited
<1>6. NoRunaway' /\ Hosts'
  BY <1>1, <1>4 DEF NoRunaway, HInv, Hosts
<1>7. Running' /\ FaultRestoresState' /\ OutcomeIsExact' /\ Returned' /\ (pc = "api" => ran = <<>>)'
  BY DEF Running, FaultRestoresState, OutcomeIsExact, Returned, RanOne
<1> QED BY <1>2, <1>5, <1>6, <1>7 DEF HInv

-----------------------------------------------------------------------------
(* The caller's writes, arming, and runs that were cut short *)

LEMMA KeptFacts ==
  ASSUME TypeOK
  PROVE  /\ KeptFlags \in Nat /\ Masked(KeptFlags) = Masked(regs.flags)
         /\ Arm \in Nat /\ Masked(Arm) = Masked(regs.flags)
         /\ backend \in {"kvm", "whp"} => Armed(Arm)
<1> DEFINE f == regs.flags
<1>1. f \in Nat
  BY DEF TypeOK
<1> HIDE DEF f
<1>2. /\ Masked(f) + TF \in Nat /\ f + TF \in Nat
      /\ Masked(f) \in Nat /\ Masked(Masked(f) + TF) = Masked(f) /\ Armed(Masked(f) + TF)
      /\ Armed(f) => f - TF \in Nat /\ Masked(f - TF) = Masked(f)
      /\ ~Armed(f) => Masked(f + TF) = Masked(f) /\ Armed(f + TF)
  BY <1>1, FlagFacts DEF TF
<1>3. /\ KeptFlags = IF backend = "kvm" /\ Armed(f) THEN f - TF ELSE f
      /\ Arm = IF backend = "kvm" /\ ~Armed(f) THEN f + TF
               ELSE IF backend = "kvm" THEN f ELSE Masked(f) + TF
  BY DEF KeptFlags, Arm, f
<1> QED BY <1>1, <1>2, <1>3 DEF f

LEMMA AssignKeeps ==
  ASSUME HInv, Callable, Called, regs' \in [rip : Nat, rsp : Nat, flags : Nat]
  PROVE  HInv'
<1>1. /\ pc' = "api" /\ before' = regs' /\ ran' = <<>>
      /\ UNCHANGED <<backend, intercepts, ist, exit, tries, outcome, lastFault>>
  BY DEF Called, fixed, results
<1>2. TypeOK'
  BY <1>1 DEF HInv, TypeOK
<1>3. Hosts' /\ Running' /\ Exited'
  BY <1>1 DEF HInv, Hosts, Running, Exited
<1>4. FaultRestoresState' /\ OutcomeIsExact' /\ Returned' /\ NoRunaway'
  BY <1>1 DEF FaultRestoresState, OutcomeIsExact, Returned, NoRunaway, RanOne
<1> QED BY <1>1, <1>2, <1>3, <1>4 DEF HInv

LEMMA WritesKeep ==
  ASSUME HInv,
         \/ \E r \in 0..MaxRip : set_rip(r)
         \/ \E v \in Rsps : set_rsp(v)
         \/ \E f \in UserFlags : set_rflags(f)
  PROVE  HInv'
<1>1. TypeOK
  BY DEF HInv
<1>2. regs \in [rip : Nat, rsp : Nat, flags : Nat] /\ KeptFlags \in Nat
  BY <1>1, KeptFacts DEF TypeOK
<1>3. CASE \E r \in 0..MaxRip : set_rip(r)
  <2>1. PICK r \in 0..MaxRip : set_rip(r)
    BY <1>3
  <2>2. r \in Nat
    OBVIOUS
  <2> QED BY <2>1, <2>2, <1>2, AssignKeeps DEF set_rip
<1>4. CASE \E v \in Rsps : set_rsp(v)
  <2>1. PICK v \in Rsps : set_rsp(v)
    BY <1>4
  <2>2. v \in Nat
    BY BoundsAssumption
  <2> QED BY <2>1, <2>2, <1>2, AssignKeeps DEF set_rsp
<1>5. CASE \E f \in UserFlags : set_rflags(f)
  <2>1. PICK f \in UserFlags : set_rflags(f)
    BY <1>5
  <2>2. Masked(f) \in Nat
    BY FlagFacts DEF UserFlags
  <2> QED BY <2>1, <2>2, <1>2, AssignKeeps DEF set_rflags
<1> QED BY <1>3, <1>4, <1>5

LEMMA BeginKeeps ==
  ASSUME HInv, BeginStep
  PROVE  HInv'
<1>1. /\ regs' = [regs EXCEPT !.flags = Arm] /\ pc' = "run" /\ lastFault' = NoFault
      /\ before' = regs /\ ran' = <<>>
      /\ UNCHANGED <<backend, intercepts, ist, exit, tries, outcome>>
  BY DEF BeginStep, fixed
<1>2. TypeOK /\ Hosts /\ backend \in {"kvm", "whp"}
  BY BoundsAssumption DEF HInv, TypeOK
<1>3. /\ regs \in [rip : Nat, rsp : Nat, flags : Nat]
      /\ Arm \in Nat /\ Masked(Arm) = Masked(regs.flags) /\ Armed(Arm)
  BY <1>2, KeptFacts DEF TypeOK
<1>4. TypeOK'
  <2>1. regs' \in [rip : Nat, rsp : Nat, flags : Nat]
    BY <1>1, <1>3
  <2>2. lastFault' \in Results /\ ran' \in Seq(Instrs)
    BY <1>1, ResultFacts
  <2>3. pc' \in {"api", "run", "exit", "returned"}
    BY <1>1
  <2> QED BY <1>1, <1>2, <2>1, <2>2, <2>3 DEF TypeOK
<1>5. Running'
  BY <1>1, <1>3 DEF Running, get_rflags
<1>6. Hosts' /\ Exited' /\ NoRunaway'
  BY <1>1, <1>2 DEF Hosts, Exited, NoRunaway
<1>7. FaultRestoresState' /\ OutcomeIsExact' /\ Returned' /\ (pc = "api" => ran = <<>>)'
  BY <1>1 DEF FaultRestoresState, OutcomeIsExact, Returned, RanOne
<1> QED BY <1>4, <1>5, <1>6, <1>7 DEF HInv

LEMMA BeginFailsKeeps ==
  ASSUME HInv, BeginFails
  PROVE  HInv'
<1>1. /\ pc' = "returned" /\ outcome' = Faulted(NoVector, 0) /\ lastFault' = NoFault
      /\ before' = regs /\ ran' = <<>>
      /\ UNCHANGED <<backend, intercepts, regs, ist, exit, tries>>
  BY DEF BeginFails, fixed
<1>2. TypeOK'
  <2>1. outcome' \in Results /\ lastFault' \in Results /\ ran' \in Seq(Instrs)
    <3>1. Faulted(NoVector, 0) \in Results
      BY ResultFacts
    <3> QED BY <1>1, <3>1, ResultFacts
  <2>2. pc' \in {"api", "run", "exit", "returned"}
    BY <1>1
  <2> QED BY <1>1, <2>1, <2>2 DEF HInv, TypeOK
<1>3. Hosts' /\ Running' /\ Exited' /\ NoRunaway'
  BY <1>1 DEF HInv, Hosts, Running, Exited, NoRunaway
<1>4. FaultRestoresState' /\ OutcomeIsExact' /\ Returned'
  BY <1>1 DEF FaultRestoresState, OutcomeIsExact, Returned, RanOne, SameProgramState
<1> QED BY <1>1, <1>2, <1>3, <1>4 DEF HInv

\* Before the guest has executed anything, failing leaves the caller's view alone.
LEMMA CutShortKeeps ==
  ASSUME HInv, pc = "run", ran = <<>>, Return(Faulted(NoVector, 0), NoFault), UNCHANGED regs
  PROVE  HInv'
<1>1. pc' = "returned" /\ outcome' = Faulted(NoVector, 0) /\ UNCHANGED <<before, ran>>
  BY DEF Return, history
<1>2. SameProgramState'
  BY <1>1 DEF HInv, Running, SameProgramState, get_rflags
<1>3. FaultRestoresState' /\ OutcomeIsExact' /\ Returned'
  BY <1>1, <1>2 DEF FaultRestoresState, OutcomeIsExact, Returned, RanOne
<1> QED BY <1>3, ReturnKeeps, ResultFacts DEF HInv, TypeOK

LEMMA CanceledKeeps ==
  ASSUME HInv, Canceled
  PROVE  HInv'
<1>1. CASE /\ tries + 1 < RunLimit /\ tries' = tries + 1
           /\ UNCHANGED <<fixed, regs, ist, pc, exit, results, history>>
  <2>1. UNCHANGED <<backend, intercepts, regs, ist, pc, exit, outcome, lastFault, before, ran>>
    BY <1>1 DEF fixed, results, history
  <2>2. TypeOK'
    BY <1>1, <2>1, BoundsAssumption DEF HInv, TypeOK
  <2>3. Hosts' /\ Running' /\ Exited' /\ NoRunaway'
    <3>1. \A i : Tells(i)' = Tells(i)
      BY <2>1 DEF Tells, Intercepted, InStub, Same, Past, Pushed
    <3> QED BY <3>1, <2>1 DEF HInv, Hosts, Running, Exited, NoRunaway
  <2>4. FaultRestoresState' /\ OutcomeIsExact' /\ Returned'
    BY <2>1 DEF HInv, FaultRestoresState, OutcomeIsExact, Returned, Past, RanOne, SameProgramState
  <2> QED BY <2>1, <2>2, <2>3, <2>4 DEF HInv
<1>2. CASE Return(Faulted(NoVector, 0), NoFault) /\ UNCHANGED regs
  BY <1>2, CutShortKeeps DEF Canceled
<1> QED BY <1>1, <1>2 DEF Canceled

-----------------------------------------------------------------------------
(* The guest's instructions *)

\* What an instruction finds when it starts.
LEMMA RunsFacts ==
  ASSUME HInv, NEW i \in Instrs, NEW classes, Runs(i, classes)
  PROVE  /\ i.cls \in classes /\ Armed(regs.flags)
         /\ regs \in [rip : Nat, rsp : Nat, flags : Nat] /\ ist \in Seq(Nat)
         /\ before' = before /\ backend' = backend
         /\ regs.rsp = before.rsp /\ get_rflags(regs) = get_rflags(before)
         /\ ran = <<>> => regs.rip = before.rip /\ Same(regs)
BY DEF HInv, TypeOK, Running, Runs, fixed, results, Same

\* An exit without a delivery: only the reason and the registers matter.
LEMMA ExitWithKeeps ==
  ASSUME HInv, NEW i \in Instrs, NEW classes, Runs(i, classes),
         NEW why \in {"debug", "exception", "halt", "other"},
         NEW v \in Vectors \cup {NoVector}, NEW e \in Nat,
         NEW r \in [rip : Nat, rsp : Nat, flags : Nat], ExitWith(why, v, e, r),
         why = "halt" => stub_vector(r.rip) = NoVector,
         ran = <<>> => Tells(i)'
  PROVE  HInv'
<1>1. pc' = "exit" /\ exit' = [why |-> why, vec |-> v, err |-> e] /\ regs' = r /\ ist' = ist
  BY DEF ExitWith
<1>2. exit' \in [why : {"debug", "exception", "halt", "other"},
                 vec : Vectors \cup {NoVector}, err : Nat]
  BY <1>1
<1>3. exit'.why = "halt" => stub_vector(regs'.rip) = NoVector
  BY <1>1
<1>4. ist' \in Seq(Nat)
  BY <1>1 DEF HInv, TypeOK
<1> QED BY <1>1, <1>2, <1>3, <1>4, ExitKeeps

LEMMA DeliverKeeps ==
  ASSUME HInv, NEW i \in Instrs, NEW classes, Runs(i, classes),
         NEW v \in Vectors, NEW r \in Nat, NEW f \in Nat,
         NEW c \in {<<>>} \cup {<<e>> : e \in Nat}, Deliver(v, r, f, c),
         ran = <<>> => Tells(i)'
  PROVE  HInv'
<1>1. /\ ist' \in Seq(Nat) /\ regs' \in [rip : Nat, rsp : Nat, flags : Nat]
      /\ pc' = "exit" /\ exit' = [why |-> "halt", vec |-> NoVector, err |-> 0] /\ InStub(v)'
  BY DeliverFacts DEF HInv
<1>2. exit' \in [why : {"debug", "exception", "halt", "other"},
                 vec : Vectors \cup {NoVector}, err : Nat]
  BY <1>1
<1>3. Len(ist') \in {5, 6}
  BY <1>1 DEF InStub
<1> QED BY <1>1, <1>2, <1>3, ExitKeeps

LEMMA RetireKeeps ==
  ASSUME HInv, NEW i \in Instrs, RetireInstr(i)
  PROVE  HInv'
<1> DEFINE next == IF i.cls = "rep" THEN regs.rip ELSE regs.rip + 1
           after == [regs EXCEPT !.rip = next]
           classes == {"plain", "rep"} \cup IF InShadow THEN {"movss"} ELSE {}
<1>1. Runs(i, classes)
  BY DEF RetireInstr
<1> HIDE DEF classes
<1>2. /\ Armed(regs.flags) /\ regs \in [rip : Nat, rsp : Nat, flags : Nat]
      /\ before' = before /\ backend' = backend
      /\ ran = <<>> => Same(regs)
  BY <1>1, RunsFacts
<1>3. next \in Nat /\ after \in [rip : Nat, rsp : Nat, flags : Nat]
  BY <1>2
<1>4. ran = <<>> => i.cls \in {"plain", "rep"} /\ Past(after)
  <2>1. ran = <<>> => ~InShadow
    BY DEF InShadow
  <2>2. ran = <<>> => i.cls \in {"plain", "rep"}
    BY <1>1, <2>1 DEF Runs, classes
  <2>3. ran = <<>> => Past(after)
    BY <1>2, <1>3 DEF Same, Past, get_rflags
  <2> QED BY <2>2, <2>3
<1>5. CASE backend = "kvm" /\ ExitWith("debug", NoVector, 0, after)
  <2>1. ran = <<>> => Tells(i)'
    <3>1. regs' = after /\ exit'.why = "debug"
      BY <1>5 DEF ExitWith
    <3>2. Past(after) => Past(regs)'
      BY <3>1, <1>2 DEF Past
    <3> QED BY <3>1, <3>2, <1>4 DEF Tells
  <2> QED BY <2>1, <1>1, <1>3, <1>5, ExitWithKeeps
<1>6. CASE 1 \in intercepts /\ ExitWith("exception", 1, 0, after)
  <2>1. ran = <<>> => Tells(i)'
    <3>1. regs' = after /\ exit'.why = "exception" /\ exit'.vec = 1
      BY <1>6 DEF ExitWith
    <3>2. Past(after) => Past(regs)'
      BY <3>1, <1>2 DEF Past
    <3>3. backend = "whp"
      BY <1>6, BoundsAssumption DEF HInv, Hosts, TypeOK
    <3> QED BY <3>1, <3>2, <3>3, <1>2, <1>4 DEF Tells, Intercepted
  <2>2. 1 \in Vectors \cup {NoVector}
    BY DEF Vectors
  <2> QED BY <2>1, <2>2, <1>1, <1>3, <1>6, ExitWithKeeps
<1>7. CASE backend = "whp" /\ Deliver(1, next, regs.flags, <<>>)
  <2>1. regs.flags \in Nat /\ 1 \in Vectors
    BY <1>2 DEF Vectors
  <2>2. InStub(1)' /\ Pushed(0)' = [rip |-> next, rsp |-> regs.rsp, flags |-> regs.flags]
    BY <2>1, <1>3, <1>7, DeliverFacts DEF HInv
  <2>3. ran = <<>> => Tells(i)'
    <3>1. after.rip = next /\ after.rsp = regs.rsp /\ after.flags = regs.flags
      BY <1>2
    <3>2. Past(after) => Past(Pushed(0))'
      BY <2>2, <3>1, <1>2 DEF Past, get_rflags
    <3> QED BY <2>2, <3>2, <1>2, <1>4, <1>7 DEF Tells
  <2> QED BY <2>1, <2>3, <1>1, <1>3, <1>7, DeliverKeeps
<1> QED BY <1>2, <1>5, <1>6, <1>7 DEF RetireInstr

LEMMA StackSegmentKeeps ==
  ASSUME HInv, NEW i \in Instrs, LoadStackSegment(i)
  PROVE  HInv'
<1>1. /\ Runs(i, {"movss"}) /\ ~InShadow
      /\ regs' = [regs EXCEPT !.rip = @ + 1] /\ UNCHANGED <<ist, pc, exit>>
  BY DEF LoadStackSegment
<1>2. /\ pc = "run" /\ ran' = Append(ran, i) /\ i.cls = "movss"
      /\ UNCHANGED <<backend, intercepts, tries, outcome, lastFault, before>>
  BY <1>1 DEF Runs, fixed, results
<1>3. ran = <<>> /\ Len(ran') = 1 /\ ran'[1] = i
  BY <1>1, <1>2 DEF HInv, Running, InShadow
<1>4. regs \in [rip : Nat, rsp : Nat, flags : Nat]
  BY DEF HInv, TypeOK
<1>5. TypeOK'
  <2>1. ran' \in Seq(Instrs)
    BY <1>2 DEF HInv, TypeOK
  <2>2. regs' \in [rip : Nat, rsp : Nat, flags : Nat]
    BY <1>1, <1>4
  <2> QED BY <2>1, <2>2, <1>1, <1>2 DEF HInv, TypeOK
<1>6. Running'
  BY <1>1, <1>2, <1>3, <1>4 DEF HInv, Running, get_rflags
<1>7. Hosts' /\ Exited' /\ NoRunaway'
  BY <1>1, <1>2, <1>3 DEF HInv, Hosts, Exited, NoRunaway
<1>8. FaultRestoresState' /\ OutcomeIsExact' /\ Returned' /\ (pc = "api" => ran = <<>>)'
  BY <1>1, <1>2 DEF FaultRestoresState, OutcomeIsExact, Returned, RanOne
<1> QED BY <1>5, <1>6, <1>7, <1>8 DEF HInv

LEMMA OwnHaltKeeps ==
  ASSUME HInv, NEW i \in Instrs, OwnHalt(i)
  PROVE  HInv'
<1> DEFINE after == [regs EXCEPT !.rip = @ + 1]
<1>1. Runs(i, {"hlt"}) /\ regs.rip < MaxRip /\ ExitWith("halt", NoVector, 0, after)
  BY DEF OwnHalt
<1>2. /\ i.cls = "hlt" /\ regs \in [rip : Nat, rsp : Nat, flags : Nat]
      /\ before' = before
      /\ ran = <<>> => Same(regs)
  BY <1>1, RunsFacts
<1>3. after \in [rip : Nat, rsp : Nat, flags : Nat] /\ after.rip = regs.rip + 1
  BY <1>2
<1>4. stub_vector(after.rip) = NoVector
  <2>1. STUB_BASE \in Nat
    BY DEF STUB_BASE, CTRL_BASE, RAM_SIZE
  <2>2. after.rip \in 0..MaxRip
    BY <2>1, <1>1, <1>2, <1>3, BoundsAssumption
  <2> QED BY <2>2, BelowStubs
<1>5. ran = <<>> => Tells(i)'
  <2>1. regs' = after /\ exit'.why = "halt"
    BY <1>1 DEF ExitWith
  <2>2. ran = <<>> => Past(regs)'
    BY <2>1, <1>2, <1>3 DEF Same, Past, get_rflags
  <2> QED BY <2>1, <2>2, <1>2, <1>4 DEF Tells
<1> QED BY <1>1, <1>3, <1>4, <1>5, ExitWithKeeps

LEMMA OutsideKeeps ==
  ASSUME HInv, NEW i \in Instrs, OutsideAccess(i)
  PROVE  HInv'
<1>1. Runs(i, {"outside"}) /\ ExitWith("other", NoVector, 0, regs)
  BY DEF OutsideAccess
<1>2. /\ i.cls = "outside" /\ regs \in [rip : Nat, rsp : Nat, flags : Nat]
      /\ before' = before
      /\ ran = <<>> => Same(regs)
  BY <1>1, RunsFacts
<1>3. ran = <<>> => Tells(i)'
  <2>1. regs' = regs /\ exit'.why = "other"
    BY <1>1 DEF ExitWith
  <2> QED BY <2>1, <1>2 DEF Tells, Same
<1> QED BY <1>1, <1>2, <1>3, ExitWithKeeps

LEMMA InterceptsAreWhp ==
  ASSUME HInv, NEW v \in intercepts
  PROVE  backend = "whp" /\ v \in Vectors
BY BoundsAssumption DEF HInv, Hosts, TypeOK

LEMMA FaultKeeps ==
  ASSUME HInv, NEW i \in Instrs, RaiseFault(i)
  PROVE  HInv'
<1> DEFINE code == IF has_error_code(i.vec) THEN <<i.err>> ELSE <<>>
           f == Masked(regs.flags) + RF + (regs.flags % 2)
<1>1. Runs(i, {"fault"})
  BY DEF RaiseFault
<1>2. /\ i.cls = "fault" /\ regs \in [rip : Nat, rsp : Nat, flags : Nat]
      /\ before' = before /\ backend' = backend
      /\ ran = <<>> => Same(regs)
  BY <1>1, RunsFacts
<1>3. i.vec \in Vectors /\ i.err \in Nat
  BY InstrFacts
<1>4. CASE i.vec \in intercepts /\ ExitWith("exception", i.vec, i.err, regs)
  <2>1. regs' = regs /\ exit' = [why |-> "exception", vec |-> i.vec, err |-> i.err]
    BY <1>4 DEF ExitWith
  <2>2. ran = <<>> => Tells(i)'
    BY <2>1, <1>2, <1>4, InterceptsAreWhp DEF Tells, Intercepted, Same
  <2> QED BY <2>2, <1>1, <1>2, <1>3, <1>4, ExitWithKeeps
<1>5. CASE Deliver(i.vec, regs.rip, f, code)
  <2>1. f \in Nat /\ Masked(f) = Masked(regs.flags)
    BY <1>2, FlagFacts
  <2>2. code \in {<<>>} \cup {<<e>> : e \in Nat}
    BY <1>3
  <2> HIDE DEF f
  <2>3. /\ InStub(i.vec)'
        /\ code = <<>> => Pushed(0)' = [rip |-> regs.rip, rsp |-> regs.rsp, flags |-> f]
        /\ \A e \in Nat : code = <<e>> =>
             ist'[1] = e /\ Pushed(1)' = [rip |-> regs.rip, rsp |-> regs.rsp, flags |-> f]
    <3> HIDE DEF code
    <3> QED BY <2>1, <2>2, <1>2, <1>3, <1>5, DeliverFacts DEF HInv
  <2>4. ASSUME NEW n, Pushed(n)' = [rip |-> regs.rip, rsp |-> regs.rsp, flags |-> f], ran = <<>>
        PROVE  Same(Pushed(n))'
    BY <2>1, <2>4, <1>2 DEF Same, get_rflags
  <2>5. ran = <<>> => Tells(i)'
    <3>1. CASE has_error_code(i.vec)
      <4>1. ran = <<>> => ist'[1] = i.err /\ Same(Pushed(1))'
        BY <3>1, <2>3, <2>4, <1>3
      <4> QED BY <4>1, <3>1, <2>3, <1>2 DEF Tells
    <3>2. CASE ~has_error_code(i.vec)
      <4>1. ran = <<>> => Same(Pushed(0))'
        BY <3>2, <2>3, <2>4
      <4> QED BY <4>1, <3>2, <2>3, <1>2 DEF Tells
    <3> QED BY <3>1, <3>2
  <2> HIDE DEF code
  <2> QED BY <2>1, <2>2, <2>5, <1>1, <1>2, <1>3, <1>5, DeliverKeeps
<1> QED BY <1>4, <1>5 DEF RaiseFault

\* A trap or INT n is only told by the stub or the intercept it ends in.
LEMMA TrapKeeps ==
  ASSUME HInv, NEW i \in Instrs, RaiseTrap(i) \/ SoftwareInt(i)
  PROVE  HInv'
<1>1. PICK classes \in {{"trap"}, {"int"}} :
        /\ Runs(i, classes)
        /\ \/ /\ classes = {"trap"} /\ i.vec \in intercepts
              /\ ExitWith("exception", i.vec, 0, regs)
           \/ Deliver(i.vec, regs.rip + 1, regs.flags, <<>>)
  BY DEF RaiseTrap, SoftwareInt
<1>2. /\ i.cls \in classes /\ regs \in [rip : Nat, rsp : Nat, flags : Nat]
      /\ backend' = backend
  BY <1>1, RunsFacts
<1>3. i.vec \in Vectors
  BY InstrFacts
<1>4. CASE classes = {"trap"} /\ i.vec \in intercepts /\ ExitWith("exception", i.vec, 0, regs)
  <2>1. exit' = [why |-> "exception", vec |-> i.vec, err |-> 0]
    BY <1>4 DEF ExitWith
  <2>2. Tells(i)'
    BY <2>1, <1>2, <1>4, InterceptsAreWhp DEF Tells, Intercepted
  <2> QED BY <2>2, <1>1, <1>2, <1>3, <1>4, ExitWithKeeps
<1>5. CASE Deliver(i.vec, regs.rip + 1, regs.flags, <<>>)
  <2>1. regs.rip + 1 \in Nat /\ regs.flags \in Nat
    BY <1>2
  <2>2. InStub(i.vec)'
    BY <2>1, <1>3, <1>5, DeliverFacts DEF HInv
  <2>3. Tells(i)'
    BY <2>2, <1>1, <1>2 DEF Tells
  <2> QED BY <2>1, <2>3, <1>1, <1>3, <1>5, DeliverKeeps
<1> QED BY <1>1, <1>4, <1>5

-----------------------------------------------------------------------------
(* The handlers of the exits *)

\* What a step over i may report.
Reports(i, o, fault) ==
  /\ i.cls = "fault" =>
       /\ o.kind = "fault" /\ o.vec = i.vec
       /\ o.err = IF has_error_code(i.vec) THEN i.err ELSE 0
       /\ fault = o
  /\ i.cls \in {"trap", "int"} =>
       IF backend = "whp" /\ i.vec = 1 THEN o = Retired
       ELSE o.kind = "fault" /\ o.vec = i.vec
  /\ i.cls \in {"plain", "rep", "hlt"} => o = Retired /\ fault = NoFault
  /\ i.cls = "outside" => o.kind = "fault"

\* The registers a step over i leaves.
Leaves(i) ==
  /\ i.cls \in {"fault", "outside"} => Same(regs)
  /\ i.cls \in {"plain", "rep", "hlt"} => Past(regs)

\* A handler is right if it is right about every instruction the exit may tell.
LEMMA HandlerKeeps ==
  ASSUME HInv, pc = "exit", NEW o \in Results, NEW fault \in Results, Return(o, fault),
         regs' \in [rip : Nat, rsp : Nat, flags : Nat],
         \A i \in Instrs : Tells(i) => Reports(i, o, fault) /\ Leaves(i)'
  PROVE  HInv'
<1>1. pc' = "returned" /\ outcome' = o /\ lastFault' = fault /\ UNCHANGED <<backend, before, ran>>
  BY DEF Return, fixed, history
<1>2. ran # <<>> /\ ran \in Seq(Instrs) /\ (Len(ran) = 1 => ran[1] \in Instrs /\ Tells(ran[1]))
  <2>1. /\ ran \in Seq(Instrs)
        /\ \/ Len(ran) = 1 /\ Tells(ran[1])
           \/ Len(ran) = 2
    BY DEF HInv, TypeOK, Exited
  <2>2. ran # <<>> /\ (Len(ran) = 1 => Tells(ran[1]))
    <3>1. Len(<<>>) = 0 /\ 0 # 1 /\ 0 # 2 /\ 1 # 2
      OBVIOUS
    <3> QED BY <3>1, <2>1, Zenon
  <2>3. Len(ran) = 1 => ran[1] \in Instrs
    <3>1. \A k \in 1..Len(ran) : ran[k] \in Instrs
      BY <2>1
    <3> QED BY <3>1
  <2> QED BY <2>1, <2>2, <2>3, Zenon
<1>3. Len(ran) = 1 => Reports(ran[1], o, fault) /\ Leaves(ran[1])'
  <2>1. \A i \in Instrs : i = ran[1] => Leaves(ran[1])' = Leaves(i)'
    BY <1>1 DEF Leaves
  <2> QED BY <2>1, <1>2
<1>4. FaultRestoresState'
  BY <1>1, <1>2, <1>3 DEF FaultRestoresState, RanOne, SameProgramState, Same, Leaves
<1>5. OutcomeIsExact' /\ Returned'
  BY <1>1, <1>3 DEF OutcomeIsExact, Returned, RanOne, Reports, Leaves
<1> QED BY <1>4, <1>5, ReturnKeeps

LEMMA UnwindFacts ==
  ASSUME TypeOK, Len(ist) \in {5, 6}, NEW v \in Vectors
  PROVE  /\ Unwound(v) \in [rip : Nat, rsp : Nat, flags : Nat] /\ unwind_frame(v).err \in Nat
         /\ LET p == Pushed(IF has_error_code(v) THEN 1 ELSE 0)
            IN  /\ Unwound(v).rip = p.rip /\ Unwound(v).rsp = p.rsp
                /\ get_rflags(Unwound(v)) = get_rflags(p)
         /\ unwind_frame(v).err = IF has_error_code(v) THEN ist[1] ELSE 0
<1>1. \A k \in 1..5 : ist[k] \in Nat
  <2>1. ist \in Seq(Nat)
    BY DEF TypeOK
  <2> QED BY <2>1
<1>2. /\ Word(0) = ist[1] /\ Word(8) = ist[2] /\ Word(16) = ist[3]
      /\ Word(24) = ist[4] /\ Word(32) = ist[5]
  BY DEF Word
<1>3. CASE has_error_code(v)
  <2>1. unwind_frame(v) = [rip |-> ist[2], flags |-> ist[4], rsp |-> ist[5], err |-> ist[1]]
    BY <1>2, <1>3 DEF unwind_frame
  <2>2. /\ ist[1] \in Nat /\ ist[2] \in Nat /\ ist[5] \in Nat
        /\ ist[4] \in Nat /\ Masked(ist[4]) \in Nat /\ Masked(Masked(ist[4])) = Masked(ist[4])
    BY <1>1, FlagFacts
  <2> QED BY <2>1, <2>2, <1>3 DEF Unwound, Pushed, get_rflags
<1>4. CASE ~has_error_code(v)
  <2>1. unwind_frame(v) = [rip |-> ist[1], flags |-> ist[3], rsp |-> ist[4], err |-> 0]
    BY <1>2, <1>4 DEF unwind_frame
  <2>2. /\ ist[1] \in Nat /\ ist[4] \in Nat
        /\ ist[3] \in Nat /\ Masked(ist[3]) \in Nat /\ Masked(Masked(ist[3])) = Masked(ist[3])
    BY <1>1, FlagFacts
  <2> QED BY <2>1, <2>2, <1>4 DEF Unwound, Pushed, get_rflags
<1> QED BY <1>3, <1>4

LEMMA DisarmFacts ==
  ASSUME TypeOK
  PROVE  /\ Disarmed \in [rip : Nat, rsp : Nat, flags : Nat]
         /\ Disarmed.rip = regs.rip /\ Disarmed.rsp = regs.rsp
         /\ get_rflags(Disarmed) = get_rflags(regs)
<1>1. /\ regs \in [rip : Nat, rsp : Nat, flags : Nat] /\ Masked(regs.flags) \in Nat
      /\ Masked(Masked(regs.flags)) = Masked(regs.flags)
  BY FlagFacts DEF TypeOK
<1> QED BY <1>1 DEF Disarmed, get_rflags

LEMMA DebugKeeps ==
  ASSUME HInv, HandleDebug
  PROVE  HInv'
<1>1. /\ pc = "exit" /\ exit.why = "debug" /\ Return(Retired, NoFault)
      /\ regs' = regs /\ before' = before
      /\ regs \in [rip : Nat, rsp : Nat, flags : Nat]
  BY DEF HandleDebug, HInv, TypeOK, Return, history
<1>2. ASSUME NEW i \in Instrs, Tells(i)
      PROVE  Reports(i, Retired, NoFault) /\ Leaves(i)'
  <2>1. i.cls \in {"plain", "rep"} /\ Past(regs)
    BY <1>1, <1>2, InstrFacts DEF Tells, Intercepted, InStub, Classes
  <2> QED BY <2>1, <1>1 DEF Reports, Leaves, Past
<1> QED BY <1>1, <1>2, HandlerKeeps, ResultFacts

LEMMA OtherKeeps ==
  ASSUME HInv, HandleOther
  PROVE  HInv'
<1>1. /\ pc = "exit" /\ exit.why = "other" /\ Return(Faulted(NoVector, 0), NoFault)
      /\ regs' = regs /\ UNCHANGED <<before>>
      /\ regs \in [rip : Nat, rsp : Nat, flags : Nat]
  BY DEF HandleOther, HInv, TypeOK, Return, history
<1>2. ASSUME NEW i \in Instrs, Tells(i)
      PROVE  Reports(i, Faulted(NoVector, 0), NoFault) /\ Leaves(i)'
  <2>1. i.cls = "outside" /\ Same(regs)
    BY <1>1, <1>2, InstrFacts DEF Tells, Intercepted, InStub, Classes
  <2>2. Faulted(NoVector, 0).kind = "fault"
    BY ResultFacts
  <2> QED BY <2>1, <2>2, <1>1 DEF Reports, Leaves, Same
<1>3. Faulted(NoVector, 0) \in Results /\ NoFault \in Results
  BY ResultFacts
<1> QED BY <1>1, <1>2, <1>3, HandlerKeeps

LEMMA ExceptionKeeps ==
  ASSUME HInv, HandleException
  PROVE  HInv'
<1>1. /\ pc = "exit" /\ exit.why = "exception" /\ regs' = Disarmed /\ before' = before
      /\ TypeOK /\ exit.vec \in Vectors \cup {NoVector} /\ exit.err \in Nat
  BY DEF HandleException, HInv, TypeOK, Return, history
<1>2. /\ Disarmed \in [rip : Nat, rsp : Nat, flags : Nat]
      /\ Same(regs) => Same(regs)'
      /\ Past(regs) => Past(regs)'
  BY <1>1, DisarmFacts DEF Same, Past, get_rflags
<1>3. CASE exit.vec = 1 /\ Return(Retired, NoFault)
  <2>1. ASSUME NEW i \in Instrs, Tells(i)
        PROVE  Reports(i, Retired, NoFault) /\ Leaves(i)'
    <3>1. i.cls \in {"plain", "rep"} /\ Past(regs)
      BY <2>1, <1>1, <1>3, InstrFacts DEF Tells, Intercepted, InStub, Classes
    <3> QED BY <3>1, <1>2 DEF Reports, Leaves
  <2> QED BY <2>1, <1>1, <1>2, <1>3, HandlerKeeps, ResultFacts
<1>4. CASE /\ exit.vec # 1
           /\ LET code == IF has_error_code(exit.vec) THEN exit.err ELSE 0
              IN  Return(Faulted(exit.vec, code), Faulted(exit.vec, code))
  <2> DEFINE code == IF has_error_code(exit.vec) THEN exit.err ELSE 0
             o == Faulted(exit.vec, code)
  <2>1. Return(o, o) /\ code \in Nat
    BY <1>1, <1>4
  <2>2. o \in Results /\ o.kind = "fault" /\ o.vec = exit.vec /\ o.err = code
    BY <2>1, <1>1, ResultFacts
  <2>3. ASSUME NEW i \in Instrs, Tells(i)
        PROVE  Reports(i, o, o) /\ Leaves(i)'
    <3> HIDE DEF o
    <3>1. i.cls \in {"fault", "trap"} /\ i.vec = exit.vec
      BY <2>3, <1>1, <1>4, InstrFacts DEF Tells, Intercepted, InStub, Classes
    <3>2. i.cls = "fault" => exit.err = i.err /\ Same(regs)
      BY <2>3, <1>1 DEF Tells, InStub
    <3> QED BY <3>1, <3>2, <2>2, <1>2, <1>4 DEF Reports, Leaves
  <2> HIDE DEF o
  <2> QED BY <2>1, <2>2, <2>3, <1>1, <1>2, HandlerKeeps
<1> QED BY <1>3, <1>4 DEF HandleException

LEMMA StubKeeps ==
  ASSUME HInv, HandleStub
  PROVE  HInv'
<1> DEFINE v == stub_vector(regs.rip)
           o == Faulted(v, unwind_frame(v).err)
           p == Pushed(IF has_error_code(v) THEN 1 ELSE 0)
<1>1. /\ pc = "exit" /\ exit.why = "halt" /\ v # NoVector /\ regs' = Unwound(v)
      /\ \/ v = 1 /\ backend = "whp" /\ Return(Retired, NoFault)
         \/ ~(v = 1 /\ backend = "whp") /\ Return(o, o)
  BY DEF HandleStub
<1>2. TypeOK /\ before' = before
  BY <1>1 DEF HInv, Return, history
<1>3. v \in Vectors
  BY <1>1, <1>2, StubRange DEF TypeOK
<1>4. Len(ist) \in {5, 6}
  BY <1>1 DEF HInv, Exited
<1>5. \A i \in Instrs : InStub(i.vec) => v = i.vec
  BY InstrFacts, StubFacts DEF InStub
<1>6. InStub(1) => v = 1
  BY StubFacts DEF InStub, Vectors
<1> HIDE DEF v, o
<1>7. /\ regs' \in [rip : Nat, rsp : Nat, flags : Nat] /\ unwind_frame(v).err \in Nat
      /\ Same(p) => Same(regs)'
      /\ Past(p) => Past(regs)'
      /\ unwind_frame(v).err = IF has_error_code(v) THEN ist[1] ELSE 0
  <2>1. /\ Unwound(v) \in [rip : Nat, rsp : Nat, flags : Nat] /\ unwind_frame(v).err \in Nat
        /\ Unwound(v).rip = p.rip /\ Unwound(v).rsp = p.rsp
        /\ get_rflags(Unwound(v)) = get_rflags(p)
        /\ unwind_frame(v).err = IF has_error_code(v) THEN ist[1] ELSE 0
    BY <1>2, <1>3, <1>4, UnwindFacts
  <2> HIDE DEF p
  <2> QED BY <2>1, <1>1, <1>2 DEF Same, Past, get_rflags
<1>8. ASSUME NEW i \in Instrs, Tells(i)
      PROVE  \/ i.cls \in {"plain", "rep"} /\ v = 1 /\ backend = "whp" /\ Past(p)
             \/ /\ i.cls = "fault" /\ i.vec = v /\ Same(p)
                /\ has_error_code(v) => ist[1] = i.err
             \/ i.cls \in {"trap", "int"} /\ i.vec = v
  <2>1. i.cls \in Classes /\ i.cls # "hlt" /\ i.cls # "outside"
    BY <1>1, <1>8, InstrFacts DEF Tells, v
  <2>2. CASE i.cls = "fault"
    <3>1. /\ InStub(i.vec)
          /\ IF has_error_code(i.vec) THEN ist[1] = i.err /\ Same(Pushed(1)) ELSE Same(Pushed(0))
      BY <2>2, <1>1, <1>8 DEF Tells, Intercepted
    <3>2. i.vec = v
      BY <3>1, <1>5
    <3> QED BY <3>1, <3>2, <2>2
  <2>3. CASE i.cls \in {"plain", "rep"}
    <3>1. v = 1 /\ backend = "whp" /\ Past(Pushed(0))
      BY <2>3, <1>1, <1>6, <1>8 DEF Tells, Intercepted
    <3> QED BY <3>1, <2>3 DEF has_error_code
  <2>4. CASE i.cls \in {"movss", "trap", "int"}
    BY <2>4, <1>1, <1>5, <1>8 DEF Tells, Intercepted
  <2> QED BY <2>1, <2>2, <2>3, <2>4 DEF Classes
<1> HIDE DEF p
<1>9. CASE v = 1 /\ backend = "whp" /\ Return(Retired, NoFault)
  <2>1. ASSUME NEW i \in Instrs, Tells(i)
        PROVE  Reports(i, Retired, NoFault) /\ Leaves(i)'
    BY <2>1, <1>7, <1>8, <1>9, InstrFacts DEF Reports, Leaves
  <2> QED BY <2>1, <1>1, <1>7, <1>9, HandlerKeeps, ResultFacts
<1>10. CASE ~(v = 1 /\ backend = "whp") /\ Return(o, o)
  <2>1. o \in Results /\ o.kind = "fault" /\ o.vec = v /\ o.err = unwind_frame(v).err
    BY <1>3, <1>7, ResultFacts DEF o
  <2>2. ASSUME NEW i \in Instrs, Tells(i)
        PROVE  Reports(i, o, o) /\ Leaves(i)'
    BY <2>1, <2>2, <1>7, <1>8, <1>10 DEF Reports, Leaves
  <2> QED BY <2>1, <2>2, <1>1, <1>7, <1>10, HandlerKeeps
<1> QED BY <1>1, <1>9, <1>10

LEMMA HaltKeeps ==
  ASSUME HInv, HandleHalt
  PROVE  HInv'
<1>1. /\ pc = "exit" /\ exit.why = "halt" /\ stub_vector(regs.rip) = NoVector
      /\ regs' = Disarmed /\ Return(Retired, NoFault) /\ TypeOK
  BY DEF HandleHalt, HInv
<1>2. /\ Disarmed \in [rip : Nat, rsp : Nat, flags : Nat]
      /\ Past(regs) => Past(regs)'
  BY <1>1, DisarmFacts DEF Past, get_rflags, Return, history
<1>3. \A w \in Vectors : ~InStub(w)
  BY <1>1, StubFacts DEF InStub
<1>4. ASSUME NEW i \in Instrs, Tells(i)
      PROVE  Reports(i, Retired, NoFault) /\ Leaves(i)'
  <2>1. ~InStub(1) /\ ~InStub(i.vec)
    BY <1>3, InstrFacts DEF Vectors
  <2>2. i.cls = "hlt" /\ Past(regs)
    BY <2>1, <1>1, <1>4, InstrFacts DEF Tells, Intercepted, Classes
  <2> QED BY <2>2, <1>2 DEF Reports, Leaves
<1> QED BY <1>1, <1>2, <1>4, HandlerKeeps, ResultFacts

-----------------------------------------------------------------------------
(* The theorems *)

LEMMA HInit == Init => HInv
<1> SUFFICES ASSUME Init PROVE HInv
  OBVIOUS
<1>1. intercepts \subseteq Vectors /\ Hosts
  <2>1. \A s \in HostBitmaps : \A b \in Negotiated(s) : b \subseteq Vectors
    BY DEF Negotiated, WANTED_EXCEPTIONS, Vectors
  <2> QED BY <2>1 DEF Init, Hosts
<1>2. TypeOK
  <2>1. NoResult \in Results /\ NoFault \in Results
    BY ResultFacts
  <2>2. 0 \in 0..(RunLimit - 1)
    BY BoundsAssumption
  <2>3. NoExit \in [why : {"none", "debug", "exception", "halt", "other"},
                    vec : Vectors \cup {NoVector}, err : Nat]
    BY DEF NoExit
  <2> QED BY <2>1, <2>2, <2>3, <1>1 DEF Init, TypeOK
<1>3. Running /\ Exited /\ FaultRestoresState /\ OutcomeIsExact /\ Returned /\ NoRunaway
  BY DEF Init, Running, Exited, FaultRestoresState, OutcomeIsExact, Returned, NoRunaway, RanOne
<1> QED BY <1>1, <1>2, <1>3 DEF HInv, Init

LEMMA HStep == HInv /\ [Next]_vars => HInv'
<1> SUFFICES ASSUME HInv, [Next]_vars PROVE HInv'
  OBVIOUS
<1>1. CASE UNCHANGED vars
  <2>1. UNCHANGED <<backend, intercepts, regs, ist, pc, exit, tries, outcome, lastFault, before, ran>>
    BY <1>1 DEF vars, fixed, results, history
  <2>2. TypeOK'
    BY <2>1 DEF HInv, TypeOK
  <2>3. \A i : Tells(i)' = Tells(i)
    BY <2>1 DEF Tells, Intercepted, InStub, Same, Past, Pushed
  <2>4. Hosts' /\ Running' /\ Exited' /\ NoRunaway' /\ (pc = "api" => ran = <<>>)'
    BY <2>1, <2>3 DEF HInv, Hosts, Running, Exited, NoRunaway
  <2>5. FaultRestoresState' /\ OutcomeIsExact' /\ Returned'
    BY <2>1 DEF HInv, FaultRestoresState, OutcomeIsExact, Returned, Past, RanOne, SameProgramState
  <2> QED BY <2>2, <2>4, <2>5 DEF HInv
<1>2. CASE \/ \E r \in 0..MaxRip : set_rip(r)
           \/ \E v \in Rsps : set_rsp(v)
           \/ \E f \in UserFlags : set_rflags(f)
  BY <1>2, WritesKeep
<1>3. CASE Driver
  <2>1. CASE RunFails
    BY <2>1, CutShortKeeps DEF RunFails
  <2> QED BY <2>1, <1>3, BeginKeeps, BeginFailsKeeps, DebugKeeps, ExceptionKeeps,
             StubKeeps, HaltKeeps, OtherKeeps DEF Driver
<1>4. CASE Canceled
  BY <1>4, CanceledKeeps
<1>5. CASE \E i \in Instrs : Guest(i)
  BY <1>5, RetireKeeps, StackSegmentKeeps, OwnHaltKeeps, FaultKeeps, TrapKeeps, OutsideKeeps
     DEF Guest
<1> QED BY <1>1, <1>2, <1>3, <1>4, <1>5 DEF Next

\* The inductive invariant.
THEOREM HwInvariant == Spec => []HInv
BY HInit, HStep, PTL DEF Spec

\* The types, and the bound on the iterations of the run loop.
THEOREM HwTypeOK == Spec => []TypeOK
<1>1. HInv => TypeOK
  BY DEF HInv
<1> QED BY <1>1, HwInvariant, PTL

\* "Faults do not vector" (README.md), on either driver: unwind_fault and
\* disarm_singlestep undo whatever the delivery and the trap flag did.
THEOREM FaultsDoNotVector == Spec => []FaultRestoresState
<1>1. HInv => FaultRestoresState
  BY DEF HInv
<1> QED BY <1>1, HwInvariant, PTL

\* The vector inferred from the address of a stub's HLT, and the error code read
\* from its frame, are those of the exception the instruction raised.
THEOREM OutcomesAreExact == Spec => []OutcomeIsExact
<1>1. HInv => OutcomeIsExact
  BY DEF HInv
<1> QED BY <1>1, HwInvariant, PTL

\* arm_singlestep before every run leaves no sequence of calls after which the
\* guest executes more than one instruction, but for the shadow of a MOV SS.
THEOREM GuestNeverRunsAway == Spec => []NoRunaway
<1>1. HInv => NoRunaway
  BY DEF HInv
<1> QED BY <1>1, HwInvariant, PTL

-----------------------------------------------------------------------------
(* The refinement of StepContract *)

\* What the caller sees, as the contract's variables.
LEMMA ContractVars ==
  /\ Contract!vars = <<Seen.rip, Seen.rsp, get_rflags(Seen),
                       [kind |-> outcome.kind, vec |-> outcome.vec]>>
BY DEF Contract!vars

LEMMA ContractInit == Init => Contract!Init
<1> SUFFICES ASSUME Init PROVE Contract!Init
  OBVIOUS
<1>1. Seen = [rip |-> 0, rsp |-> 0, flags |-> 0]
  BY DEF Init, Seen, Callable
<1>2. Seen.rip = 0 /\ Seen.rsp = 0 /\ get_rflags(Seen) = 0
  BY <1>1 DEF get_rflags, Masked
<1>3. outcome.kind = "none" /\ outcome.vec = NoVector
  BY DEF Init, NoResult
<1> QED BY <1>2, <1>3 DEF Contract!Init, Contract!Outcomes

\* A register write is the contract's Assign.
LEMMA WritesAssign ==
  ASSUME HInv,
         \/ \E r \in 0..MaxRip : set_rip(r)
         \/ \E v \in Rsps : set_rsp(v)
         \/ \E f \in UserFlags : set_rflags(f)
  PROVE  Contract!Next
<1>1. TypeOK
  BY DEF HInv
<1>2. regs \in [rip : Nat, rsp : Nat, flags : Nat] /\ Masked(KeptFlags) = Masked(regs.flags)
  BY <1>1, KeptFacts DEF TypeOK
<1>3. Callable /\ Called
  BY DEF set_rip, set_rsp, set_rflags
<1>4. Seen = regs /\ Seen' = regs' /\ outcome' = outcome
  BY <1>3 DEF Seen, Callable, Called, results
<1>5. CASE \E r \in 0..MaxRip : set_rip(r)
  <2>1. PICK r \in 0..MaxRip : regs' = [regs EXCEPT !.rip = r, !.flags = KeptFlags]
    BY <1>5 DEF set_rip
  <2>2. Seen'.rip = r /\ Seen'.rsp = Seen.rsp /\ get_rflags(Seen)' = get_rflags(Seen)
    BY <2>1, <1>2, <1>4 DEF get_rflags
  <2> QED BY <2>2, <1>4 DEF Contract!Next, Contract!Assign
<1>6. CASE \E v \in Rsps : set_rsp(v)
  <2>1. PICK v \in Rsps : regs' = [regs EXCEPT !.rsp = v, !.flags = KeptFlags]
    BY <1>6 DEF set_rsp
  <2>2. Seen'.rip = Seen.rip /\ Seen'.rsp = v /\ get_rflags(Seen)' = get_rflags(Seen)
    BY <2>1, <1>2, <1>4 DEF get_rflags
  <2> QED BY <2>2, <1>4 DEF Contract!Next, Contract!Assign
<1>7. CASE \E f \in UserFlags : set_rflags(f)
  <2>1. PICK f \in UserFlags : regs' = [regs EXCEPT !.flags = Masked(f)]
    BY <1>7 DEF set_rflags
  <2>2. Masked(Masked(f)) \in {0, 4}
    BY DEF UserFlags, Masked
  <2>3. Seen'.rip = Seen.rip /\ Seen'.rsp = Seen.rsp /\ get_rflags(Seen)' \in {0, 4}
    BY <2>1, <2>2, <1>2, <1>4 DEF get_rflags
  <2> QED BY <2>3, <1>4 DEF Contract!Next, Contract!Assign
<1> QED BY <1>5, <1>6, <1>7

\* While the step runs the caller still sees the state it called step in.
LEMMA RunningStutters ==
  ASSUME HInv, outcome' = outcome,
         \/ BeginStep
         \/ ~Callable /\ ~Callable' /\ before' = before
  PROVE  UNCHANGED Contract!vars
<1>1. Seen' = Seen
  BY DEF Seen, Callable, BeginStep
<1> QED BY <1>1, ContractVars DEF Contract!vars, get_rflags

\* What a step returns is a Retire, a Fault, or about an instruction the contract
\* leaves out.
LEMMA ReturnIsContract ==
  ASSUME HInv, HInv', ~Callable, pc' = "returned", UNCHANGED <<before, ran>>
  PROVE  Contract!Next \/ OutOfContract
<1>1. /\ Seen = before /\ Seen' = regs'
      /\ outcome'.kind \in {"none", "retired", "fault"}
      /\ outcome'.vec \in Vectors \cup {NoVector}
  BY DEF Seen, Callable, HInv, TypeOK, Results
<1>2. /\ before' = before /\ ran' = ran /\ ran' \in Seq(Instrs)
      /\ FaultRestoresState' /\ OutcomeIsExact' /\ Returned' /\ NoRunaway'
  BY DEF HInv, TypeOK
<1>3. ASSUME SameProgramState', outcome'.kind = "fault"
      PROVE  Contract!Next
  BY <1>1, <1>2, <1>3
     DEF SameProgramState, get_rflags, Contract!Next, Contract!Fault, Contract!Outcomes
<1>4. ASSUME Past(regs)', outcome'.kind = "retired"
      PROVE  Contract!Next
  BY <1>1, <1>2, <1>4 DEF Past, get_rflags, Contract!Next, Contract!Retire, Contract!Outcomes
<1>5. CASE ran' = <<>>
  BY <1>2, <1>3, <1>5, ResultFacts DEF FaultRestoresState
<1>6. CASE Len(ran') = 1
  <2>1. ran'[1] \in Instrs
    <3>1. \A k \in 1..Len(ran') : ran'[k] \in Instrs
      BY <1>2
    <3> QED BY <3>1, <1>6
  <2>2. CASE ran'[1].cls \in {"fault", "outside"}
    BY <2>2, <1>2, <1>3, <1>6 DEF FaultRestoresState, OutcomeIsExact, Returned, RanOne
  <2>3. CASE ran'[1].cls \in {"plain", "rep", "hlt"}
    BY <2>3, <1>2, <1>4, <1>6 DEF OutcomeIsExact, Returned, RanOne, Retired
  <2>4. CASE ran'[1].cls \in {"movss", "trap", "int"}
    <3>1. 1 \in DOMAIN ran'
      BY <1>2, <1>6
    <3> QED BY <3>1, <2>4 DEF OutOfContract
  <2>5. ran'[1].cls \in Classes
    BY <2>1, InstrFacts
  <2> QED BY <2>2, <2>3, <2>4, <2>5 DEF Classes
<1>7. CASE Len(ran') > 1
  <2>1. 1 \in DOMAIN ran' /\ ran'[1].cls = "movss"
    BY <1>2, <1>7 DEF NoRunaway
  <2> QED BY <2>1 DEF OutOfContract
<1>8. ran' = <<>> \/ Len(ran') = 1 \/ Len(ran') > 1
  <2>1. ran' \in Seq(Instrs)
    BY <1>2
  <2>2. \A s \in Seq(Instrs) : s = <<>> \/ Len(s) = 1 \/ Len(s) > 1
    OBVIOUS
  <2> QED BY ONLY <2>1, <2>2, Zenon
<1> QED BY <1>5, <1>6, <1>7, <1>8

LEMMA ContractStep ==
  HInv /\ HInv' /\ [Next]_vars => [Contract!Next \/ OutOfContract]_(Contract!vars)
<1> SUFFICES ASSUME HInv, HInv', [Next]_vars
             PROVE  Contract!Next \/ OutOfContract \/ UNCHANGED Contract!vars
  OBVIOUS
<1>1. CASE UNCHANGED vars
  <2>1. Seen' = Seen /\ outcome' = outcome
    BY <1>1 DEF vars, fixed, results, history, Seen, Callable
  <2> QED BY <2>1, ContractVars DEF Contract!vars, get_rflags
<1>2. CASE \/ \E r \in 0..MaxRip : set_rip(r)
           \/ \E v \in Rsps : set_rsp(v)
           \/ \E f \in UserFlags : set_rflags(f)
  BY <1>2, WritesAssign
<1>3. CASE BeginStep
  BY <1>3, RunningStutters DEF BeginStep
<1>4. CASE BeginFails
  <2>1. /\ Seen' = Seen /\ outcome'.kind = "fault" /\ outcome'.vec = NoVector
    BY <1>4, ResultFacts DEF BeginFails, Callable, Seen
  <2> QED BY <2>1 DEF Contract!Next, Contract!Fault, Contract!Outcomes, get_rflags
<1>5. CASE Canceled \/ RunFails
  <2>1. CASE pc' = "returned"
    <3>1. ~Callable /\ UNCHANGED <<before, ran>>
      BY <1>5 DEF Canceled, RunFails, Callable, Return, history
    <3> QED BY <3>1, <2>1, ReturnIsContract
  <2>2. CASE pc' # "returned"
    <3>1. ~Callable /\ ~Callable' /\ before' = before /\ outcome' = outcome
      BY <1>5, <2>2 DEF Canceled, RunFails, Callable, Return, history, results
    <3> QED BY <3>1, RunningStutters
  <2> QED BY <2>1, <2>2
<1>6. CASE HandleDebug \/ HandleException \/ HandleStub \/ HandleHalt \/ HandleOther
  <2>1. ~Callable /\ pc' = "returned" /\ UNCHANGED <<before, ran>>
    BY <1>6 DEF HandleDebug, HandleException, HandleStub, HandleHalt, HandleOther,
                Callable, Return, history
  <2> QED BY <2>1, ReturnIsContract
<1>7. CASE \E i \in Instrs : Guest(i)
  <2>1. PICK i \in Instrs : Guest(i)
    BY <1>7
  <2>2. \E classes : Runs(i, classes)
    BY <2>1 DEF Guest, RetireInstr, LoadStackSegment, OwnHalt, RaiseFault, RaiseTrap,
                SoftwareInt, OutsideAccess
  <2>3. pc = "run" /\ before' = before /\ outcome' = outcome
    BY <2>2 DEF Runs, results
  <2>4. pc' \in {"run", "exit"}
    BY <2>1, <2>3 DEF Guest, RetireInstr, LoadStackSegment, OwnHalt, RaiseFault, RaiseTrap,
                SoftwareInt, OutsideAccess, ExitWith, Deliver
  <2> QED BY <2>3, <2>4, RunningStutters DEF Callable
<1> QED BY <1>1, <1>2, <1>3, <1>4, <1>5, <1>6, <1>7 DEF Next, Driver

\* Seen by the caller, whatever the host intercepts and however often a run is cut
\* short, step retires one instruction or faults and changes nothing.
THEOREM HwImplementsStepContract == Spec => ImplementsStepContract
BY HwInvariant, ContractInit, ContractStep, PTL DEF Spec, ImplementsStepContract
=============================================================================
