-------------------------- MODULE BochsStepProofs --------------------------
(***************************************************************************)
(* Proofs about BochsStep, for any program, any addresses and any bound on   *)
(* the calls of cpu_loop.                                                    *)
(***************************************************************************)
EXTENDS BochsStep, TLAPS

-----------------------------------------------------------------------------
(* The inductive invariant: where a step can be, from arming to its result *)

Quiet == ~async_event /\ ~kill_bochs_request
Stopping == async_event /\ kill_bochs_request

\* EXT is left over from an earlier fault only.
OwnEXT == EXT => delivered

\* The first exception of the cascade is the instruction's.
Named(i, w) ==
  /\ w.vec \in Vectors
  /\ i.cls \in {"fault", "push"} =>
       /\ w.vec = i.vec /\ w.code \div 2 = i.code \div 2
       /\ ~delivered => w.code = i.code

Faulty == Len(ran) = 1 /\ ran[1].cls \in {"fault", "push", "soft"}

Caught == g_step.faulted /\ Stopping /\ Named(ran[1], g_step.what)

\* No instruction of the step has run.
Untouched ==
  /\ ran = <<>> /\ Quiet /\ OwnEXT
  /\ g_step.armed /\ ~g_step.faulted
  /\ Caller = before

\* The step's instruction has retired.
Completed ==
  /\ Len(ran) = 1 /\ ran[1].cls \in {"next", "rep", "sti", "hlt"}
  /\ Stopping /\ OwnEXT /\ ~g_step.faulted
  /\ rip \in {before.rip, before.rip + 1} /\ rsp = before.rsp
  /\ flags % 2 = before.flags % 2

\* The step's instruction has faulted and the cascade is over.
Aborted ==
  /\ Faulty /\ Caught
  /\ rip = before.rip /\ rsp = before.rsp /\ flags % 2 = before.flags % 2

\* The cascade is under way; the next exception will roll it back.
Unwinding ==
  /\ Faulty /\ g_step.armed /\ pending.vec \in Vectors
  /\ prev_rip = before.rip /\ flags = before.flags
  /\ before.rsp = IF speculative_rsp THEN prev_rsp ELSE rsp
  /\ \/ Caught
     \/ /\ ~g_step.faulted /\ Quiet
        /\ \/ ran[1].cls = "soft"
           \/ pc = "exception" /\ pending = Raised(ran[1].vec, ran[1].code) /\ OwnEXT

Progress ==
  /\ Callable => (EXT => delivered \/ outcome.kind = "fault")
  /\ pc = "guard" => (guard = 0 /\ Untouched) \/ Completed \/ Aborted
  /\ pc = "cpu_loop" => Untouched \/ Aborted
  /\ pc = "top" => /\ Untouched \/ Completed \/ Aborted
                   /\ prev_rip = rip /\ ~speculative_rsp
  /\ pc \in {"exception", "interrupt"} => Unwinding
  /\ pc = "interrupt" => ~speculative_rsp
  /\ pc \notin {"exception", "interrupt"} => rip \in 0..MaxRip

BInv ==
  /\ TypeOK /\ Progress
  /\ OneInstruction /\ OutcomeIsExact /\ FaultRestoresState /\ FaultIsDescribed

-----------------------------------------------------------------------------
(* Flags, error codes and instructions *)

Exceptions == [vec : Vectors \cup {NoVector}, code : Nat]
Callbacks == [armed : BOOLEAN, retired : BOOLEAN, faulted : BOOLEAN, halted : BOOLEAN,
              what : Exceptions]

LEMMA FlagFacts ==
  ASSUME NEW f \in Flags
  PROVE  /\ Without(f, IF_FLAG) \in Flags /\ Without(f, IF_FLAG) % 2 = f % 2
         /\ Without(f, IF_FLAG) + IF_FLAG \in Flags
         /\ (Without(f, IF_FLAG) + IF_FLAG) % 2 = f % 2
BY DEF Flags, Without, IF_FLAG

LEMMA InstrFacts ==
  ASSUME NEW i \in Instrs
  PROVE  /\ i.cls \in Classes /\ i.vec \in Vectors /\ i.code \in Nat
         /\ Raised(i.vec, i.code) \in Exceptions
         /\ i.cls \in {"fault", "push"} /\ i.vec \in EXTCoded => i.code % 2 = 0
BY InstrsAssumption DEF Raised, Exceptions

\* exception() sets bit 0 of some error codes and no other bit.
LEMMA CodeFacts ==
  ASSUME NEW e \in Exceptions
  PROVE  /\ ErrorCode(e) \in Nat /\ ErrorCode(e) \div 2 = e.code \div 2
         /\ ~EXT /\ (e.vec \in EXTCoded => e.code % 2 = 0) => ErrorCode(e) = e.code
BY DEF ErrorCode, Exceptions

LEMMA ExceptionTypes ==
  ASSUME NEW v
  PROVE  ExceptionType(v) \in {"benign", "contributory", "page_fault", "double"}
BY DEF ExceptionType

\* Outside EndStep nothing is claimed of the result.
LEMMA InFlight ==
  ASSUME TypeOK', Progress', pc' # "returned"
  PROVE  BInv'
BY DEF BInv, OneInstruction, OutcomeIsExact, FaultRestoresState, FaultIsDescribed, RanOne

-----------------------------------------------------------------------------
(* Between steps *)

LEMMA CalledKeeps ==
  ASSUME BInv, Callable, Called,
         rip' \in 0..MaxRip /\ prev_rip' \in 0..MaxRip /\ rsp' \in Rsps /\ flags' \in Flags,
         UNCHANGED <<prev_rsp, speculative_rsp>>
  PROVE  BInv'
<1>1. /\ pc' = "api" /\ before' = Caller' /\ ran' = <<>>
      /\ UNCHANGED <<EXT, last_exception_type, activity_state, async_event,
                     kill_bochs_request, g_step, pending, guard, outcome, last_fault, delivered>>
  BY DEF Called, events, stop, results
<1>2. TypeOK'
  <2>1. Caller' \in [rip : 0..MaxRip, rsp : Rsps, flags : Flags]
    BY DEF Caller
  <2>2. rip' \in 0..(MaxRip + 1)
    BY BoundsAssumption
  <2>3. ran' \in Seq(Instrs)
    BY <1>1
  <2> QED BY <2>1, <2>2, <2>3, <1>1 DEF BInv, TypeOK
<1>3. Progress'
  BY <1>1 DEF BInv, Progress, Callable
<1> QED BY <1>1, <1>2, <1>3, InFlight

LEMMA WritesKeep ==
  ASSUME BInv,
         \/ \E v \in 0..MaxRip : set_rip(v)
         \/ \E v \in Rsps : set_rsp(v)
         \/ \E f \in Flags : set_rflags(f)
  PROVE  BInv'
<1>1. /\ Callable /\ Called
      /\ rip' \in 0..MaxRip /\ prev_rip' \in 0..MaxRip
      /\ rsp' \in Rsps /\ flags' \in Flags
      /\ UNCHANGED <<prev_rsp, speculative_rsp>>
  BY DEF BInv, TypeOK, Progress, set_rip, set_rsp, set_rflags, Callable, rollback
<1> QED BY <1>1, CalledKeeps

LEMMA IdleFacts ==
  /\ Idle \in Callbacks
  /\ [Idle EXCEPT !.armed = TRUE]
       \in Callbacks
  /\ [Idle EXCEPT !.armed = TRUE].armed /\ ~[Idle EXCEPT !.armed = TRUE].faulted
  /\ Nothing \in Exceptions
<1>1. Nothing \in Exceptions
  BY DEF Nothing, Raised, Exceptions
<1> QED BY <1>1 DEF Idle, Callbacks

LEMMA RenewKeeps ==
  ASSUME BInv, Renew
  PROVE  BInv'
<1>1. /\ pc' = "api" /\ rip' = 0 /\ rsp' = 0 /\ flags' = 0 /\ prev_rip' = 0
      /\ speculative_rsp' = FALSE /\ EXT' = FALSE /\ last_exception_type' = "none"
      /\ activity_state' = "active" /\ g_step' = Idle /\ outcome' = NoResult
      /\ last_fault' = NoFault /\ before' = Caller' /\ ran' = <<>> /\ delivered' = FALSE
      /\ UNCHANGED <<prev_rsp, async_event, kill_bochs_request, pending, guard>>
  BY DEF Renew, stop
<1>2. TypeOK'
  <2>1. rip' \in 0..MaxRip /\ prev_rip' \in 0..MaxRip /\ rsp' \in Rsps /\ flags' \in Flags
        /\ rip' \in 0..(MaxRip + 1)
    BY <1>1, BoundsAssumption DEF Flags
  <2>2. before' \in [rip : 0..MaxRip, rsp : Rsps, flags : Flags]
    BY <2>1, <1>1 DEF Caller
  <2>3. outcome' \in [kind : {"none", "retired", "fault"}, vec : Vectors \cup {NoVector}, code : Nat]
    BY <1>1 DEF NoResult
  <2>4. last_fault' \in Exceptions
    BY <1>1, IdleFacts DEF NoFault
  <2>5. ran' \in Seq(Instrs)
    BY <1>1
  <2> QED BY <1>1, <2>1, <2>2, <2>3, <2>4, <2>5, IdleFacts
     DEF BInv, TypeOK, Callbacks, Exceptions
<1>3. Progress'
  BY <1>1, BoundsAssumption DEF Progress, Callable
<1> QED BY <1>1, <1>2, <1>3, InFlight

-----------------------------------------------------------------------------
(* The driver *)

LEMMA BeginKeeps ==
  ASSUME BInv, BeginStep
  PROVE  BInv'
<1>1. /\ Callable /\ g_step' = [Idle EXCEPT !.armed = TRUE]
      /\ async_event' = FALSE /\ kill_bochs_request' = FALSE /\ guard' = 0 /\ pc' = "guard"
      /\ before' = Caller /\ ran' = <<>>
      /\ UNCHANGED <<rip, rsp, flags, prev_rip, prev_rsp, speculative_rsp, EXT,
                     last_exception_type, activity_state, pending, outcome, last_fault>>
  BY DEF BeginStep, regs, rollback, events, results
<1>0. delivered' \in BOOLEAN /\ (delivered' <=> delivered \/ outcome.kind = "fault")
  BY DEF BeginStep
<1>2. TypeOK /\ rip \in 0..MaxRip /\ (EXT => delivered \/ outcome.kind = "fault")
  BY <1>1 DEF BInv, Progress, Callable
<1>3. TypeOK'
  <2>1. before' \in [rip : 0..MaxRip, rsp : Rsps, flags : Flags]
    BY <1>1, <1>2 DEF Caller, TypeOK
  <2>2. guard' \in 0..GuardLimit
    BY <1>1, GuardAssumption
  <2>3. {speculative_rsp, EXT, async_event, kill_bochs_request, delivered}' \subseteq BOOLEAN
    BY <1>0, <1>1, <1>2 DEF TypeOK
  <2>4. ran' \in Seq(Instrs)
    BY <1>1
  <2>5. g_step' \in Callbacks
    BY <1>1, IdleFacts
  <2> QED BY <1>1, <1>2, <2>1, <2>2, <2>3, <2>4, <2>5
     DEF TypeOK, Callbacks, Exceptions
<1>4. Untouched'
  BY <1>0, <1>1, <1>2, IdleFacts DEF Untouched, Quiet, OwnEXT, Caller
<1>5. Progress'
  BY <1>1, <1>2, <1>4 DEF Progress, Callable
<1> QED BY <1>1, <1>3, <1>5, InFlight

\* The types of what the core changes.
LEMMA TypeKeeps ==
  ASSUME TypeOK,
         /\ rip' \in 0..(MaxRip + 1) /\ prev_rip' \in 0..MaxRip
         /\ rsp' \in Rsps /\ prev_rsp' \in Rsps /\ flags' \in Flags
         /\ speculative_rsp' \in BOOLEAN /\ EXT' \in BOOLEAN
         /\ async_event' \in BOOLEAN /\ kill_bochs_request' \in BOOLEAN
         /\ last_exception_type' \in {"none", "benign", "contributory", "page_fault", "double"}
         /\ activity_state' \in {"active", "hlt", "shutdown"}
         /\ g_step' \in Callbacks
         /\ pc' \in {"api", "guard", "cpu_loop", "top", "exception", "interrupt", "returned"}
         /\ pending' \in Exceptions
         /\ guard' \in 0..GuardLimit /\ ran' \in Seq(Instrs),
         UNCHANGED <<outcome, last_fault, before, delivered>>
  PROVE  TypeOK'
BY DEF TypeOK, Callbacks, Exceptions

\* The position of the step does not depend on where the code is.
LEMMA PositionStays ==
  ASSUME UNCHANGED <<rip, rsp, flags, EXT, async_event, kill_bochs_request, g_step,
                     before, ran, delivered>>
  PROVE  (Untouched' <=> Untouched) /\ (Completed' <=> Completed) /\ (Aborted' <=> Aborted)
BY DEF Untouched, Completed, Aborted, Quiet, Stopping, OwnEXT, Caller, Faulty, Caught, Named

LEMMA CallLoopKeeps ==
  ASSUME BInv, CallLoop
  PROVE  BInv'
<1>1. /\ pc = "guard" /\ guard < GuardLimit /\ ~kill_bochs_request
      /\ guard' = guard + 1 /\ pc' = "cpu_loop"
      /\ UNCHANGED <<rip, rsp, flags, prev_rip, prev_rsp, speculative_rsp, EXT,
                     last_exception_type, activity_state, async_event, kill_bochs_request,
                     g_step, pending, outcome, last_fault, before, ran, delivered>>
  BY DEF CallLoop, regs, rollback, events, stop, results, history
<1>2. TypeOK'
  <2>1. guard' \in 0..GuardLimit
    BY <1>1, GuardAssumption DEF BInv, TypeOK
  <2> QED BY <2>1, <1>1 DEF BInv, TypeOK
<1>3. Untouched' /\ rip' \in 0..MaxRip
  BY <1>1, PositionStays DEF BInv, Progress, Completed, Aborted, Caught, Stopping
<1>4. Progress'
  BY <1>1, <1>3 DEF Progress, Callable
<1> QED BY <1>1, <1>2, <1>4, InFlight

\* cpu_loop is left, or the guard is used up, only once the instruction is done.
LEMMA EndFacts ==
  ASSUME BInv, EndStep
  PROVE  Result /\ (Completed \/ Aborted)
BY GuardAssumption DEF EndStep, BInv, Progress, Untouched, Quiet

LEMMA EndKeeps ==
  ASSUME BInv, EndStep
  PROVE  BInv'
<1>1. /\ pc = "guard" /\ Result /\ pc' = "returned"
      /\ async_event' = FALSE /\ kill_bochs_request' = FALSE
      /\ g_step' = [g_step EXCEPT !.armed = FALSE]
      /\ UNCHANGED <<rip, rsp, flags, prev_rip, prev_rsp, speculative_rsp, EXT,
                     last_exception_type, activity_state, pending, guard,
                     before, ran, delivered>>
  BY DEF EndStep, regs, rollback, events, history
<1>2. /\ TypeOK /\ rip \in 0..MaxRip
      /\ Retired \in [kind : {"none", "retired", "fault"}, vec : Vectors \cup {NoVector}, code : Nat]
      /\ Retired.kind = "retired" /\ NoFault \in Exceptions
  BY <1>1, IdleFacts DEF BInv, Progress, Retired, NoFault, Exceptions
<1>3. CASE Completed
  <2>1. outcome' = Retired /\ last_fault' = NoFault
    BY <1>1, <1>3 DEF Result, Completed
  <2>2. TypeOK'
    BY <1>1, <1>2, <2>1 DEF TypeOK, Exceptions
  <2>3. Progress'
    BY <1>1, <1>2, <1>3, <2>1 DEF Progress, Callable, Completed, OwnEXT
  <2>4. OneInstruction' /\ OutcomeIsExact' /\ FaultRestoresState' /\ FaultIsDescribed'
    BY <1>1, <1>2, <1>3, <2>1
       DEF OneInstruction, OutcomeIsExact, FaultRestoresState, FaultIsDescribed, RanOne, Completed
  <2> QED BY <2>2, <2>3, <2>4 DEF BInv
<1>4. CASE Aborted
  <2> DEFINE w == g_step.what
  <2>1. outcome' = Faulted(w) /\ last_fault' = w /\ Named(ran[1], w)
    BY <1>1, <1>4 DEF Result, Aborted, Caught
  <2>2. /\ w \in Exceptions /\ w.vec \in Vectors
        /\ w # NoFault
    <3>1. w \in Exceptions
      BY <1>2 DEF TypeOK, Exceptions
    <3>2. w.vec \in Vectors
      BY <2>1 DEF Named
    <3>3. NoFault.vec \notin Vectors
      BY DEF NoFault, Nothing, Raised, Vectors, NoVector
    <3> QED BY <3>1, <3>2, <3>3
  <2> HIDE DEF w
  <2>3. /\ outcome' \in [kind : {"none", "retired", "fault"}, vec : Vectors \cup {NoVector}, code : Nat]
        /\ outcome'.kind = "fault" /\ outcome'.vec = w.vec /\ outcome'.code = w.code
    BY <2>1, <2>2 DEF Faulted, Exceptions
  <2>4. TypeOK'
    BY <1>1, <1>2, <2>1, <2>2, <2>3 DEF TypeOK, Exceptions
  <2>5. Progress'
    BY <1>1, <1>2, <2>3 DEF Progress, Callable
  <2>6. OneInstruction' /\ FaultRestoresState' /\ FaultIsDescribed'
    BY <1>1, <1>4, <2>1, <2>2, <2>3
       DEF OneInstruction, FaultRestoresState, FaultIsDescribed, RanOne, Aborted, Faulty
  <2>7. OutcomeIsExact'
    BY <1>1, <1>4, <2>1, <2>3 DEF OutcomeIsExact, RanOne, Aborted, Faulty, Named
  <2> QED BY <2>4, <2>5, <2>6, <2>7 DEF BInv
<1> QED BY <1>3, <1>4, EndFacts

-----------------------------------------------------------------------------
(* cpu_loop *)

LEMMA CommitKeeps ==
  ASSUME BInv, CommitRip
  PROVE  BInv'
<1>1. /\ pc = "cpu_loop" /\ prev_rip' = rip /\ speculative_rsp' = FALSE /\ pc' = "top"
      /\ UNCHANGED <<rip, rsp, flags, prev_rsp, EXT, last_exception_type, activity_state,
                     async_event, kill_bochs_request, g_step, pending, guard, outcome,
                     last_fault, before, ran, delivered>>
  BY DEF CommitRip, regs, events, stop, results, history
<1>2. TypeOK /\ rip \in 0..MaxRip /\ (Untouched \/ Aborted)
  BY <1>1 DEF BInv, Progress
<1>3. TypeOK'
  <2>1. prev_rip' \in 0..MaxRip /\ speculative_rsp' \in BOOLEAN
        /\ pc' \in {"api", "guard", "cpu_loop", "top", "exception", "interrupt", "returned"}
    BY <1>1, <1>2
  <2> QED BY <1>1, <1>2, <2>1, TypeKeeps DEF TypeOK, Callbacks, Exceptions
<1>4. Progress'
  BY <1>1, <1>2, PositionStays DEF Progress, Callable
<1> QED BY <1>1, <1>3, <1>4, InFlight

LEMMA LeaveKeeps ==
  ASSUME BInv, LeaveLoop
  PROVE  BInv'
<1>1. /\ pc = "top" /\ kill_bochs_request /\ pc' = "guard"
      /\ UNCHANGED <<rip, rsp, flags, prev_rip, prev_rsp, speculative_rsp, EXT,
                     last_exception_type, activity_state, async_event, kill_bochs_request,
                     g_step, pending, guard, outcome, last_fault, before, ran, delivered>>
  BY DEF LeaveLoop, regs, rollback, events, stop, results, history
<1>2. TypeOK /\ rip \in 0..MaxRip /\ (Completed \/ Aborted)
  BY <1>1 DEF BInv, Progress, Untouched, Quiet
<1>3. TypeOK'
  BY <1>1, <1>2 DEF TypeOK
<1>4. Progress'
  BY <1>1, <1>2, PositionStays DEF Progress, Callable
<1> QED BY <1>1, <1>3, <1>4, InFlight

\* An instruction runs only as the first of the step.
LEMMA RunsFacts ==
  ASSUME BInv, NEW i \in Instrs, Runs(i)
  PROVE  /\ pc = "top" /\ TypeOK /\ Untouched /\ rip \in 0..MaxRip
         /\ prev_rip = rip /\ ~speculative_rsp
         /\ ran' = <<i>> /\ ran' \in Seq(Instrs) /\ Len(ran') = 1 /\ ran'[1] = i
         /\ UNCHANGED <<before, delivered, guard, outcome, last_fault>>
<1>1. /\ pc = "top" /\ (async_event => ~kill_bochs_request) /\ ran' = Append(ran, i)
      /\ UNCHANGED <<before, delivered, guard, outcome, last_fault>>
  BY DEF Runs, results
<1>2. /\ TypeOK /\ rip \in 0..MaxRip /\ prev_rip = rip /\ ~speculative_rsp
      /\ Untouched \/ Completed \/ Aborted
  BY <1>1 DEF BInv, Progress
<1>3. Untouched
  BY <1>1, <1>2 DEF Completed, Aborted, Caught, Stopping
<1>4. ran' = <<i>>
  BY <1>1, <1>3 DEF Untouched
<1> QED BY <1>1, <1>2, <1>3, <1>4

\* What bx_instr_exception does to g_step.
LEMMA CallbackFacts ==
  ASSUME NEW g \in Callbacks, NEW e \in Exceptions
  PROVE  /\ [g EXCEPT !.faulted = TRUE, !.what = e] \in Callbacks
         /\ [g EXCEPT !.faulted = TRUE, !.what = e].faulted
         /\ [g EXCEPT !.faulted = TRUE, !.what = e].what = e
         /\ [g EXCEPT !.faulted = TRUE, !.what = e].armed = g.armed
BY DEF Callbacks

LEMMA RetireKeeps ==
  ASSUME BInv, NEW i \in Instrs, Retire(i)
  PROVE  BInv'
<1>1. /\ Runs(i) /\ i.cls \in {"next", "rep", "sti"} /\ AfterExecution
      /\ rip' = rip \/ (rip < MaxRip /\ rip' = rip + 1)
      /\ flags' = IF i.cls = "sti" THEN Without(flags, IF_FLAG) + IF_FLAG ELSE flags
      /\ UNCHANGED <<rsp, prev_rsp, speculative_rsp, EXT, last_exception_type,
                     activity_state, pc, pending>>
  BY DEF Retire, events
<1>2. /\ pc = "top" /\ TypeOK /\ Untouched /\ rip \in 0..MaxRip
      /\ prev_rip = rip /\ ~speculative_rsp
      /\ ran' \in Seq(Instrs) /\ Len(ran') = 1 /\ ran'[1] = i
      /\ UNCHANGED <<before, delivered, guard, outcome, last_fault>>
  BY <1>1, RunsFacts
<1>3. /\ prev_rip' = rip' /\ async_event' = TRUE /\ kill_bochs_request' = TRUE
      /\ g_step' = [g_step EXCEPT !.retired = TRUE]
  BY <1>1, <1>2 DEF AfterExecution, Untouched, RequestStop
<1>4. g_step' \in Callbacks /\ ~g_step'.faulted
  <2>1. g_step \in Callbacks /\ ~g_step.faulted
    BY <1>2 DEF TypeOK, Callbacks, Exceptions, Untouched
  <2> QED BY <2>1, <1>3 DEF Callbacks
<1>5. rip' \in 0..MaxRip /\ flags' \in Flags /\ flags' % 2 = flags % 2
  BY <1>1, <1>2, BoundsAssumption, FlagFacts DEF TypeOK
<1>6. TypeOK'
  <2>1. rip' \in 0..(MaxRip + 1) /\ async_event' \in BOOLEAN /\ kill_bochs_request' \in BOOLEAN
    BY <1>3, <1>5, BoundsAssumption
  <2> QED BY <1>1, <1>2, <1>3, <1>4, <1>5, <2>1, TypeKeeps DEF TypeOK, Exceptions
<1>7. Completed'
  BY <1>1, <1>2, <1>3, <1>4, <1>5
     DEF Completed, Stopping, Untouched, OwnEXT, Caller
<1>8. Progress'
  BY <1>1, <1>2, <1>3, <1>5, <1>7 DEF Progress, Callable
<1> QED BY <1>1, <1>2, <1>6, <1>8, InFlight

LEMMA HaltKeeps ==
  ASSUME BInv, NEW i \in Instrs, Halt(i)
  PROVE  BInv'
<1>1. /\ Runs(i) /\ i.cls = "hlt" /\ rip < MaxRip /\ rip' = rip + 1
      /\ activity_state' = "hlt" /\ async_event' = TRUE /\ kill_bochs_request' = TRUE
      /\ prev_rip' = rip'
      /\ UNCHANGED <<rsp, flags, prev_rsp, speculative_rsp, EXT, last_exception_type,
                     pc, pending>>
  BY DEF Halt, RequestStop
<1>2. /\ pc = "top" /\ TypeOK /\ Untouched /\ rip \in 0..MaxRip
      /\ prev_rip = rip /\ ~speculative_rsp
      /\ ran' \in Seq(Instrs) /\ Len(ran') = 1 /\ ran'[1] = i
      /\ UNCHANGED <<before, delivered, guard, outcome, last_fault>>
  BY <1>1, RunsFacts
<1>3. g_step' \in Callbacks /\ ~g_step'.faulted
  <2>1. g_step \in Callbacks /\ ~g_step.faulted
    BY <1>2 DEF TypeOK, Callbacks, Exceptions, Untouched
  <2>2. g_step' = [g_step EXCEPT !.halted = TRUE, !.retired = TRUE]
    BY <1>2 DEF Halt, Untouched
  <2> QED BY <2>1, <2>2 DEF Callbacks
<1>4. rip' \in 0..MaxRip
  BY <1>1, <1>2, BoundsAssumption
<1>5. TypeOK'
  <2>1. rip' \in 0..(MaxRip + 1) /\ async_event' \in BOOLEAN /\ kill_bochs_request' \in BOOLEAN
        /\ activity_state' \in {"active", "hlt", "shutdown"}
    BY <1>1, <1>4, BoundsAssumption
  <2> QED BY <1>1, <1>2, <1>3, <1>4, <2>1, TypeKeeps DEF TypeOK, Exceptions
<1>6. Completed'
  BY <1>1, <1>2, <1>3 DEF Completed, Stopping, Untouched, OwnEXT, Caller
<1>7. Progress'
  BY <1>1, <1>2, <1>4, <1>6 DEF Progress, Callable
<1> QED BY <1>1, <1>2, <1>5, <1>7, InFlight

LEMMA RaiseKeeps ==
  ASSUME BInv, NEW i \in Instrs, Raise(i)
  PROVE  BInv'
<1>1. /\ Runs(i) /\ i.cls \in {"fault", "push"} /\ rip' = rip + 1
      /\ \/ rsp' \in Rsps /\ prev_rsp' = rsp /\ speculative_rsp' = TRUE
         \/ UNCHANGED <<rsp, prev_rsp, speculative_rsp>>
      /\ pending' = Raised(i.vec, i.code) /\ pc' = "exception"
      /\ UNCHANGED <<flags, prev_rip, EXT, last_exception_type, activity_state,
                     async_event, kill_bochs_request, g_step>>
  BY DEF Raise, events, stop
<1>2. /\ TypeOK /\ Untouched /\ rip \in 0..MaxRip /\ prev_rip = rip /\ ~speculative_rsp
      /\ ran' \in Seq(Instrs) /\ Len(ran') = 1 /\ ran'[1] = i
      /\ UNCHANGED <<before, delivered, guard, outcome, last_fault>>
  BY <1>1, RunsFacts
<1>3. TypeOK'
  <2>1. rip' \in 0..(MaxRip + 1)
    BY <1>1, <1>2, BoundsAssumption
  <2>2. rsp' \in Rsps /\ prev_rsp' \in Rsps /\ speculative_rsp' \in BOOLEAN
    BY <1>1, <1>2 DEF TypeOK
  <2>3. pending' \in Exceptions
    BY <1>1, InstrFacts
  <2>4. pc' \in {"api", "guard", "cpu_loop", "top", "exception", "interrupt", "returned"}
    BY <1>1
  <2> QED BY <1>1, <1>2, <2>1, <2>2, <2>3, <2>4, TypeKeeps DEF TypeOK, Callbacks, Exceptions
<1>4. Unwinding'
  <2>1. (before.rsp = IF speculative_rsp THEN prev_rsp ELSE rsp)'
    BY <1>1, <1>2 DEF Untouched, Caller
  <2>2. /\ Faulty' /\ g_step'.armed /\ pending'.vec \in Vectors
        /\ prev_rip' = before'.rip /\ flags' = before'.flags
    BY <1>1, <1>2, InstrFacts DEF Faulty, Untouched, Caller, Raised
  <2>3. ~g_step'.faulted /\ Quiet' /\ OwnEXT'
    BY <1>1, <1>2 DEF Untouched, Quiet, OwnEXT
  <2> QED BY <2>1, <2>2, <2>3, <1>1, <1>2 DEF Unwinding
<1>5. Progress'
  BY <1>1, <1>4 DEF Progress, Callable
<1> QED BY <1>1, <1>3, <1>5, InFlight

LEMMA SoftKeeps ==
  ASSUME BInv, NEW i \in Instrs, SoftInterrupt(i)
  PROVE  BInv'
<1>1. /\ Runs(i) /\ i.cls = "soft" /\ rip' = rip + 1
      /\ pending' = Raised(i.vec, 0) /\ pc' = "interrupt"
      /\ UNCHANGED <<rsp, flags, prev_rip, prev_rsp, speculative_rsp, last_exception_type,
                     activity_state, async_event, kill_bochs_request, g_step>>
  BY DEF SoftInterrupt, rollback, stop
<1>2. /\ TypeOK /\ Untouched /\ rip \in 0..MaxRip /\ prev_rip = rip /\ ~speculative_rsp
      /\ ran' \in Seq(Instrs) /\ Len(ran') = 1 /\ ran'[1] = i
      /\ UNCHANGED <<before, delivered, guard, outcome, last_fault>>
  BY <1>1, RunsFacts
<1>3. TypeOK'
  <2>1. rip' \in 0..(MaxRip + 1)
    BY <1>1, <1>2, BoundsAssumption
  <2>2. EXT' \in BOOLEAN
    BY DEF SoftInterrupt
  <2>3. pending' \in Exceptions
    BY <1>1, InstrFacts DEF Raised, Exceptions
  <2>4. pc' \in {"api", "guard", "cpu_loop", "top", "exception", "interrupt", "returned"}
    BY <1>1
  <2> QED BY <1>1, <1>2, <2>1, <2>2, <2>3, <2>4, TypeKeeps DEF TypeOK, Callbacks, Exceptions
<1>4. Unwinding'
  <2>1. (before.rsp = IF speculative_rsp THEN prev_rsp ELSE rsp)'
    BY <1>1, <1>2 DEF Untouched, Caller
  <2>2. /\ Faulty' /\ g_step'.armed /\ pending'.vec \in Vectors
        /\ prev_rip' = before'.rip /\ flags' = before'.flags
    BY <1>1, <1>2, InstrFacts DEF Faulty, Untouched, Caller, Raised
  <2>3. ~g_step'.faulted /\ Quiet'
    BY <1>1, <1>2 DEF Untouched, Quiet
  <2> QED BY <2>1, <2>2, <2>3, <1>1, <1>2 DEF Unwinding
<1>5. Progress'
  BY <1>1, <1>2, <1>4 DEF Progress, Callable
<1> QED BY <1>1, <1>3, <1>5, InFlight

-----------------------------------------------------------------------------
(* exception() and interrupt() *)

\* bx_instr_exception keeps the first exception, and the stop has been asked for
\* by the time there is one.
LEMMA RecordFacts ==
  ASSUME BInv, pc = "exception"
  PROVE  /\ Recorded \in Callbacks /\ Recorded.armed /\ Recorded.faulted
         /\ Named(ran[1], Recorded.what)
         /\ Recorded = g_step => Stopping
<1>1. /\ TypeOK /\ Unwinding /\ Faulty
      /\ g_step \in Callbacks /\ pending \in Exceptions /\ ran[1] \in Instrs
  <2>1. TypeOK /\ Unwinding /\ Faulty /\ ran \in Seq(Instrs) /\ Len(ran) = 1
    BY DEF BInv, Progress, Unwinding, Faulty, TypeOK
  <2>2. \A k \in 1..Len(ran) : ran[k] \in Instrs
    BY <2>1
  <2>3. ran[1] \in Instrs
    BY <2>1, <2>2
  <2> QED BY <2>1, <2>3 DEF TypeOK, Callbacks, Exceptions
<1>2. CASE Caught
  <2>1. Recorded = g_step
    BY <1>2 DEF Recorded, Caught
  <2> QED BY <2>1, <1>1, <1>2 DEF Unwinding, Caught
<1>3. CASE ~g_step.faulted
  <2> DEFINE w == Raised(pending.vec, ErrorCode(pending))
  <2>1. Recorded = [g_step EXCEPT !.faulted = TRUE, !.what = w]
    BY <1>1, <1>3 DEF Recorded, Unwinding
  <2>2. /\ w \in Exceptions /\ w.vec = pending.vec /\ w.code = ErrorCode(pending)
        /\ ErrorCode(pending) \div 2 = pending.code \div 2
    BY <1>1, CodeFacts DEF Raised, Exceptions
  <2> HIDE DEF w
  <2>3. /\ Recorded \in Callbacks /\ Recorded.armed /\ Recorded.faulted /\ Recorded.what = w
    BY <2>1, <2>2, <1>1, CallbackFacts DEF Unwinding
  <2>4. Named(ran[1], w)
    <3>1. CASE ran[1].cls \in {"fault", "push"}
      <4>1. pending = Raised(ran[1].vec, ran[1].code) /\ OwnEXT
        BY <3>1, <1>1, <1>3 DEF Unwinding, Caught
      <4>2. pending.vec = ran[1].vec /\ pending.code = ran[1].code
        BY <4>1 DEF Raised
      <4>3. ~delivered => w.code = ran[1].code
        BY <3>1, <4>1, <4>2, <2>2, <1>1, CodeFacts, InstrFacts DEF OwnEXT
      <4> QED BY <4>2, <4>3, <2>2, <1>1 DEF Named, Unwinding
    <3>2. CASE ran[1].cls \notin {"fault", "push"}
      BY <3>2, <2>2, <1>1 DEF Named, Unwinding
    <3> QED BY <3>1, <3>2
  <2> QED BY <2>3, <2>4, <1>3
<1> QED BY <1>1, <1>2, <1>3 DEF Unwinding

LEMMA RollBackFacts ==
  ASSUME BInv, pc = "exception", RollBack, UNCHANGED before
  PROVE  /\ rip' = before.rip /\ rsp' = before.rsp /\ speculative_rsp' = FALSE
         /\ rip' \in 0..MaxRip /\ rip' \in 0..(MaxRip + 1) /\ rsp' \in Rsps
         /\ UNCHANGED <<prev_rip, prev_rsp>> /\ flags = before.flags
<1>1. Unwinding /\ before \in [rip : 0..MaxRip, rsp : Rsps, flags : Flags]
  BY DEF BInv, Progress, TypeOK
<1>2. before.rip \in 0..(MaxRip + 1)
  BY <1>1, BoundsAssumption
<1> QED BY <1>1, <1>2 DEF RollBack, Unwinding

\* Past the first exception the step is stopping and the cascade goes on.
LEMMA RecordKeepsUnwinding ==
  ASSUME BInv, pc = "exception", Record, RollBack,
         pending' \in Exceptions, pending'.vec \in Vectors,
         UNCHANGED <<flags, before, ran, delivered>>
  PROVE  /\ Unwinding' /\ g_step' \in Callbacks
         /\ async_event' \in BOOLEAN /\ kill_bochs_request' \in BOOLEAN
<1>1. /\ g_step' = Recorded /\ g_step' \in Callbacks /\ g_step'.armed /\ g_step'.faulted
      /\ Named(ran[1], g_step'.what)
  BY RecordFacts DEF Record
<1>2. async_event' = TRUE /\ kill_bochs_request' = TRUE
  <2>1. CASE Recorded = g_step
    BY <2>1, RecordFacts DEF Record, stop, Stopping, BInv, TypeOK
  <2> QED BY <2>1 DEF Record, RequestStop
<1>3. Faulty /\ prev_rip = before.rip /\ flags = before.flags
  BY DEF BInv, Progress, Unwinding
<1>4. Caught'
  <2>1. Named(ran[1], g_step.what)'
    BY <1>1 DEF Named
  <2> QED BY <2>1, <1>1, <1>2 DEF Caught, Stopping
<1>5. /\ prev_rip' = before'.rip /\ flags' = before'.flags
      /\ (before.rsp = IF speculative_rsp THEN prev_rsp ELSE rsp)' /\ Faulty'
  BY <1>3, RollBackFacts DEF Faulty
<1> QED BY <1>1, <1>2, <1>4, <1>5 DEF Unwinding

LEMMA CascadeKeeps ==
  ASSUME BInv, DoubleFault \/ DeliverException
  PROVE  BInv'
<1>1. /\ pc = "exception" /\ Record /\ RollBack /\ EXT' = TRUE
      /\ pc' \in {"exception", "interrupt"}
      /\ pending' \in {Raised(DF, 0), pending}
      /\ last_exception_type' \in {last_exception_type, ExceptionType(pending.vec)}
      /\ UNCHANGED <<flags, activity_state, guard, outcome, last_fault, before, ran, delivered>>
  BY DEF DoubleFault, DeliverException, results, history
<1>2. TypeOK /\ Unwinding
  BY <1>1 DEF BInv, Progress
<1>3. pending' \in Exceptions /\ pending'.vec \in Vectors
  <2>1. Raised(DF, 0) \in Exceptions /\ Raised(DF, 0).vec \in Vectors
    BY DEF Raised, DF, Exceptions, Vectors
  <2> QED BY <2>1, <1>1, <1>2 DEF Unwinding, TypeOK, Exceptions
<1>4. /\ Unwinding' /\ g_step' \in Callbacks
      /\ async_event' \in BOOLEAN /\ kill_bochs_request' \in BOOLEAN
  BY <1>1, <1>3, RecordKeepsUnwinding
<1>5. TypeOK'
  <2>1. last_exception_type' \in {"none", "benign", "contributory", "page_fault", "double"}
    BY <1>1, <1>2, ExceptionTypes DEF TypeOK
  <2>2. /\ rip' \in 0..(MaxRip + 1) /\ rsp' \in Rsps /\ speculative_rsp' \in BOOLEAN
        /\ UNCHANGED <<prev_rip, prev_rsp>>
    BY <1>1, RollBackFacts
  <2>3. pc' \in {"api", "guard", "cpu_loop", "top", "exception", "interrupt", "returned"}
        /\ EXT' \in BOOLEAN
    BY <1>1
  <2> QED BY <1>1, <1>2, <1>3, <1>4, <2>1, <2>2, <2>3, TypeKeeps DEF TypeOK, Exceptions
<1>6. Progress'
  BY <1>1, <1>4, RollBackFacts DEF Progress, Callable
<1> QED BY <1>1, <1>5, <1>6, InFlight

LEMMA ThirdKeeps ==
  ASSUME BInv, ThirdException
  PROVE  BInv'
<1>1. /\ pc = "exception" /\ RollBack /\ flags' = Without(flags, IF_FLAG)
      /\ activity_state' = "shutdown" /\ async_event' = TRUE /\ kill_bochs_request' = TRUE
      /\ g_step' = [Recorded EXCEPT !.halted = TRUE] /\ pc' = "cpu_loop"
      /\ UNCHANGED <<EXT, last_exception_type, pending, guard, outcome, last_fault,
                     before, ran, delivered>>
  BY DEF ThirdException, RequestStop, results, history
<1>2. TypeOK /\ Faulty
  BY <1>1 DEF BInv, Progress, Unwinding
<1>3. /\ rip' = before.rip /\ rsp' = before.rsp /\ speculative_rsp' = FALSE
      /\ rip' \in 0..MaxRip /\ rip' \in 0..(MaxRip + 1) /\ rsp' \in Rsps
      /\ UNCHANGED <<prev_rip, prev_rsp>> /\ flags = before.flags
  BY <1>1, RollBackFacts
<1>4. g_step' \in Callbacks /\ g_step'.faulted /\ Named(ran[1], g_step'.what)
  <2>1. Recorded \in Callbacks /\ Recorded.faulted /\ Named(ran[1], Recorded.what)
    BY <1>1, RecordFacts
  <2> HIDE DEF Recorded
  <2>2. /\ [Recorded EXCEPT !.halted = TRUE] \in Callbacks
        /\ [Recorded EXCEPT !.halted = TRUE].faulted = Recorded.faulted
        /\ [Recorded EXCEPT !.halted = TRUE].what = Recorded.what
    BY <2>1 DEF Callbacks
  <2> QED BY <2>1, <2>2, <1>1
<1>5. flags' \in Flags /\ flags' % 2 = flags % 2
  BY <1>1, <1>2, FlagFacts DEF TypeOK
<1>6. TypeOK'
  <2>1. /\ async_event' \in BOOLEAN /\ kill_bochs_request' \in BOOLEAN
        /\ speculative_rsp' \in BOOLEAN /\ activity_state' \in {"active", "hlt", "shutdown"}
        /\ pc' \in {"api", "guard", "cpu_loop", "top", "exception", "interrupt", "returned"}
    BY <1>1, <1>3
  <2> QED BY <1>1, <1>2, <1>3, <1>4, <1>5, <2>1, TypeKeeps DEF TypeOK, Exceptions
<1>7. Aborted'
  <2>1. Named(ran[1], g_step.what)'
    BY <1>1, <1>4 DEF Named
  <2>2. Caught' /\ Faulty'
    BY <2>1, <1>1, <1>2, <1>4 DEF Caught, Stopping, Faulty
  <2> QED BY <2>2, <1>1, <1>3, <1>5 DEF Aborted
<1>8. Progress'
  BY <1>1, <1>3, <1>7 DEF Progress, Callable
<1> QED BY <1>1, <1>6, <1>8, InFlight

LEMMA GateKeeps ==
  ASSUME BInv, GateMissing
  PROVE  BInv'
<1>1. /\ pc = "interrupt" /\ activity_state' = "active"
      /\ prev_rsp' = rsp /\ speculative_rsp' = TRUE
      /\ pending' = Raised(GP, pending.vec * 8 + 2) /\ pc' = "exception"
      /\ UNCHANGED <<rip, rsp, flags, prev_rip, EXT, last_exception_type, async_event,
                     kill_bochs_request, g_step, guard, outcome, last_fault,
                     before, ran, delivered>>
  BY DEF GateMissing, regs, stop, results, history
<1>2. TypeOK /\ Unwinding /\ ~speculative_rsp
  BY <1>1 DEF BInv, Progress
<1>3. pending' \in Exceptions /\ pending'.vec \in Vectors
  <2>1. pending.vec * 8 + 2 \in Nat /\ GP \in Vectors
    BY <1>2 DEF Unwinding, Vectors, GP
  <2> QED BY <2>1, <1>1 DEF Raised, Exceptions
<1>4. TypeOK'
  <2>1. /\ prev_rsp' \in Rsps /\ speculative_rsp' \in BOOLEAN
        /\ activity_state' \in {"active", "hlt", "shutdown"}
        /\ pc' \in {"api", "guard", "cpu_loop", "top", "exception", "interrupt", "returned"}
    BY <1>1, <1>2 DEF TypeOK
  <2> QED BY <1>1, <1>2, <1>3, <2>1, TypeKeeps DEF TypeOK, Callbacks, Exceptions
<1>5. Unwinding'
  <2>1. Caught' <=> Caught
    BY <1>1 DEF Caught, Stopping, Named
  <2>2. Caught \/ (~g_step.faulted /\ Quiet /\ ran[1].cls = "soft")
    BY <1>1, <1>2 DEF Unwinding
  <2>3. (before.rsp = IF speculative_rsp THEN prev_rsp ELSE rsp)'
    BY <1>1, <1>2 DEF Unwinding
  <2> QED BY <2>1, <2>2, <2>3, <1>1, <1>2, <1>3 DEF Unwinding, Faulty, Quiet
<1>6. Progress'
  BY <1>1, <1>5 DEF Progress, Callable
<1> QED BY <1>1, <1>4, <1>6, InFlight

-----------------------------------------------------------------------------
(* The theorems *)

LEMMA BInit == Init => BInv
<1> SUFFICES ASSUME Init PROVE BInv
  OBVIOUS
<1>1. TypeOK
  <2>1. /\ rip \in 0..(MaxRip + 1) /\ rip \in 0..MaxRip /\ prev_rip \in 0..MaxRip
        /\ rsp \in Rsps /\ prev_rsp \in Rsps /\ flags \in Flags
        /\ guard \in 0..GuardLimit
    BY BoundsAssumption, GuardAssumption DEF Init, Flags
  <2>2. before \in [rip : 0..MaxRip, rsp : Rsps, flags : Flags]
    BY <2>1 DEF Init, Caller
  <2>3. /\ g_step \in Callbacks /\ pending \in Exceptions /\ last_fault \in Exceptions
    BY IdleFacts DEF Init, NoFault
  <2>4. outcome \in [kind : {"none", "retired", "fault"}, vec : Vectors \cup {NoVector}, code : Nat]
    BY DEF Init, NoResult
  <2>5. {speculative_rsp, EXT, async_event, kill_bochs_request, delivered} \subseteq BOOLEAN
    BY DEF Init
  <2>6. /\ last_exception_type \in {"none", "benign", "contributory", "page_fault", "double"}
        /\ activity_state \in {"active", "hlt", "shutdown"}
        /\ pc \in {"api", "guard", "cpu_loop", "top", "exception", "interrupt", "returned"}
        /\ ran \in Seq(Instrs)
    BY DEF Init
  <2> QED BY <2>1, <2>2, <2>3, <2>4, <2>5, <2>6 DEF TypeOK, Callbacks, Exceptions
<1>2. Progress
  BY BoundsAssumption DEF Init, Progress, Callable
<1> QED BY <1>1, <1>2
       DEF BInv, Init, OneInstruction, OutcomeIsExact, FaultRestoresState, FaultIsDescribed, RanOne

LEMMA BStep == BInv /\ [Next]_vars => BInv'
<1> SUFFICES ASSUME BInv, [Next]_vars PROVE BInv'
  OBVIOUS
<1>1. CASE UNCHANGED vars
  <2>1. UNCHANGED <<rip, rsp, flags, prev_rip, prev_rsp, speculative_rsp, EXT,
                    last_exception_type, activity_state, async_event, kill_bochs_request,
                    g_step, pc, pending, guard, outcome, last_fault, before, ran, delivered>>
    BY <1>1 DEF vars, regs, rollback, events, stop, results, history
  <2>2. TypeOK'
    BY <2>1 DEF BInv, TypeOK
  <2>3. Unwinding' <=> Unwinding
    BY <2>1 DEF Unwinding, Faulty, Caught, Stopping, Quiet, OwnEXT, Named
  <2>4. Progress'
    BY <2>1, <2>3, PositionStays DEF BInv, Progress, Callable
  <2>5. OneInstruction' /\ FaultRestoresState'
    BY <2>1 DEF BInv, OneInstruction, FaultRestoresState, RanOne
  <2>6. OutcomeIsExact'
    BY <2>1 DEF BInv, OutcomeIsExact, RanOne
  <2>7. FaultIsDescribed'
    BY <2>1 DEF BInv, FaultIsDescribed
  <2> QED BY <2>2, <2>4, <2>5, <2>6, <2>7 DEF BInv
<1>2. CASE \/ \E v \in 0..MaxRip : set_rip(v)
           \/ \E v \in Rsps : set_rsp(v)
           \/ \E f \in Flags : set_rflags(f)
  BY <1>2, WritesKeep
<1>3. CASE Renew \/ BeginStep
  BY <1>3, RenewKeeps, BeginKeeps
<1>4. CASE Core
  BY <1>4, CommitKeeps, LeaveKeeps, ThirdKeeps, CascadeKeeps, GateKeeps, CallLoopKeeps,
     EndKeeps DEF Core
<1>5. CASE \E i \in Instrs : Program(i)
  BY <1>5, RetireKeeps, HaltKeeps, RaiseKeeps, SoftKeeps DEF Program
<1> QED BY <1>1, <1>2, <1>3, <1>4, <1>5 DEF Next

\* The inductive invariant.
THEOREM BochsInvariant == Spec => []BInv
BY BInit, BStep, PTL DEF Spec

\* The types: RIP and RSP stay where the program and the caller put them, and the
\* calls of cpu_loop stay within the guard.
THEOREM BochsTypeOK == Spec => []TypeOK
<1>1. BInv => TypeOK
  BY DEF BInv
<1> QED BY <1>1, BochsInvariant, PTL

\* "step() = exactly one instruction" (src/lib.rs): the stop that the callbacks ask
\* for reaches cpu_loop before the next instruction, and after this one.
THEOREM StepIsOneInstruction == Spec => []OneInstruction
<1>1. BInv => OneInstruction
  BY DEF BInv
<1> QED BY <1>1, BochsInvariant, PTL

\* Of all the exceptions of a cascade, bx_instr_exception keeps the instruction's.
THEOREM OutcomesAreExact == Spec => []OutcomeIsExact
<1>1. BInv => OutcomeIsExact
  BY DEF BInv
<1> QED BY <1>1, BochsInvariant, PTL

\* "Faults do not vector": the cascade leaves RIP, RSP and the arithmetic flags.
THEOREM FaultsDoNotVector == Spec => []FaultRestoresState
<1>1. BInv => FaultRestoresState
  BY DEF BInv
<1> QED BY <1>1, BochsInvariant, PTL

\* fault_msg describes the last step's fault, and nothing after one that retired.
THEOREM FaultsAreDescribed == Spec => []FaultIsDescribed
<1>1. BInv => FaultIsDescribed
  BY DEF BInv
<1> QED BY <1>1, BochsInvariant, PTL

-----------------------------------------------------------------------------
(* The refinement of StepContract *)

LEMMA ContractInit == Init => Contract!Init
<1> SUFFICES ASSUME Init PROVE Contract!Init
  OBVIOUS
<1>1. Seen = [rip |-> 0, rsp |-> 0, flags |-> 0]
  BY DEF Init, Seen, Callable, Caller
<1>2. Seen.rip = 0 /\ Seen.rsp = 0 /\ 4 * (Seen.flags % 2) = 0
  BY <1>1
<1>3. outcome.kind = "none" /\ outcome.vec = NoVector
  BY DEF Init, NoResult
<1> QED BY <1>2, <1>3 DEF Contract!Init, Contract!Outcomes

\* A register write is the contract's Assign.
LEMMA WritesAssign ==
  ASSUME BInv,
         \/ \E v \in 0..MaxRip : set_rip(v)
         \/ \E v \in Rsps : set_rsp(v)
         \/ \E f \in Flags : set_rflags(f)
  PROVE  Contract!Next
<1>1. Callable /\ Called
  BY DEF set_rip, set_rsp, set_rflags
<1>2. Seen = Caller /\ Seen' = Caller' /\ outcome' = outcome
  BY <1>1 DEF Seen, Callable, Called, results
<1>3. /\ Seen.rip = rip /\ Seen.rsp = rsp /\ Seen.flags = flags
      /\ Seen'.rip = rip' /\ Seen'.rsp = rsp' /\ Seen'.flags = flags'
  BY <1>2 DEF Caller
<1>4. CASE \E v \in 0..MaxRip : set_rip(v)
  BY <1>2, <1>3, <1>4 DEF set_rip, Contract!Next, Contract!Assign
<1>5. CASE \E v \in Rsps : set_rsp(v)
  BY <1>2, <1>3, <1>5 DEF set_rsp, Contract!Next, Contract!Assign
<1>6. CASE \E f \in Flags : set_rflags(f)
  <2>1. rip' = rip /\ rsp' = rsp /\ flags' \in Flags
    BY <1>6 DEF set_rflags
  <2>2. 4 * (flags' % 2) \in {0, 4}
    <3>1. \A f \in 0..3 : f % 2 \in {0, 1}
      OBVIOUS
    <3>2. flags' % 2 = 0 \/ flags' % 2 = 1
      BY <3>1, <2>1 DEF Flags
    <3> QED BY <3>2
  <2> QED BY <2>1, <2>2, <1>2, <1>3 DEF Contract!Next, Contract!Assign
<1> QED BY <1>4, <1>5, <1>6

LEMMA RenewRenews ==
  ASSUME Renew
  PROVE  Contract!Next
<1>1. Seen' = [rip |-> 0, rsp |-> 0, flags |-> 0]
  BY DEF Renew, Seen, Callable, Caller
<1>2. Seen'.rip = 0 /\ Seen'.rsp = 0 /\ 4 * (Seen'.flags % 2) = 0
  BY <1>1
<1>3. outcome'.kind = "none" /\ outcome'.vec = NoVector
  BY DEF Renew, NoResult
<1> QED BY <1>2, <1>3 DEF Contract!Next, Contract!Renew, Contract!Outcomes

\* What a step returns is a Retire or a Fault of the state step was called in.
LEMMA EndIsContract ==
  ASSUME BInv, EndStep
  PROVE  Contract!Next
<1>1. /\ Seen = before /\ Seen' = Caller
  BY DEF EndStep, Seen, Callable, Caller, regs
<1>2. Seen'.rip = rip /\ Seen'.rsp = rsp /\ Seen'.flags = flags
  BY <1>1 DEF Caller
<1>3. CASE Completed /\ Result
  <2>1. outcome'.kind = "retired" /\ outcome'.vec = NoVector
    BY <1>3 DEF Result, Completed, Retired
  <2> QED BY <2>1, <1>1, <1>2, <1>3
         DEF Completed, Contract!Next, Contract!Retire, Contract!Outcomes
<1>4. CASE Aborted /\ Result
  <2>1. outcome'.kind = "fault" /\ outcome'.vec \in Vectors
    BY <1>4 DEF Result, Aborted, Caught, Named, Faulted
  <2> QED BY <2>1, <1>1, <1>2, <1>4
         DEF Aborted, Contract!Next, Contract!Fault, Contract!Outcomes
<1> QED BY <1>3, <1>4, EndFacts

LEMMA ContractStep == BInv /\ [Next]_vars => [Contract!Next]_(Contract!vars)
<1> SUFFICES ASSUME BInv, [Next]_vars
             PROVE  Contract!Next \/ UNCHANGED Contract!vars
  OBVIOUS
<1>1. ASSUME Seen' = Seen, outcome' = outcome
      PROVE  UNCHANGED Contract!vars
  BY <1>1 DEF Contract!vars
<1>2. CASE UNCHANGED vars
  <2>1. Seen' = Seen /\ outcome' = outcome
    BY <1>2 DEF vars, regs, results, history, Seen, Callable, Caller
  <2> QED BY <2>1, <1>1
<1>3. CASE \/ \E v \in 0..MaxRip : set_rip(v)
           \/ \E v \in Rsps : set_rsp(v)
           \/ \E f \in Flags : set_rflags(f)
  BY <1>3, WritesAssign
<1>4. CASE Renew
  BY <1>4, RenewRenews
<1>5. CASE BeginStep
  <2>1. Seen' = Seen /\ outcome' = outcome
    BY <1>5 DEF BeginStep, Seen, Callable, results
  <2> QED BY <2>1, <1>1
<1>6. CASE EndStep
  BY <1>6, EndIsContract
<1>7. CASE \/ CommitRip \/ LeaveLoop \/ ThirdException \/ DoubleFault \/ DeliverException
           \/ GateMissing \/ CallLoop
  <2>1. ~Callable /\ ~Callable' /\ before' = before /\ outcome' = outcome
    BY <1>7 DEF CommitRip, LeaveLoop, ThirdException, DoubleFault, DeliverException,
                GateMissing, CallLoop, Callable, results, history
  <2> QED BY <2>1, <1>1 DEF Seen
<1>8. CASE \E i \in Instrs : Program(i)
  <2>1. PICK i \in Instrs : Program(i)
    BY <1>8
  <2>2. Runs(i) /\ pc' \in {"top", "exception", "interrupt"}
    BY <2>1 DEF Program, Retire, Halt, Raise, SoftInterrupt, Runs
  <2>3. ~Callable /\ ~Callable' /\ before' = before /\ outcome' = outcome
    BY <2>2 DEF Runs, Callable, results
  <2> QED BY <2>3, <1>1 DEF Seen
<1> QED BY <1>2, <1>3, <1>4, <1>5, <1>6, <1>7, <1>8 DEF Next, Core

\* Bochs implements the contract the hardware backends do, without exceptions: a step
\* retires one instruction, or faults and changes nothing the contract is about.
THEOREM BochsImplementsStepContract == Spec => ImplementsStepContract
BY BochsInvariant, ContractInit, ContractStep, PTL DEF Spec, ImplementsStepContract, Contract!Spec
=============================================================================
