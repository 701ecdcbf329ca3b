----------------------------- MODULE BochsStep -----------------------------
(***************************************************************************)
(* One step of the Bochs backend (csrc/bochs_shim.cpp, src/bochs.rs) and    *)
(* the part of the vendored core it drives (vendor/bochs/cpu).  The         *)
(* instrumentation callbacks ask cpu_loop to stop; they do not stop it.  A  *)
(* fault is therefore still delivered through an IDT that reads as zeros,   *)
(* and the step ends only when that cascade has shut the processor down.    *)
(*                                                                          *)
(* Which instruction lies at RIP is chosen when it executes, because the    *)
(* caller may rewrite memory between steps.                                 *)
(***************************************************************************)
EXTENDS Naturals, Sequences

CONSTANTS
  Instrs,       \* the instructions the program may contain
  MaxRip,       \* bound: program addresses are 0..MaxRip
  Rsps,         \* stack pointer values
  GuardLimit    \* calls of cpu_loop in one step (1024 in the code)

ASSUME GuardAssumption == GuardLimit \in Nat \ {0}

VARIABLES
  rip, rsp,              \* gen_reg
  flags,                 \* eflags: IF and the arithmetic flags
  prev_rip, prev_rsp,    \* what a fault restores
  speculative_rsp,
  EXT,                   \* the event in delivery is not the program's own
  last_exception_type,
  activity_state,
  async_event, kill_bochs_request,
  g_step,                \* what the callbacks recorded in this step
  pc,                    \* where the code is; "api" and "returned" between steps
  pending,               \* the exception or vector being raised
  guard,                 \* calls of cpu_loop in this step
  outcome, last_fault,   \* what step returned, and what fault_msg will describe
  before,                \* history: what the caller saw when step was called
  ran,                   \* history: the instructions of this step
  delivered              \* history: an earlier step of this oracle faulted

regs == <<rip, rsp, flags>>
rollback == <<prev_rip, prev_rsp, speculative_rsp>>
events == <<EXT, last_exception_type, activity_state>>
stop == <<async_event, kill_bochs_request>>
results == <<outcome, last_fault>>
history == <<before, ran, delivered>>
vars == <<regs, rollback, events, stop, g_step, pc, pending, guard, results, history>>

-----------------------------------------------------------------------------
(* Exceptions *)

NoVector == 256
DB == 1
DF == 8
GP == 13
Vectors == 0..255
Raised(v, c) == [vec |-> v, code |-> c]
Nothing == Raised(NoVector, 0)

\* exceptions_info: how an exception counts when another follows it.
ExceptionType(v) ==
  CASE v = DF -> "double"
    [] v \in {14, 20} -> "page_fault"
    [] v \in {0, 10, 11, 12, 13, 21, 30} -> "contributory"
    [] OTHER -> "benign"

\* exception_push_error, less the four whose bit 0 exception() leaves alone.
EXTCoded == {10, 11, 12, 13, 17}

\* is_exception_OK: whether the second can be handled after the first.
Serial(first, second) ==
  \/ first = "benign" \/ second = "benign"
  \/ first = "contributory" /\ second = "page_fault"

\* The error code exception() gives to the instrumentation.
ErrorCode(e) ==
  IF e.vec \in EXTCoded
  THEN e.code - (e.code % 2) + (IF EXT THEN 1 ELSE 0)
  ELSE e.code

Classes == { "next",      \* retires and moves to the next instruction
             "rep",       \* retires one iteration and stays
             "hlt",       \* HLT
             "sti",       \* sets IF
             "fault",     \* raises an exception before it commits anything
             "push",      \* raises one with RSP already moved, speculatively
             "soft" }     \* INT1, INT3, INT n: calls interrupt directly

\* Instructions leave bit 0 of an error code to exception(): the code raised is 0, a
\* selector with its low two bits masked, or a vector times 8 plus 2.
ASSUME InstrsAssumption ==
  /\ Instrs \subseteq [cls : Classes, vec : Vectors, code : Nat]
  /\ \A i \in Instrs : i.cls \in {"fault", "push"} /\ i.vec \in EXTCoded => i.code % 2 = 0

ASSUME BoundsAssumption == MaxRip \in Nat /\ 0 \in Rsps

IF_FLAG == 2
Flags == 0..3
Without(f, bit) == IF (f \div bit) % 2 = 1 THEN f - bit ELSE f

NoResult == [kind |-> "none", vec |-> NoVector, code |-> 0]
Retired == [kind |-> "retired", vec |-> NoVector, code |-> 0]
Faulted(e) == [kind |-> "fault", vec |-> e.vec, code |-> e.code]
NoFault == Nothing
Idle == [armed |-> FALSE, retired |-> FALSE, faulted |-> FALSE, halted |-> FALSE,
         what |-> Nothing]

\* What get_rip, get_gpr(4) and get_rflags return.
Caller == [rip |-> rip, rsp |-> rsp, flags |-> flags]

Init ==
  /\ rip = 0 /\ rsp = 0 /\ flags = 0
  /\ prev_rip = 0 /\ prev_rsp = 0 /\ speculative_rsp = FALSE
  /\ EXT = FALSE /\ last_exception_type = "none" /\ activity_state = "active"
  /\ async_event = FALSE /\ kill_bochs_request = FALSE
  /\ g_step = Idle
  /\ pc = "api" /\ pending = Nothing /\ guard = 0
  /\ outcome = NoResult /\ last_fault = NoFault
  /\ before = Caller /\ ran = <<>> /\ delivered = FALSE

-----------------------------------------------------------------------------
(* Between steps *)

Callable == pc \in {"api", "returned"}

Called ==
  /\ pc' = "api"
  /\ before' = Caller' /\ ran' = <<>>
  /\ UNCHANGED <<events, stop, g_step, pending, guard, results, delivered>>

set_rip(v) ==
  /\ Callable
  /\ rip' = v /\ prev_rip' = v
  /\ UNCHANGED <<rsp, flags, prev_rsp, speculative_rsp>>
  /\ Called

set_rsp(v) ==
  /\ Callable
  /\ rsp' = v
  /\ UNCHANGED <<rip, flags, rollback>>
  /\ Called

set_rflags(f) ==
  /\ Callable
  /\ flags' = f
  /\ UNCHANGED <<rip, rsp, rollback>>
  /\ Called

\* The oracle is dropped and another one created on the same core.
Renew ==
  /\ Callable
  /\ rip' = 0 /\ rsp' = 0 /\ flags' = 0
  /\ prev_rip' = 0 /\ speculative_rsp' = FALSE
  /\ EXT' = FALSE /\ last_exception_type' = "none" /\ activity_state' = "active"
  /\ g_step' = Idle
  /\ outcome' = NoResult /\ last_fault' = NoFault
  /\ pc' = "api" /\ before' = Caller' /\ ran' = <<>> /\ delivered' = FALSE
  /\ UNCHANGED <<prev_rsp, stop, pending, guard>>

-----------------------------------------------------------------------------
(* The driver: x86oracle_bochs_step and BochsOracle::step *)

BeginStep ==
  /\ Callable
  /\ g_step' = [Idle EXCEPT !.armed = TRUE]
  /\ async_event' = FALSE /\ kill_bochs_request' = FALSE
  /\ guard' = 0
  /\ pc' = "guard"
  /\ before' = Caller /\ ran' = <<>> /\ delivered' = (delivered \/ outcome.kind = "fault")
  /\ UNCHANGED <<regs, rollback, events, pending, results>>

CallLoop ==
  /\ pc = "guard"
  /\ guard < GuardLimit /\ ~kill_bochs_request
  /\ guard' = guard + 1
  /\ pc' = "cpu_loop"
  /\ UNCHANGED <<regs, rollback, events, stop, g_step, pending, results, history>>

\* Mutant: a retired instruction keeps the fault of an earlier step.
ResultKept ==
  IF g_step.faulted
  THEN /\ outcome' = Faulted(g_step.what)
       /\ last_fault' = g_step.what
  ELSE outcome' = Retired /\ UNCHANGED last_fault

\* The status: a fault outranks a halt, and a halt counts as retired.
Result ==
  IF g_step.faulted
  THEN /\ outcome' = Faulted(g_step.what)
       /\ last_fault' = g_step.what
  ELSE outcome' = Retired /\ last_fault' = NoFault

EndStep ==
  /\ pc = "guard"
  /\ kill_bochs_request \/ guard = GuardLimit
  /\ async_event' = FALSE /\ kill_bochs_request' = FALSE
  /\ g_step' = [g_step EXCEPT !.armed = FALSE]
  /\ Result
  /\ pc' = "returned"
  /\ UNCHANGED <<regs, rollback, events, pending, guard, history>>

-----------------------------------------------------------------------------
(* cpu_loop *)

\* request_stop.
RequestStop == async_event' = TRUE /\ kill_bochs_request' = TRUE

\* The entry of cpu_loop, where a longjmp lands as well.
CommitRip ==
  /\ pc = "cpu_loop"
  /\ prev_rip' = rip /\ speculative_rsp' = FALSE
  /\ pc' = "top"
  /\ UNCHANGED <<regs, prev_rsp, events, stop, g_step, pending, guard, results, history>>

\* handleAsyncEvent returns to the driver.  Asleep without a stop request it
\* would wait for an event that nothing here can send.
LeaveLoop ==
  /\ pc = "top" /\ async_event /\ kill_bochs_request
  /\ pc' = "guard"
  /\ UNCHANGED <<regs, rollback, events, stop, g_step, pending, guard, results, history>>

Runs(i) ==
  /\ pc = "top"
  /\ async_event => ~kill_bochs_request /\ activity_state = "active"
  /\ ran' = Append(ran, i)
  /\ UNCHANGED <<before, delivered, guard, results>>

\* Mutant: the callback notes the instruction and forgets to ask for the stop.
NoteOnly ==
  /\ prev_rip' = rip'
  /\ g_step' = [g_step EXCEPT !.retired = TRUE]
  /\ UNCHANGED stop

\* BX_COMMIT_INSTRUCTION and the callback for a completed instruction or a
\* REP iteration.
AfterExecution ==
  /\ prev_rip' = rip'
  /\ IF g_step.armed
     THEN g_step' = [g_step EXCEPT !.retired = TRUE] /\ RequestStop
     ELSE UNCHANGED <<g_step, stop>>

Retire(i) ==
  /\ Runs(i) /\ i.cls \in {"next", "rep", "sti"}
  /\ IF i.cls = "rep" THEN UNCHANGED rip ELSE rip < MaxRip /\ rip' = rip + 1
  /\ flags' = IF i.cls = "sti" THEN Without(flags, IF_FLAG) + IF_FLAG ELSE flags
  /\ AfterExecution
  /\ UNCHANGED <<rsp, prev_rsp, speculative_rsp, events, pc, pending>>

\* enter_sleep_state(BX_ACTIVITY_STATE_HLT), then the instruction completes.
Halt(i) ==
  /\ Runs(i) /\ i.cls = "hlt"
  /\ rip < MaxRip /\ rip' = rip + 1
  /\ activity_state' = "hlt"
  /\ RequestStop
  /\ g_step' = [g_step EXCEPT !.halted = TRUE, !.retired = @ \/ g_step.armed]
  /\ prev_rip' = rip'
  /\ UNCHANGED <<rsp, flags, prev_rsp, speculative_rsp, EXT, last_exception_type,
                 pc, pending>>

\* The handler calls exception(), with RIP past the instruction and possibly
\* with RSP moved.
Raise(i) ==
  /\ Runs(i) /\ i.cls \in {"fault", "push"}
  /\ rip' = rip + 1
  /\ IF i.cls = "push"
     THEN rsp' \in Rsps /\ prev_rsp' = rsp /\ speculative_rsp' = TRUE
     ELSE UNCHANGED <<rsp, prev_rsp, speculative_rsp>>
  /\ pending' = Raised(i.vec, i.code)
  /\ pc' = "exception"
  /\ UNCHANGED <<flags, prev_rip, events, stop, g_step>>

\* INT1, INT3 and INT n call interrupt() and bypass exception().
SoftInterrupt(i) ==
  /\ Runs(i) /\ i.cls = "soft"
  /\ rip' = rip + 1
  /\ EXT' = (EXT \/ i.vec = DB)
  /\ pending' = Raised(i.vec, 0)
  /\ pc' = "interrupt"
  /\ UNCHANGED <<rsp, flags, rollback, last_exception_type, activity_state, stop, g_step>>

-----------------------------------------------------------------------------
(* exception() and interrupt() *)

\* Mutant: every exception of the cascade is recorded, so the last one stays.
RecordedLast ==
  [g_step EXCEPT !.faulted = TRUE, !.what = Raised(pending.vec, ErrorCode(pending))]

\* bx_instr_exception: g_step with the exception, if it is the first of the step.
Recorded ==
  IF g_step.armed /\ ~g_step.faulted
  THEN [g_step EXCEPT !.faulted = TRUE, !.what = Raised(pending.vec, ErrorCode(pending))]
  ELSE g_step

Record ==
  /\ g_step' = Recorded
  /\ IF Recorded = g_step THEN UNCHANGED stop ELSE RequestStop

\* Mutant: every exception is taken for a trap.
RollBackNothing ==
  /\ speculative_rsp' = FALSE
  /\ UNCHANGED <<rip, rsp, prev_rip, prev_rsp>>

\* Mutant: RSP keeps what the instruction, or the delivery, moved it to.
RollBackRip ==
  /\ rip' = prev_rip
  /\ speculative_rsp' = FALSE
  /\ UNCHANGED <<rsp, prev_rip, prev_rsp>>

\* Every exception that can reach this point is of class fault.
RollBack ==
  /\ rip' = prev_rip
  /\ rsp' = IF speculative_rsp THEN prev_rsp ELSE rsp
  /\ speculative_rsp' = FALSE
  /\ UNCHANGED <<prev_rip, prev_rsp>>

\* An exception after a double fault: shutdown() masks interrupts, reports a
\* halt and jumps back to cpu_loop.
ThirdException ==
  /\ pc = "exception" /\ last_exception_type = "double"
  /\ RollBack
  /\ flags' = Without(flags, IF_FLAG)
  /\ activity_state' = "shutdown"
  /\ RequestStop
  /\ g_step' = [Recorded EXCEPT !.halted = TRUE]
  /\ pc' = "cpu_loop"
  /\ UNCHANGED <<EXT, last_exception_type, pending, guard, results, history>>

\* Mutant: one exception can always follow another.
NeverUnserved == FALSE

Unserved ==
  /\ last_exception_type # "none"
  /\ ExceptionType(pending.vec) # "double"
  /\ ~Serial(last_exception_type, ExceptionType(pending.vec))

\* An exception that cannot follow the one in delivery becomes a double fault.
DoubleFault ==
  /\ pc = "exception" /\ last_exception_type # "double" /\ Unserved
  /\ Record /\ RollBack
  /\ EXT' = TRUE
  /\ pending' = Raised(DF, 0)
  /\ UNCHANGED <<flags, last_exception_type, activity_state, pc, guard, results, history>>

DeliverException ==
  /\ pc = "exception" /\ last_exception_type # "double" /\ ~Unserved
  /\ Record /\ RollBack
  /\ EXT' = TRUE
  /\ last_exception_type' = ExceptionType(pending.vec)
  /\ pc' = "interrupt"
  /\ UNCHANGED <<flags, activity_state, pending, guard, results, history>>

\* interrupt() and long_mode_int(): the gate reads as zeros, which is #GP with
\* the vector's index in the IDT.
GateMissing ==
  /\ pc = "interrupt"
  /\ activity_state' = "active"
  /\ prev_rsp' = rsp /\ speculative_rsp' = TRUE
  /\ pending' = Raised(GP, pending.vec * 8 + 2)
  /\ pc' = "exception"
  /\ UNCHANGED <<regs, prev_rip, EXT, last_exception_type, stop, g_step, guard,
                 results, history>>

-----------------------------------------------------------------------------

Core == \/ CommitRip \/ LeaveLoop \/ ThirdException \/ DoubleFault \/ DeliverException
        \/ GateMissing \/ CallLoop \/ EndStep

Program(i) == Retire(i) \/ Halt(i) \/ Raise(i) \/ SoftInterrupt(i)

Next ==
  \/ \E v \in 0..MaxRip : set_rip(v)
  \/ \E v \in Rsps : set_rsp(v)
  \/ \E f \in Flags : set_rflags(f)
  \/ Renew
  \/ BeginStep
  \/ Core
  \/ \E i \in Instrs : Program(i)

Spec == Init /\ [][Next]_vars

\* A step runs to its end on the caller's thread; callers owe nothing.
Fairness == WF_vars(Core \/ \E i \in Instrs : Program(i))

FairSpec == Spec /\ Fairness

-----------------------------------------------------------------------------
(* Properties *)

\* The types; RIP passes the last address by one at most, and the guard its limit never.
TypeOK ==
  /\ rip \in 0..(MaxRip + 1) /\ prev_rip \in 0..MaxRip
  /\ rsp \in Rsps /\ prev_rsp \in Rsps
  /\ flags \in Flags
  /\ {speculative_rsp, EXT, async_event, kill_bochs_request, delivered} \subseteq BOOLEAN
  /\ last_exception_type \in {"none", "benign", "contributory", "page_fault", "double"}
  /\ activity_state \in {"active", "hlt", "shutdown"}
  /\ g_step \in [armed : BOOLEAN, retired : BOOLEAN, faulted : BOOLEAN, halted : BOOLEAN,
                 what : [vec : Vectors \cup {NoVector}, code : Nat]]
  /\ pc \in {"api", "guard", "cpu_loop", "top", "exception", "interrupt", "returned"}
  /\ pending \in [vec : Vectors \cup {NoVector}, code : Nat]
  /\ guard \in 0..GuardLimit
  /\ outcome \in [kind : {"none", "retired", "fault"}, vec : Vectors \cup {NoVector}, code : Nat]
  /\ last_fault \in [vec : Vectors \cup {NoVector}, code : Nat]
  /\ before \in [rip : 0..MaxRip, rsp : Rsps, flags : Flags]
  /\ ran \in Seq(Instrs)

\* The step is over and executed exactly one instruction, of one of the classes.
RanOne(classes) == pc = "returned" /\ Len(ran) = 1 /\ ran[1].cls \in classes

\* "step() = exactly one instruction" (src/lib.rs), although cpu_loop runs until
\* it notices a request: neither a request left over from the last step, nor the
\* sleep a fault or HLT leaves the core in, makes a step run none or two.
OneInstruction == pc = "returned" => Len(ran) = 1

\* Up to four exceptions are raised for one faulting instruction; the one
\* reported is the instruction's own, with its own error code but for bit 0
\* after an earlier fault.  What retired is not reported as a fault, even
\* though shutdown() and HLT both report a halt.
OutcomeIsExact ==
  /\ RanOne({"fault", "push"}) =>
       /\ outcome.kind = "fault" /\ outcome.vec = ran[1].vec
       /\ outcome.code \div 2 = ran[1].code \div 2
       /\ ~delivered => outcome.code = ran[1].code
  /\ RanOne({"soft"}) => outcome.kind = "fault"
  /\ RanOne({"next", "rep", "sti", "hlt"}) => outcome = Retired

\* "Faults do not vector": the aborted delivery leaves RIP on the instruction and
\* RSP and the arithmetic flags as they were, whatever the cascade went through.
FaultRestoresState ==
  RanOne({"fault", "push", "soft"}) =>
    /\ rip = before.rip /\ rsp = before.rsp
    /\ flags % 2 = before.flags % 2

\* src/lib.rs, fault_msg: empty if, and here only if, the last step retired.
FaultIsDescribed == pc = "returned" => (last_fault = NoFault) = (outcome.kind # "fault")

\* Every step returns: a cascade ends, and no step finds the core asleep.
StepReturns == ~Callable ~> Callable

\* vendor/bochs/cpu/cpu.h: EXT is "0 if current CS:EIP caused exception".
ErrorCodeIsOwn ==
  RanOne({"fault", "push"}) => outcome.code = ran[1].code

\* src/lib.rs, StepOutcome::Fault: "state is what was committed before the fault".
FaultKeepsInterruptFlag ==
  RanOne({"fault", "push"}) => flags = before.flags

-----------------------------------------------------------------------------
(* What the caller sees between steps implements StepContract, IF aside.     *)

Seen == IF Callable THEN Caller ELSE before

Contract == INSTANCE StepContract WITH
  Vectors <- Vectors \cup {NoVector},
  rip <- Seen.rip, rsp <- Seen.rsp, flags <- 4 * (Seen.flags % 2),
  outcome <- [kind |-> outcome.kind, vec |-> outcome.vec]

ImplementsStepContract == Contract!Spec
=============================================================================
