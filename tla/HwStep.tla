------------------------------- MODULE HwStep -------------------------------
(***************************************************************************)
(* One step of the hardware backends (src/hw.rs, src/kvm.rs, src/whp.rs):   *)
(* arm the trap flag, run the virtual processor until it exits, recognise   *)
(* the exit, and undo the exception delivery the CPU performed on the way.  *)
(*                                                                          *)
(* The processor and the hypervisor are external.  An instruction is a      *)
(* record of what it does to control flow; which one lies at RIP is chosen  *)
(* when it executes, because the caller may rewrite memory between steps.   *)
(***************************************************************************)
EXTENDS Naturals, Sequences

CONSTANTS
  Backends,       \* the drivers in play: "kvm", "whp" or both
  HostBitmaps,    \* the exceptions WHP hosts report they can intercept
  Instrs,         \* the instructions the program may contain
  MaxRip,         \* bound: program addresses are 0..MaxRip
  Rsps,           \* stack pointer values the caller sets
  RunLimit,       \* the retry bound of the run loop (64 in the code)
  MaxRun          \* bound: instructions a run may execute before it is cut off

VARIABLES
  backend, intercepts,  \* fixed when the oracle is created; an exception that
                        \* is not intercepted goes through the IDT to a stub
  regs,                 \* raw RIP, RSP and RFLAGS of the virtual processor
  ist,                  \* the words of the frame on the IST1 stack, lowest
                        \* address first, until they have been read
  pc,                   \* "run" in the guest, "exit" after it, "returned" when
                        \* step has returned, "api" after other calls
  exit,                 \* why the run returned
  tries,                \* iterations of the run loop
  outcome, lastFault,   \* what step returned, and what fault_msg will describe
  before,               \* history: the registers when step was called
  ran                   \* history: what the guest executed in this step

fixed == <<backend, intercepts>>
history == <<before, ran>>
results == <<outcome, lastFault>>
vars == <<fixed, regs, ist, pc, exit, tries, results, history>>

-----------------------------------------------------------------------------
(* Guest layout *)

RAM_SIZE == 256 * 1024 * 1024
CTRL_BASE == RAM_SIZE - 4 * 1024 * 1024
STUB_BASE == CTRL_BASE + 20480
STUB_STRIDE == 16
STUB_AREA == 256 * STUB_STRIDE
IST_STACK_TOP == CTRL_BASE + 32768
SEL_CODE64 == 8
SEL_DATA == 16

NoVector == 256
Vectors == 0..255

has_error_code(v) == v \in {8, 10, 11, 12, 13, 14, 17, 21}

\* Mutant: the RIP after the HLT is taken for the address of the HLT.
stub_vector_of_hlt(haltRip) ==
  IF haltRip > STUB_BASE /\ haltRip <= STUB_BASE + STUB_AREA
  THEN ((haltRip + 15 - STUB_BASE) \div STUB_STRIDE) % 256
  ELSE NoVector

\* The vector whose stub a HLT exit landed in, from the RIP after the HLT.
stub_vector(haltRip) ==
  IF haltRip > STUB_BASE /\ haltRip <= STUB_BASE + STUB_AREA
  THEN (haltRip - 1 - STUB_BASE) \div STUB_STRIDE
  ELSE NoVector

(* RFLAGS: TF is bit 0, RF bit 1 and bit 2 stands for the program's flags.   *)
TF == 1
RF == 2
UserFlags == {0, 4}
Masked(f) == f - (f % 4)
Armed(f) == f % 2 = TF

Classes == { "plain",   \* retires and moves to the next instruction
             "rep",     \* retires one iteration and stays
             "movss",   \* MOV SS or POP SS: retires and holds #DB off for one instruction
             "hlt",     \* the program's own HLT
             "fault",   \* a fault-class exception
             "trap",    \* INT3 or INTO
             "int",     \* INT n
             "outside" } \* needs a device: port I/O, memory beyond RAM

\* A program lies below the stubs, and #DB comes from single-stepping or INT 1 only.
ASSUME InstrsAssumption ==
  /\ Instrs \subseteq [cls : Classes, vec : Vectors, err : Nat]
  /\ \A i \in Instrs : i.cls \in {"fault", "trap"} => i.vec # 1

ASSUME BoundsAssumption ==
  /\ Backends \subseteq {"kvm", "whp"}
  /\ MaxRip \in 0..STUB_BASE /\ Rsps \subseteq Nat
  /\ RunLimit \in Nat \ {0}

NoExit == [why |-> "none", vec |-> NoVector, err |-> 0]
NoResult == [kind |-> "none", vec |-> NoVector, err |-> 0]
Retired == [kind |-> "retired", vec |-> NoVector, err |-> 0]
Faulted(v, e) == [kind |-> "fault", vec |-> v, err |-> e]
NoFault == NoResult

WANTED_EXCEPTIONS == {0, 1, 3, 4, 5, 6, 7, 10, 11, 12, 13, 14, 16, 17, 19, 21}

\* enable_exception_exits and the setup of the partition: the bitmap the host
\* supports, if it has #DB; nothing if it has not, or if WHP refuses the bitmap,
\* or accepts it and then refuses to set up the partition with it.
Negotiated(supported) ==
  IF 1 \in supported THEN {WANTED_EXCEPTIONS \cap supported, {}} ELSE {{}}

Init ==
  /\ backend \in Backends
  /\ intercepts \in IF backend = "whp" THEN UNION {Negotiated(s) : s \in HostBitmaps}
                   ELSE {{}}
  /\ regs = [rip |-> 0, rsp |-> 0, flags |-> 0]
  /\ ist = <<>>
  /\ pc = "api" /\ exit = NoExit /\ tries = 0
  /\ outcome = NoResult /\ lastFault = NoFault
  /\ before = regs /\ ran = <<>>

-----------------------------------------------------------------------------
(* Register writes between steps *)

Callable == pc \in {"api", "returned"}

\* The caller has used the oracle since the last step; the history starts anew.
Called ==
  /\ pc' = "api"
  /\ before' = regs' /\ ran' = <<>>
  /\ UNCHANGED <<fixed, ist, exit, tries, results>>

\* KVM_SET_REGS writes all registers back, and KVM_GET_REGS had hidden TF; WHP
\* writes the one register it names.
KeptFlags == IF backend = "kvm" /\ Armed(regs.flags) THEN regs.flags - TF ELSE regs.flags

set_rip(r) ==
  /\ Callable
  /\ regs' = [regs EXCEPT !.rip = r, !.flags = KeptFlags]
  /\ Called

set_rsp(v) ==
  /\ Callable
  /\ regs' = [regs EXCEPT !.rsp = v, !.flags = KeptFlags]
  /\ Called

\* The value is masked, so a caller cannot reach the trap flag.
set_rflags(f) ==
  /\ Callable
  /\ regs' = [regs EXCEPT !.flags = Masked(f)]
  /\ Called

\* Mutant: get_rflags returns the raw register.
get_rflags_raw(r) == r.flags

get_rflags(r) == Masked(r.flags)

-----------------------------------------------------------------------------
(* step: arming and running *)

\* Mutant: TF is set at construction only, and lost by the first register write.
NotArmed == regs.flags

\* arm_singlestep: TF set, RF cleared (WHP); KVM sets TF.
Arm == IF backend = "kvm" /\ ~Armed(regs.flags) THEN regs.flags + TF
       ELSE IF backend = "kvm" THEN regs.flags
       ELSE Masked(regs.flags) + TF

BeginStep ==
  /\ Callable
  /\ regs' = [regs EXCEPT !.flags = Arm]
  /\ pc' = "run"
  /\ lastFault' = NoFault
  /\ before' = regs /\ ran' = <<>>
  /\ UNCHANGED <<fixed, ist, exit, tries, outcome>>

\* WHP: guest RAM could not be mapped, or TF not set; the guest does not run.
BeginFails ==
  /\ Callable
  /\ backend = "whp"
  /\ pc' = "returned"
  /\ outcome' = Faulted(NoVector, 0) /\ lastFault' = NoFault
  /\ before' = regs /\ ran' = <<>>
  /\ UNCHANGED <<fixed, regs, ist, exit, tries>>

\* step returns; its locals and the frame it has read are dead.
Return(o, fault) ==
  /\ pc' = "returned"
  /\ outcome' = o /\ lastFault' = fault
  /\ exit' = NoExit /\ tries' = 0 /\ ist' = <<>>
  /\ UNCHANGED <<fixed, history>>

\* Mutant: a run that was cut short is retried without bound.
CanceledForever ==
  /\ pc = "run" /\ ran = <<>>
  /\ tries' = (tries + 1) % RunLimit
  /\ UNCHANGED <<fixed, regs, ist, pc, exit, results, history>>

\* Mutant: the retry bound is off by one.
CanceledOnceMore ==
  /\ pc = "run" /\ ran = <<>>
  /\ \/ /\ tries < RunLimit
        /\ tries' = tries + 1
        /\ UNCHANGED <<fixed, regs, ist, pc, exit, results, history>>
     \/ /\ tries >= RunLimit
        /\ Return(Faulted(NoVector, 0), NoFault)
        /\ UNCHANGED regs

\* A signal (EINTR) or WHvCancelRunVirtualProcessor ends the run before it did
\* anything; the loop retries, RunLimit times at most.
Canceled ==
  /\ pc = "run" /\ ran = <<>>
  /\ \/ /\ tries + 1 < RunLimit
        /\ tries' = tries + 1
        /\ UNCHANGED <<fixed, regs, ist, pc, exit, results, history>>
     \/ /\ tries + 1 >= RunLimit
        /\ Return(Faulted(NoVector, 0), NoFault)
        /\ UNCHANGED regs

\* KVM_RUN or WHvRunVirtualProcessor fails outright.
RunFails ==
  /\ pc = "run" /\ ran = <<>>
  /\ Return(Faulted(NoVector, 0), NoFault)
  /\ UNCHANGED regs

-----------------------------------------------------------------------------
(* External: the guest executes one instruction *)

\* The CPU vectors through gate v: the frame goes on the IST1 stack, the gate
\* clears TF, and the HLT at the stub runs and exits.
Deliver(v, pushedRip, pushedFlags, code) ==
  LET frame == code \o <<pushedRip, SEL_CODE64, pushedFlags, regs.rsp, SEL_DATA>>
  IN  /\ ist' = frame
      /\ regs' = [rip |-> STUB_BASE + v * STUB_STRIDE + 1,
                  rsp |-> IST_STACK_TOP - 8 * Len(frame),
                  flags |-> Masked(regs.flags)]
      /\ exit' = [why |-> "halt", vec |-> NoVector, err |-> 0]
      /\ pc' = "exit"

\* The run returns with the registers as the instruction left them.
ExitWith(why, v, e, r) ==
  /\ exit' = [why |-> why, vec |-> v, err |-> e]
  /\ pc' = "exit"
  /\ regs' = r
  /\ UNCHANGED ist

Runs(i, classes) ==
  /\ pc = "run"
  /\ i.cls \in classes
  /\ Len(ran) < MaxRun
  /\ ran' = Append(ran, i)
  /\ UNCHANGED <<fixed, tries, results, before>>

\* The previous instruction of this run was a MOV SS: #DB is held off.
InShadow == ran # <<>> /\ ran[Len(ran)].cls = "movss"

\* The instruction retires; with TF set the single-step #DB follows, and
\* reaches the driver the way this host reports a #DB.
RetireInstr(i) ==
  LET next == IF i.cls = "rep" THEN regs.rip ELSE regs.rip + 1
      after == [regs EXCEPT !.rip = next]
  IN  /\ Runs(i, {"plain", "rep"} \cup IF InShadow THEN {"movss"} ELSE {})
      /\ next \in 0..MaxRip
      /\ \/ /\ ~Armed(regs.flags)
            /\ regs' = after
            /\ UNCHANGED <<ist, pc, exit>>
         \/ /\ Armed(regs.flags)
            /\ backend = "kvm"
            /\ ExitWith("debug", NoVector, 0, after)
         \/ /\ Armed(regs.flags)
            /\ 1 \in intercepts
            /\ ExitWith("exception", 1, 0, after)
         \/ /\ Armed(regs.flags)
            /\ backend = "whp" /\ 1 \notin intercepts
            /\ Deliver(1, next, regs.flags, <<>>)

\* MOV SS: the trap of this instruction is lost, and the next one still runs.
LoadStackSegment(i) ==
  /\ Runs(i, {"movss"})
  /\ ~InShadow
  /\ regs.rip < MaxRip
  /\ regs' = [regs EXCEPT !.rip = @ + 1]
  /\ UNCHANGED <<ist, pc, exit>>

\* The program's own HLT exits with RIP past it.
OwnHalt(i) ==
  /\ Runs(i, {"hlt"})
  /\ regs.rip < MaxRip
  /\ ExitWith("halt", NoVector, 0, [regs EXCEPT !.rip = @ + 1])

\* A fault: intercepted before delivery, or delivered with RF set in the pushed
\* flags and an error code if the vector has one.
RaiseFault(i) ==
  /\ Runs(i, {"fault"})
  /\ \/ /\ i.vec \in intercepts
        /\ ExitWith("exception", i.vec, i.err, regs)
     \/ /\ i.vec \notin intercepts
        /\ Deliver(i.vec, regs.rip, Masked(regs.flags) + RF + (regs.flags % 2),
                   IF has_error_code(i.vec) THEN <<i.err>> ELSE <<>>)

\* INT3 and INTO trap: an intercept shows the instruction's own RIP, delivery
\* pushes the RIP after it.
RaiseTrap(i) ==
  /\ Runs(i, {"trap"})
  /\ regs.rip < MaxRip
  /\ \/ /\ i.vec \in intercepts
        /\ ExitWith("exception", i.vec, 0, regs)
     \/ /\ i.vec \notin intercepts
        /\ Deliver(i.vec, regs.rip + 1, regs.flags, <<>>)

\* INT n is no exception: it is never intercepted and never pushes an error code.
SoftwareInt(i) ==
  /\ Runs(i, {"int"})
  /\ regs.rip < MaxRip
  /\ Deliver(i.vec, regs.rip + 1, regs.flags, <<>>)

\* An exit the driver has no device for.
OutsideAccess(i) ==
  /\ Runs(i, {"outside"})
  /\ ExitWith("other", NoVector, 0, regs)

-----------------------------------------------------------------------------
(* step: recognising the exit *)

\* The word at a byte offset from the handler's RSP.
Word(offset) == ist[offset \div 8 + 1]

\* Mutant: every vector is taken to have pushed an error code or none.
unwind_codeless(v) ==
  [rip |-> Word(0), flags |-> Word(16), rsp |-> Word(24), err |-> 0]

\* The state before the delivery, and the error code, read from the frame.
unwind_frame(v) ==
  LET base == IF has_error_code(v) THEN 8 ELSE 0
  IN  [ rip   |-> Word(base),
        flags |-> Word(base + 16),
        rsp   |-> Word(base + 24),
        err   |-> IF has_error_code(v) THEN Word(0) ELSE 0 ]

\* unwind_fault: WHP masks TF and RF out of what it writes back, KVM does not.
Unwound(v) ==
  LET frame == unwind_frame(v)
  IN  [ rip |-> frame.rip, rsp |-> frame.rsp,
        flags |-> IF backend = "whp" THEN Masked(frame.flags) ELSE frame.flags ]

\* disarm_singlestep, which only WHP has.
Disarmed == IF backend = "whp" THEN [regs EXCEPT !.flags = Masked(@)] ELSE regs

\* KVM's debug exit: the instruction retired.
HandleDebug ==
  /\ pc = "exit" /\ exit.why = "debug"
  /\ Return(Retired, NoFault)
  /\ UNCHANGED regs

\* A WHP exception intercept.
HandleException ==
  /\ pc = "exit" /\ exit.why = "exception"
  /\ regs' = Disarmed
  /\ \/ exit.vec = 1 /\ Return(Retired, NoFault)
     \/ /\ exit.vec # 1
        /\ LET code == IF has_error_code(exit.vec) THEN exit.err ELSE 0
           IN  Return(Faulted(exit.vec, code), Faulted(exit.vec, code))

\* A halt in a stub: the delivery is undone.  Vector 1 is the step's own #DB on
\* WHP, where it may be delivered rather than intercepted.
HandleStub ==
  LET v == stub_vector(regs.rip)
  IN  /\ pc = "exit" /\ exit.why = "halt"
      /\ v # NoVector
      /\ regs' = Unwound(v)
      /\ \/ v = 1 /\ backend = "whp" /\ Return(Retired, NoFault)
         \/ /\ ~(v = 1 /\ backend = "whp")
            /\ Return(Faulted(v, unwind_frame(v).err), Faulted(v, unwind_frame(v).err))

\* A halt anywhere else is the program's.
HandleHalt ==
  /\ pc = "exit" /\ exit.why = "halt"
  /\ stub_vector(regs.rip) = NoVector
  /\ Return(Retired, NoFault)
  /\ regs' = Disarmed

\* MMIO, port I/O, memory access or an unknown reason: a Fault value without a
\* vector, nothing undone and nothing recorded for fault_msg.
HandleOther ==
  /\ pc = "exit" /\ exit.why = "other"
  /\ Return(Faulted(NoVector, 0), NoFault)
  /\ UNCHANGED regs

-----------------------------------------------------------------------------

Driver == BeginStep \/ BeginFails \/ RunFails
          \/ HandleDebug \/ HandleException \/ HandleStub \/ HandleHalt \/ HandleOther

Guest(i) ==
  \/ RetireInstr(i) \/ LoadStackSegment(i) \/ OwnHalt(i)
  \/ RaiseFault(i) \/ RaiseTrap(i) \/ SoftwareInt(i) \/ OutsideAccess(i)

Next ==
  \/ \E r \in 0..MaxRip : set_rip(r)
  \/ \E v \in Rsps : set_rsp(v)
  \/ \E f \in UserFlags : set_rflags(f)
  \/ Driver
  \/ Canceled
  \/ \E i \in Instrs : Guest(i)

Spec == Init /\ [][Next]_vars

\* The virtual processor runs when it is told to, and the driver handles what it
\* returns; between steps nothing is assumed of the caller.
Fairness == WF_vars(~Callable /\ (Driver \/ Canceled \/ \E i \in Instrs : Guest(i)))

FairSpec == Spec /\ Fairness

-----------------------------------------------------------------------------
(* Properties *)

Results == [kind : {"none", "retired", "fault"}, vec : Vectors \cup {NoVector}, err : Nat]

\* The types; the run loop counts fewer than RunLimit canceled runs.
TypeOK ==
  /\ backend \in Backends /\ intercepts \subseteq Vectors
  /\ regs \in [rip : Nat, rsp : Nat, flags : Nat]
  /\ ist \in Seq(Nat)
  /\ pc \in {"api", "run", "exit", "returned"}
  /\ exit \in [why : {"none", "debug", "exception", "halt", "other"},
               vec : Vectors \cup {NoVector}, err : Nat]
  /\ tries \in 0..(RunLimit - 1)
  /\ outcome \in Results /\ lastFault \in Results
  /\ before \in [rip : Nat, rsp : Nat, flags : Nat]
  /\ ran \in Seq(Instrs)

\* The step is over and the guest executed exactly one instruction, of a class.
RanOne(classes) == pc = "returned" /\ Len(ran) = 1 /\ ran[1].cls \in classes

SameProgramState ==
  /\ regs.rip = before.rip
  /\ regs.rsp = before.rsp
  /\ get_rflags(regs) = get_rflags(before)

\* "Faults do not vector": whether a fault was intercepted or went through the
\* IDT, the stub and the unwinding, and whatever TF and RF the hardware pushed,
\* the caller sees RIP, RSP and the flags of the faulting instruction.  The same
\* holds for an exit without a device and for a step that could not run.
FaultRestoresState ==
  /\ RanOne({"fault", "outside"}) => SameProgramState
  /\ pc = "returned" /\ ran = <<>> => SameProgramState /\ outcome = Faulted(NoVector, 0)

\* The vector and error code reported are those of the exception the instruction
\* raised, although on the stub path both are inferred from addresses; and an
\* instruction that raised none is reported as retired.  So is INT 1 on WHP, which
\* takes it for the step's own #DB.
OutcomeIsExact ==
  /\ RanOne({"fault"}) =>
       /\ outcome.kind = "fault" /\ outcome.vec = ran[1].vec
       /\ outcome.err = IF has_error_code(ran[1].vec) THEN ran[1].err ELSE 0
       /\ lastFault = outcome
  /\ RanOne({"trap", "int"}) =>
       IF backend = "whp" /\ ran[1].vec = 1 THEN outcome = Retired
       ELSE outcome.kind = "fault" /\ outcome.vec = ran[1].vec
  /\ RanOne({"plain", "rep", "hlt"}) => outcome = Retired /\ lastFault = NoFault

\* No sequence of register writes, faults, halts and canceled runs makes the
\* guest run away: only an instruction that holds #DB off is followed by a
\* second one, and by no third.
NoRunaway ==
  Len(ran) > 1 => Len(ran) = 2 /\ ran[1].cls = "movss"

\* Every step returns: the run loop gives up after RunLimit canceled runs.
StepReturns == ~Callable ~> Callable

\* src/kvm.rs, unwind_fault: "RSP back to its pre-fault value".
RspBack ==
  pc = "returned" /\ outcome.kind = "fault" /\ outcome.vec # NoVector => regs.rsp = before.rsp

-----------------------------------------------------------------------------
(* What the caller sees between steps implements StepContract.               *)

Seen == IF Callable THEN regs ELSE before

Contract == INSTANCE StepContract WITH
  Vectors <- Vectors \cup {NoVector},
  rip <- Seen.rip, rsp <- Seen.rsp, flags <- get_rflags(Seen),
  outcome <- [kind |-> outcome.kind, vec |-> outcome.vec]

\* The contract is about plain instructions and faults: a step over MOV SS, a
\* trap or INT n has effects of its own, which hw_rsp and NoRunaway are about.
OutOfContract ==
  /\ pc' = "returned"
  /\ \E k \in DOMAIN ran' : ran'[k].cls \in {"movss", "trap", "int"}

\* On either driver, whatever the host intercepts and however often a run is cut
\* short, a step seen from outside retires one instruction or changes nothing.
ImplementsStepContract ==
  Contract!Init /\ [][Contract!Next \/ OutOfContract]_(Contract!vars)
=============================================================================
