------------------------------ MODULE AsebaVM ------------------------------
(***************************************************************************)
(* The Aseba virtual machine (aseba/vm/vm.c) with its message glue         *)
(* (aseba/transport/buffer/vm-buffer.c) as the playground drives it        *)
(* (aseba/targets/playground): one message is handled, then AsebaVMRun is  *)
(* called, all on one thread.                                              *)
(*                                                                         *)
(* The C structure AsebaVMState is the record vm; the execution stack is   *)
(* the sequence vm.stack, so that sp = Len(vm.stack) - 1.  Bytecode words  *)
(* are the 16-bit numbers of the code: instructions and their operands     *)
(* share one array and can be mistaken for one another.                    *)
(***************************************************************************)
EXTENDS Integers, Sequences, FiniteSets, FiniteSetsExt, SequencesExt

CONSTANTS
  BytecodeSize,    \* words of bytecode space
  VariablesSize,   \* words of variable space
  StackSize,       \* depth of the execution stack
  MaxBreakpoints,  \* ASEBA_MAX_BREAKPOINTS
  StepsLimit,      \* argument of AsebaVMRun; 0 means no limit
  Payload,         \* words carried by one SET_BYTECODE message
  Programs,        \* bytecode images a client may upload (sequences of words)
  LocalEvents,     \* ids of the events the robot raises by itself
  UserEvents,      \* ids of the events other nodes may emit
  ArgValues,       \* values of the argument of a user event, or of SET_VARIABLES
  SourceAddr,      \* address of the variable event.source
  BreakpointPcs,   \* addresses at which a client may ask for a breakpoint
  Spans,           \* parts of the variables a client may read or write (start, length)
  NativePops,      \* number of stack words each native function pops
  NativeArgs,      \* sizes of its arguments; -k: the k-th word below their addresses
  NativeValues     \* values a native function may store

\* What AsebaSendMessageWords and AsebaSendVariables put in a message: the bytes of the
\* packet buffer of vm-buffer.c, less those of the type.
MaxEventArgSize == 516

Words == 0..65535

\* int16_t: what the stack and the variables hold
Values == -32768..32767

ASSUME SizesAssumption ==
  /\ BytecodeSize \in Nat \ {0} /\ BytecodeSize <= 65535
  /\ VariablesSize \in Nat \ {0} /\ VariablesSize <= 32768 /\ StackSize \in Nat \ {0}
  /\ MaxBreakpoints \in Nat /\ StepsLimit \in Nat /\ Payload \in Nat \ {0}
  /\ SourceAddr \in Nat /\ SourceAddr + 1 < VariablesSize
  /\ Programs \subseteq Seq(Words)
  /\ ArgValues \subseteq Values /\ NativeValues \subseteq Values
  /\ \A x \in Spans : x.start \in Nat /\ x.length \in Nat
  /\ \A id \in DOMAIN NativePops :
        /\ NativePops[id] \in Nat
        /\ NativeArgs[id] \in Seq(Int) /\ Len(NativeArgs[id]) <= NativePops[id]
        /\ \A i \in DOMAIN NativeArgs[id] :
              NativeArgs[id][i] < 0 => Len(NativeArgs[id]) - NativeArgs[id][i] <= NativePops[id]

VARIABLES
  vm,       \* the AsebaVMState record, plus said and fault (see VMInit)
  run,      \* where AsebaVMRun is: "idle", "pending", "bare" or "breakpoint"
  left,     \* stepsLimit, counted down by the run in progress
  upload,   \* chunks of the program being sent that are still on their way
  loaded,   \* the program that was sent last
  edge      \* history: the last result of the condition at each address, since reset

vars == <<vm, run, left, upload, loaded, edge>>

Addrs == 0..(BytecodeSize - 1)

-----------------------------------------------------------------------------
(* Sixteen-bit words *)

EventInit == 65535

UInt16(n) == n % 65536

Int16(n) == ((n + 32768) % 65536) - 32768

Op(w) == w \div 4096

Low(w) == w % 4096

\* ((int16_t)(bytecode << 4)) >> 4
Imm12(w) == IF Low(w) >= 2048 THEN Low(w) - 4096 ELSE Low(w)

Bit(w, b) == (w \div (2 ^ b)) % 2

WhenBit == 8

WasTrueBit == 9

SetWasTrue(w, b) == w + (IF b THEN 1 - Bit(w, WasTrueBit) ELSE -Bit(w, WasTrueBit)) * 512

Bits(n) == {i \in 0..15 : Bit(UInt16(n), i) = 1}

OfBits(S) ==
  LET bit(i) == IF i \in S THEN 2 ^ i ELSE 0
  IN  Int16(bit(0) + bit(1) + bit(2) + bit(3) + bit(4) + bit(5) + bit(6) + bit(7) + bit(8)
            + bit(9) + bit(10) + bit(11) + bit(12) + bit(13) + bit(14) + bit(15))

Truth(b) == IF b THEN 1 ELSE 0

Magnitude(n) == IF n < 0 THEN -n ELSE n

\* C division truncates towards zero
TruncDiv(a, b) == (IF (a < 0) = (b < 0) THEN 1 ELSE -1) * (Magnitude(a) \div Magnitude(b))

\* The results AsebaVMDoBinaryOperation may return: one, except for a shift whose
\* distance is out of range, which C leaves undefined.
BinaryOperation(a, b, op) ==
  CASE op = 0  -> IF b \in 0..15 THEN {Int16(a * 2 ^ b)} ELSE Values
    [] op = 1  -> IF b \in 0..15 THEN {a \div (2 ^ b)} ELSE Values
    [] op = 2  -> {Int16(a + b)}
    [] op = 3  -> {Int16(a - b)}
    [] op = 4  -> {Int16(a * b)}
    [] op = 5  -> {IF b = 0 THEN 0 ELSE Int16(TruncDiv(a, b))}
    [] op = 6  -> {IF b = 0 THEN 0 ELSE a - b * TruncDiv(a, b)}
    [] op = 7  -> {OfBits(Bits(a) \cup Bits(b))}
    [] op = 8  -> {OfBits((Bits(a) \cup Bits(b)) \ (Bits(a) \cap Bits(b)))}
    [] op = 9  -> {OfBits(Bits(a) \cap Bits(b))}
    [] op = 10 -> {Truth(a = b)}
    [] op = 11 -> {Truth(a # b)}
    [] op = 12 -> {Truth(a > b)}
    [] op = 13 -> {Truth(a >= b)}
    [] op = 14 -> {Truth(a < b)}
    [] op = 15 -> {Truth(a <= b)}
    [] op = 16 -> {Truth(a # 0 \/ b # 0)}
    [] op = 17 -> {Truth(a # 0 /\ b # 0)}

UnaryOperation(a, op) ==
  CASE op = 0 -> Int16(-a)
    [] op = 1 -> Int16(Magnitude(a))
    [] op = 2 -> -a - 1

-----------------------------------------------------------------------------
(* What the virtual machine sends, as far as a debugger follows it, and the *)
(* assertions of the ASEBA_ASSERT build, after which the playground aborts. *)

SayState(s) == [s EXCEPT !.said = [kind |-> "state", pc |-> s.pc, flags |-> s.flags]]

SayKilled(s) == [s EXCEPT !.said = [kind |-> "killed", pc |-> s.pc, flags |-> {}]]

\* A run-time error: the flags are overwritten and the error is sent.
ErrorStop(s, what) ==
  [s EXCEPT !.flags = {"step"}, !.said = [kind |-> what, pc |-> s.pc, flags |-> {}]]

Fault(s, what) == [s EXCEPT !.fault = what]

\* Number of words of an instruction.
Width(w) == CASE Op(w) \in {2, 5, 6, 10} -> 2
              [] Op(w) = 11 -> 3
              [] OTHER -> 1

-----------------------------------------------------------------------------
(* Events *)

\* The address of the first entry for e in the event vector table, or 0.  That the table
\* lies in the bytecode space is a matter of NoFault.
GetEventAddress(s, e) ==
  LET hits == {i \in Addrs : /\ i % 2 = 1 /\ i < s.bytecode[0] /\ i + 1 \in Addrs
                             /\ s.bytecode[i] = e}
  IN  IF hits = {} THEN 0 ELSE s.bytecode[Min(hits) + 1]

\* Mutant: sp is not reset, the interrupted event's operands stay on the stack.
EnterEventKeepingStack(s, a) == [s EXCEPT !.pc = a, !.flags = @ \cup {"active"}]

EnterEvent(s, a) == [s EXCEPT !.pc = a, !.stack = <<>>, !.flags = @ \cup {"active"}]

\* Mutant: an event set up while step by step is not notified.
SetupEventSilently(s, e) ==
  LET a == GetEventAddress(s, e)
  IN  IF a = 0 THEN s
      ELSE EnterEvent(IF "active" \in s.flags THEN SayKilled(s) ELSE s, a)

SetupEvent(s, e) ==
  LET a == GetEventAddress(s, e)
      t == EnterEvent(IF "active" \in s.flags THEN SayKilled(s) ELSE s, a)
  IN  IF a = 0 THEN s ELSE IF "step" \in t.flags THEN SayState(t) ELSE t

-----------------------------------------------------------------------------
(* One operator per instruction.  Each maps a state to the set of states    *)
(* it may leave; s.pc still addresses the instruction.                      *)

Word(s) == s.bytecode[s.pc]

Operand(s, k) == s.bytecode[s.pc + k]

Advance(s, n) == [s EXCEPT !.pc = UInt16(@ + n)]

\* The i-th word from the top of the stack, the top being 0.
Peek(s, i) == s.stack[Len(s.stack) - i]

Popped(s, n) == [s EXCEPT !.stack = SubSeq(@, 1, Len(@) - n)]

Pushed(s, v) ==
  IF Len(s.stack) >= StackSize THEN Fault(s, "stack overflow")
  ELSE [s EXCEPT !.stack = Append(@, v)]

Stop(s) == {[s EXCEPT !.flags = @ \ {"active"}]}

SmallImmediate(s) == {Advance(Pushed(s, Imm12(Word(s))), 1)}

LargeImmediate(s) == {Advance(Pushed(s, Int16(Operand(s, 1))), 2)}

Load(s) ==
  {IF Low(Word(s)) >= VariablesSize THEN Fault(s, "out of variables bounds")
   ELSE Advance(Pushed(s, s.variables[Low(Word(s))]), 1)}

Store(s) ==
  {IF Len(s.stack) < 1 THEN Fault(s, "stack underflow")
   ELSE IF Low(Word(s)) >= VariablesSize THEN Fault(s, "out of variables bounds")
   ELSE Advance(Popped([s EXCEPT !.variables[Low(Word(s))] = Peek(s, 0)], 1), 1)}

\* The index is compared with the array size of the operand, not with the variables.
LoadIndirect(s) ==
  LET at == Low(Word(s)) + UInt16(Peek(s, 0))
  IN  {IF Len(s.stack) < 1 THEN Fault(s, "stack underflow")
       ELSE IF UInt16(Peek(s, 0)) >= Operand(s, 1) THEN ErrorStop(s, "bounds")
       ELSE IF at >= VariablesSize THEN Fault(s, "wild access")
       ELSE Advance([s EXCEPT !.stack[Len(s.stack)] = s.variables[at]], 2)}

StoreIndirect(s) ==
  LET at == Low(Word(s)) + UInt16(Peek(s, 0))
  IN  {IF Len(s.stack) < 2 THEN Fault(s, "stack underflow")
       ELSE IF UInt16(Peek(s, 0)) >= Operand(s, 1) THEN ErrorStop(s, "bounds")
       ELSE IF at >= VariablesSize THEN Fault(s, "wild access")
       ELSE Advance(Popped([s EXCEPT !.variables[at] = Peek(s, 1)], 2), 2)}

UnaryArithmetic(s) ==
  {IF Len(s.stack) < 1 THEN Fault(s, "stack underflow")
   ELSE IF Word(s) % 256 > 2 THEN Fault(s, "unknown unary operator")
   ELSE Advance([s EXCEPT !.stack[Len(s.stack)] = UnaryOperation(@, Word(s) % 256)], 1)}

\* A division by zero stops the virtual machine and then yields 0.
Checked(s) ==
  IF Word(s) % 256 \in {5, 6} /\ Peek(s, 0) = 0 THEN ErrorStop(s, "division") ELSE s

BinaryArithmetic(s) ==
  IF Len(s.stack) < 2 THEN {Fault(s, "stack underflow")}
  ELSE IF Word(s) % 256 > 17 THEN {Fault(s, "unknown binary operator")}
  ELSE {Advance(Pushed(Popped(Checked(s), 2), r), 1) :
           r \in BinaryOperation(Peek(s, 1), Peek(s, 0), Word(s) % 256)}

\* The displacement is checked against the bytecode space before it is taken.
Jumped(s, disp) ==
  IF s.pc + disp \in Addrs THEN Advance(s, disp) ELSE Fault(s, "out of bytecode bounds")

Jump(s) == {Jumped(s, Imm12(Word(s)))}

\* Mutant: the condition's result is written back only when it does not hold.
RememberOnlyFalse(s, holds) ==
  IF holds THEN s ELSE [s EXCEPT !.bytecode[s.pc] = SetWasTrue(@, FALSE)]

\* The condition's result is kept in the instruction itself.
Remember(s, holds) == [s EXCEPT !.bytecode[s.pc] = SetWasTrue(@, holds)]

ConditionHolds(r) == r # 0

TakesBody(w, holds) == holds /\ ~(Bit(w, WhenBit) = 1 /\ Bit(w, WasTrueBit) = 1)

ConditionalBranch(s) ==
  IF Len(s.stack) < 2 THEN {Fault(s, "stack underflow")}
  ELSE IF Word(s) % 256 > 17 THEN {Fault(s, "unknown binary operator")}
  ELSE {LET holds == ConditionHolds(r)
            disp  == IF TakesBody(Word(s), holds) THEN 2 ELSE Int16(Operand(s, 1))
        IN  Jumped(Remember(Popped(Checked(s), 2), holds), disp) :
           r \in BinaryOperation(Peek(s, 1), Peek(s, 0), Word(s) % 256)}

\* The event is sent; the receivers are other nodes.  The assertion compares a number of
\* words with a size in bytes: behind it, the words must still lie in the variables and
\* fill no more than the packet buffer.
Emit(s) ==
  LET start == Operand(s, 1)
      length == Operand(s, 2)
  IN  {IF length > MaxEventArgSize THEN Fault(s, "emit buffer too long")
       ELSE IF start + length > VariablesSize \/ 2 * length > MaxEventArgSize
            THEN Fault(s, "wild access")
       ELSE Advance(s, 3)}

\* The argument i of the native function id begins at the address it finds i-th from the
\* top of the stack, and ends where its size, given or found on the stack too, tells.
NativeStart(stack, top, i) == UInt16(stack[top - i + 1])

NativeSize(stack, top, id, i) ==
  LET size == NativeArgs[id][i]
  IN  IF size < 0 THEN UInt16(stack[top - Len(NativeArgs[id]) + size + 1]) ELSE size

NativeFits(stack, top, id) ==
  \A i \in DOMAIN NativeArgs[id] :
     NativeStart(stack, top, i) + NativeSize(stack, top, id, i) <= VariablesSize

NativeReach(stack, top, id) ==
  UNION {NativeStart(stack, top, i)
           ..(NativeStart(stack, top, i) + NativeSize(stack, top, id, i) - 1) :
            i \in DOMAIN NativeArgs[id]}

Overwritten(variables, f) ==
  [a \in DOMAIN variables |-> IF a \in DOMAIN f THEN f[a] ELSE variables[a]]

\* A native function pops its words and stores to some of the variables its arguments
\* cover, or reports an error of its own (math.sqrt).
NativeCall(s) ==
  LET id == Low(Word(s))
      t  == Popped(s, NativePops[id])
      top == Len(s.stack)
  IN  IF id \notin DOMAIN NativePops THEN {Fault(s, "wild access")}
      ELSE IF top < NativePops[id] THEN {Fault(s, "stack underflow")}
      ELSE IF ~NativeFits(s.stack, top, id) THEN {Fault(s, "wild access")}
      ELSE {Advance([t EXCEPT !.variables = Overwritten(@, f)], 1) :
               f \in UNION {[W -> NativeValues] : W \in SUBSET NativeReach(s.stack, top, id)}}
           \cup {Advance(ErrorStop(t, "node"), 1)}

SubCall(s) == {IF Len(s.stack) >= StackSize THEN Fault(s, "stack overflow")
               ELSE [Pushed(s, Int16(s.pc + 1)) EXCEPT !.pc = Low(Word(s))]}

SubRet(s) ==
  {IF Len(s.stack) < 1 THEN Fault(s, "stack underflow")
   ELSE [Popped(s, 1) EXCEPT !.pc = UInt16(Peek(s, 0))]}

\* An instruction that does not lie in the bytecode space reads beyond it.
AsebaVMStep(s) ==
  IF s.pc \notin Addrs \/ s.pc + Width(Word(s)) > BytecodeSize THEN {Fault(s, "wild access")}
  ELSE IF "active" \notin s.flags THEN {Fault(s, "step out of run")}
  ELSE CASE Op(Word(s)) = 0  -> Stop(s)
         [] Op(Word(s)) = 1  -> SmallImmediate(s)
         [] Op(Word(s)) = 2  -> LargeImmediate(s)
         [] Op(Word(s)) = 3  -> Load(s)
         [] Op(Word(s)) = 4  -> Store(s)
         [] Op(Word(s)) = 5  -> LoadIndirect(s)
         [] Op(Word(s)) = 6  -> StoreIndirect(s)
         [] Op(Word(s)) = 7  -> UnaryArithmetic(s)
         [] Op(Word(s)) = 8  -> BinaryArithmetic(s)
         [] Op(Word(s)) = 9  -> Jump(s)
         [] Op(Word(s)) = 10 -> ConditionalBranch(s)
         [] Op(Word(s)) = 11 -> Emit(s)
         [] Op(Word(s)) = 12 -> NativeCall(s)
         [] Op(Word(s)) = 13 -> SubCall(s)
         [] Op(Word(s)) = 14 -> SubRet(s)
         [] OTHER -> {Fault(s, "unknown bytecode")}

\* History: the condition the instruction at s.pc evaluates, if it is a branch.
Observe(s) ==
  IF s.pc \in Addrs /\ Op(Word(s)) = 10 /\ Len(s.stack) >= 2
  THEN [edge EXCEPT ![s.pc] =
          0 \notin BinaryOperation(Peek(s, 1), Peek(s, 0), Word(s) % 256)]
  ELSE edge

-----------------------------------------------------------------------------
(* Uploading and resetting *)

\* The chunks sendBytecode cuts a program into: full ones, then the rest.
Chunks(p) ==
  {[start |-> k * Payload, words |-> SubSeq(p, k * Payload + 1, Min({Len(p), (k + 1) * Payload}))] :
      k \in 0..((Len(p) - 1) \div Payload)}

\* The addresses AsebaVMResetWhenFlags takes for instructions: it starts at twice
\* the size of the event vector table, which bytecode[0] already gives in words.
ResetWalk(code) ==
  LET from[a \in 0..(BytecodeSize + 2)] ==
        IF a >= BytecodeSize THEN {} ELSE {a} \cup from[a + Width(code[a])]
  IN  from[Min({UInt16(code[0] * 2 + 1), BytecodeSize})]

ResetWhenFlags(code) ==
  [a \in Addrs |-> IF a \in ResetWalk(code) /\ Op(code[a]) = 10
                   THEN SetWasTrue(code[a], FALSE) ELSE code[a]]

\* Mutant: a reset leaves the execution mode alone.
ResetFlagsKept(s) == [s EXCEPT !.bytecode = ResetWhenFlags(@)]

ResetFlags(s) == [s EXCEPT !.flags = {"step"}, !.bytecode = ResetWhenFlags(@)]

Reset(s) ==
  LET t == ResetFlags(s)
  IN  IF GetEventAddress(t, EventInit) = 0 THEN SayState(t) ELSE SetupEvent(t, EventInit)

\* Mutant: the chunk is copied one word too far.
WrittenOff(s, c) ==
  [s EXCEPT !.bytecode = [a \in Addrs |-> IF a - c.start \in DOMAIN c.words
                                          THEN c.words[a - c.start] ELSE @[a]]]

\* A chunk that does not fit the bytecode space fails an assertion.
Written(s, c) ==
  [s EXCEPT !.bytecode = [a \in Addrs |-> IF a - c.start + 1 \in DOMAIN c.words
                                          THEN c.words[a - c.start + 1] ELSE @[a]],
            !.fault = IF c.start + Len(c.words) > BytecodeSize
                      THEN "out of bytecode bounds" ELSE @]

-----------------------------------------------------------------------------
(* Messages.  A handler runs to its end between two runs of the machine,    *)
(* and AsebaVMRun is called after each of them.                             *)

Handling == run = "idle" /\ vm.fault = "none"

\* A client sends a whole program at once and no command to execute before it.
Upload(p) ==
  /\ Handling /\ upload = {}
  /\ upload' = Chunks(p)
  /\ loaded' = p
  /\ UNCHANGED <<vm, run, left, edge>>

\* SET_BYTECODE falls through into RESET.
SetBytecode(c) ==
  /\ Handling
  /\ vm' = Reset(Written(vm, c))
  /\ upload' = upload \ {c}
  /\ edge' = [a \in Addrs |-> FALSE]
  /\ run' = "pending"
  /\ UNCHANGED <<left, loaded>>

\* A debug message that leads to state t.
Handle(t) ==
  /\ Handling
  /\ vm' = t
  /\ run' = "pending"
  /\ UNCHANGED <<left, upload, loaded>>

ResetMsg == Handle(Reset(vm)) /\ edge' = [a \in Addrs |-> FALSE]

RunMsg ==
  /\ upload = {}
  /\ Handle(SayState([vm EXCEPT !.flags = @ \ {"step"}]))
  /\ UNCHANGED edge

Pause == Handle(SayState([vm EXCEPT !.flags = @ \cup {"step"}])) /\ UNCHANGED edge

StepMsg ==
  /\ upload = {} /\ "active" \in vm.flags
  /\ \E t \in AsebaVMStep(vm) : Handle(SayState(t))
  /\ edge' = Observe(vm)

StopMsg == Handle(SayState([vm EXCEPT !.flags = {"step"}])) /\ UNCHANGED edge

GetExecutionState == Handle(SayState(vm)) /\ UNCHANGED edge

\* Mutant: the table of breakpoints is not checked for room.
BreakpointSetUnlimited(pc) == Handle([vm EXCEPT !.breakpoints = Append(@, pc)]) /\ UNCHANGED edge

\* An address outside the bytecode fails an assertion, room or not.  The answer,
\* BREAKPOINT_SET_RESULT, tells whether there was room.
BreakpointSet(pc) ==
  /\ Handle(IF pc \notin Addrs THEN Fault(vm, "breakpoint out of bytecode bounds")
            ELSE IF Len(vm.breakpoints) < MaxBreakpoints
            THEN [vm EXCEPT !.breakpoints = Append(@, pc)] ELSE vm)
  /\ UNCHANGED edge

\* Only the first of several equal breakpoints is removed.
BreakpointClear(pc) ==
  Handle([vm EXCEPT !.breakpoints = RemoveFirst(@, pc)]) /\ UNCHANGED edge

BreakpointClearAll == Handle([vm EXCEPT !.breakpoints = <<>>]) /\ UNCHANGED edge

Inside(x) == x.start + x.length <= VariablesSize

\* The answer is put in the packet buffer behind its start.
GetVariables(x) ==
  /\ Handle(IF ~Inside(x) THEN Fault(vm, "out of variables bounds")
            ELSE IF 2 + 2 * x.length > MaxEventArgSize THEN Fault(vm, "wild access")
            ELSE vm)
  /\ UNCHANGED edge

SetVariables(x, f) ==
  /\ Handle(IF ~Inside(x) THEN Fault(vm, "out of variables bounds")
            ELSE [vm EXCEPT !.variables = Overwritten(@, f)])
  /\ UNCHANGED edge

\* Events are dropped while stepping inside an event.
Receptive == "step" \notin vm.flags \/ "active" \notin vm.flags

\* A user event stores its source and its argument before it is set up, whether
\* or not the program has a handler for it.
UserEvent(e, v) ==
  /\ Receptive
  /\ Handle(SetupEvent([vm EXCEPT !.variables[SourceAddr] = 1, !.variables[SourceAddr + 1] = v], e))
  /\ UNCHANGED edge

\* execLocalEvent: the source is the node itself.
LocalEvent(e) ==
  /\ Receptive
  /\ Handle(SetupEvent([vm EXCEPT !.variables[SourceAddr] = 0], e))
  /\ UNCHANGED edge

-----------------------------------------------------------------------------
(* AsebaVMRun *)

VMRun ==
  /\ run = "pending" /\ vm.fault = "none"
  /\ IF "active" \in vm.flags /\ "step" \notin vm.flags
     THEN /\ vm' = [vm EXCEPT !.flags = @ \cup {"running"}]
          /\ run' = IF vm.breakpoints # <<>> THEN "breakpoint" ELSE "bare"
          /\ left' = StepsLimit
     ELSE /\ run' = "idle"
          /\ UNCHANGED <<vm, left>>
  /\ UNCHANGED <<upload, loaded, edge>>

InLoop ==
  /\ run \in {"bare", "breakpoint"} /\ vm.fault = "none"
  /\ UNCHANGED <<upload, loaded>>

LoopCondition == {"active", "running"} \subseteq vm.flags /\ (StepsLimit > 0 => left > 0)

CheckBreakpoint(s) == run = "breakpoint" /\ \E i \in DOMAIN s.breakpoints : s.breakpoints[i] = s.pc

PausedAtBreakpoint(s) == SayState([s EXCEPT !.flags = @ \cup {"step"}])

\* The breakpoint run returns at once, "running" still set.
HitBreakpoint ==
  /\ InLoop /\ LoopCondition /\ CheckBreakpoint(vm)
  /\ vm' = PausedAtBreakpoint(vm)
  /\ run' = "idle"
  /\ UNCHANGED <<left, edge>>

\* Mutant: a slow event is reported, and left active.
KillSlowEventNot(s) == SayKilled(s)

\* killSlowEvent, whatever the last step did, then the end of the run.
KillSlowEvent(s) == SayKilled([s EXCEPT !.flags = @ \ {"active"}])

\* Mutant: the limit is not counted down.
CountedDownNot(n) == n

CountedDown(n) == n - 1

LoopStep ==
  /\ InLoop /\ LoopCondition /\ ~CheckBreakpoint(vm)
  /\ edge' = Observe(vm)
  /\ IF StepsLimit = 0 THEN left' = left ELSE left' = CountedDown(left)
  /\ \E t \in AsebaVMStep(vm) :
       IF StepsLimit > 0 /\ left' = 0
       THEN /\ vm' = [KillSlowEvent(t) EXCEPT !.flags = @ \ {"running"}]
            /\ run' = "idle"
       ELSE vm' = t /\ UNCHANGED run

LoopEnd ==
  /\ InLoop /\ ~LoopCondition
  /\ vm' = [vm EXCEPT !.flags = @ \ {"running"}]
  /\ run' = "idle"
  /\ UNCHANGED <<left, edge>>

-----------------------------------------------------------------------------
\* AsebaVMInit
VMInit ==
  [bytecode    |-> [a \in Addrs |-> 0],
   variables   |-> [a \in 0..(VariablesSize - 1) |-> 0],
   stack       |-> <<>>,
   flags       |-> {},
   pc          |-> 0,
   breakpoints |-> <<>>,
   said        |-> [kind |-> "none", pc |-> 0, flags |-> {}],  \* last debugger message
   fault       |-> "none"]                                     \* assertion that failed

Init ==
  /\ vm = VMInit
  /\ run = "idle"
  /\ left = 0
  /\ upload = {}
  /\ loaded = <<>>
  /\ edge = [a \in Addrs |-> FALSE]

Message ==
  \/ \E c \in upload : SetBytecode(c)
  \/ ResetMsg \/ RunMsg \/ Pause \/ StepMsg \/ StopMsg \/ GetExecutionState
  \/ \E pc \in BreakpointPcs : BreakpointSet(pc) \/ BreakpointClear(pc)
  \/ BreakpointClearAll
  \/ \E x \in Spans :
        \/ GetVariables(x)
        \/ \E f \in [x.start..(x.start + x.length - 1) -> ArgValues] : SetVariables(x, f)
  \/ \E e \in UserEvents, v \in ArgValues : UserEvent(e, v)
  \/ \E e \in LocalEvents : LocalEvent(e)

Run == VMRun \/ HitBreakpoint \/ LoopStep \/ LoopEnd

Next == Run \/ Message \/ \E p \in Programs : Upload(p)

Spec == Init /\ [][Next]_vars

\* The thread that calls AsebaVMRun is not suspended for ever.
FairSpec == Spec /\ WF_vars(Run)

-----------------------------------------------------------------------------
(* Properties *)

FlagSet == {"active", "step", "running"}

Errors == {"division", "bounds", "node"}

TypeOK ==
  /\ vm.bytecode \in [Addrs -> Words]
  /\ vm.variables \in [0..(VariablesSize - 1) -> Values]
  /\ vm.stack \in Seq(Values)
  /\ vm.flags \subseteq FlagSet
  /\ vm.pc \in Words
  /\ vm.breakpoints \in Seq(BreakpointPcs) /\ Len(vm.breakpoints) <= MaxBreakpoints
  /\ vm.said.kind \in {"none", "state", "killed"} \cup Errors
  /\ run \in {"idle", "pending", "bare", "breakpoint"}
  /\ left \in 0..StepsLimit
  /\ upload \subseteq UNION {Chunks(p) : p \in Programs}
  /\ loaded \in Programs \cup {<<>>}
  /\ edge \in [Addrs -> BOOLEAN]

\* No assertion of vm.c fails, in an instruction or in the handler of a message, and
\* nothing is read or written outside the machine's arrays or the packet buffer, by vm.c or
\* by a native function: not after an event is interrupted by a breakpoint, an error, a
\* stop, a reset or a new program in the middle of an expression or of a subroutine.  The
\* event vector table, which every event walks, lies in the bytecode space at any moment of
\* an upload.
NoFault ==
  /\ vm.fault = "none"
  /\ \A i \in 1..(vm.bytecode[0] - 1) : i % 2 = 1 => i + 1 \in Addrs

\* A debugger that keeps the last message it received knows where a machine that is
\* step by step stands: either it was told this pc and these flags, or it was told of
\* the error (or of the kill that followed it) that left no event active.
PausedIsReported ==
  (vm.fault = "none" /\ "step" \in vm.flags) =>
     \/ /\ vm.said.kind = "state" /\ vm.said.pc = vm.pc /\ vm.said.flags = vm.flags
     \/ vm.said.kind \in Errors \cup {"killed"} /\ vm.flags = {"step"}

\* Between two messages an event is active only under the debugger: an event that is
\* not stepped through has run to its end, to an error or to the steps limit.
IdleIsSettled ==
  (run = "idle" /\ "active" \in vm.flags) => "step" \in vm.flags

\* Nothing is executed while a program is only partly there: the machine is kept
\* step by step from the first chunk to the last.
HalfLoadedNeverRuns ==
  (upload # {} /\ upload # Chunks(loaded)) => /\ run \in {"idle", "pending"}
                                             /\ "step" \in vm.flags

\* The addresses of the conditional branches of a program as the compiler lays it out.
Branches(p) ==
  LET from[a \in 0..(BytecodeSize + 2)] ==
        IF a >= Len(p) THEN {} ELSE {a} \cup from[a + Width(p[a + 1])]
  IN  IF p = <<>> THEN {} ELSE {a \in from[p[1]] : Op(p[a + 1]) = 10}

\* Once all its chunks have arrived, in whatever order, a program stays as it was
\* sent but for the was-true bits of its own conditional branches.
CodeIntact ==
  upload = {} => \A a \in 0..(Len(loaded) - 1) :
     \/ vm.bytecode[a] = loaded[a + 1]
     \/ a \in Branches(loaded) /\ vm.bytecode[a] = SetWasTrue(loaded[a + 1], TRUE)

\* The step executes the conditional branch at vm.pc, a "when" whose body is not empty.
WhenStep ==
  /\ {vm.pc, vm.pc + 1} \subseteq Addrs /\ Op(Word(vm)) = 10
  /\ Bit(Word(vm), WhenBit) = 1 /\ Int16(Operand(vm, 1)) # 2
  /\ StepMsg \/ LoopStep

\* The body of a "when" is entered only if its condition did not hold the last time
\* it was evaluated since the reset.
WhenOnRisingEdge == [][WhenStep /\ vm'.pc = vm.pc + 2 => ~edge[vm.pc]]_vars

\* Every run ends: a program that loops is killed when the steps are used up.
RunsEnd == (run # "idle") ~> (run = "idle")
=============================================================================
