--------------------------- MODULE AsebaVMProofs ---------------------------
(***************************************************************************)
(* What a debugger may rely on, for every program, every size of the       *)
(* machine and every steps limit.  The argument never looks at the values  *)
(* a program computes: an instruction either leaves the execution mode and *)
(* the last message alone, or ends the event, or is the one that stops the *)
(* machine with an error (StepOutcome).                                    *)
(***************************************************************************)
EXTENDS CompiledPrograms, WellFoundedInduction, TLAPS

Fields == {"bytecode", "variables", "stack", "flags", "pc", "breakpoints", "said", "fault"}

\* s has the fields of AsebaVMState, whatever they hold.
IsState(s) == DOMAIN s = Fields

\* From s to t the execution mode and the last message are the same.
Quiet(s, t) == IsState(t) /\ t.flags = s.flags /\ t.said = s.said

Stopped(t) == IsState(t) /\ t.flags = {"step"} /\ t.said.kind \in Errors

\* The three ways an instruction can end.
Outcome(s, t) ==
  \/ Quiet(s, t)
  \/ IsState(t) /\ t.flags = s.flags \ {"active"} /\ t.said = s.said
  \/ Stopped(t)

LEMMA HelpersAreQuiet ==
  ASSUME NEW s, IsState(s), NEW n, NEW v
  PROVE  /\ Quiet(s, Advance(s, n))
         /\ Quiet(s, Popped(s, n))
         /\ Quiet(s, Pushed(s, v))
         /\ Quiet(s, Fault(s, v))
         /\ Quiet(s, Jumped(s, n))
         /\ Quiet(s, Remember(s, v))
  BY DEF IsState, Fields, Quiet, Advance, Popped, Pushed, Fault, Jumped, Remember

LEMMA QuietComposes ==
  ASSUME NEW s, NEW t, NEW u, Quiet(s, t), Quiet(t, u)
  PROVE  Quiet(s, u)
  BY DEF Quiet

LEMMA StoppedStays ==
  ASSUME NEW t, NEW u, Stopped(t), Quiet(t, u)
  PROVE  Stopped(u)
  BY DEF Quiet, Stopped

LEMMA ErrorStopStops ==
  ASSUME NEW s, IsState(s), NEW what \in Errors
  PROVE  Stopped(ErrorStop(s, what))
  BY DEF IsState, Fields, Stopped, ErrorStop

\* A native function faults only where its words or the variables they name are not there.
LEMMA NativeOutcome ==
  ASSUME NEW s, NEW t \in NativeCall(s)
  PROVE  LET id == Low(Word(s))
             u  == Popped(s, NativePops[id])
             fits == /\ id \in DOMAIN NativePops /\ ~(Len(s.stack) < NativePops[id])
                     /\ NativeFits(s.stack, Len(s.stack), id)
         IN  \/ ~fits /\ \E what : t = Fault(s, what)
             \/ fits /\ t = Advance(ErrorStop(u, "node"), 1)
             \/ fits /\ \E W : \E f \in [W -> NativeValues] :
                           t = Advance([u EXCEPT !.variables = Overwritten(@, f)], 1)
BY Zenon DEF NativeCall

VariablesMsg ==
  \E x \in Spans :
     \/ GetVariables(x)
     \/ \E f \in [x.start..(x.start + x.length - 1) -> ArgValues] : SetVariables(x, f)

\* A message about variables leaves the state, stores to variables or fails an assertion.
LEMMA VariablesOutcome ==
  ASSUME VariablesMsg
  PROVE  /\ UNCHANGED edge
         /\ \/ ~RequestsFit /\ \E what : Handle(Fault(vm, what))
            \/ Handle(vm)
            \/ \E W : \E f \in [W -> ArgValues] : Handle([vm EXCEPT !.variables = Overwritten(@, f)])
<1>1. PICK x \in Spans :
        \/ GetVariables(x)
        \/ \E f \in [x.start..(x.start + x.length - 1) -> ArgValues] : SetVariables(x, f)
  BY DEF VariablesMsg
<1>2. RequestsFit => Inside(x) /\ ~(2 + 2 * x.length > MaxEventArgSize)
  BY SizesAssumption DEF RequestsFit, MaxEventArgSize
<1>3. CASE GetVariables(x)
  <2>1. CASE Inside(x) /\ ~(2 + 2 * x.length > MaxEventArgSize)
    BY <1>3, <2>1 DEF GetVariables
  <2>2. CASE ~Inside(x)
    BY <1>2, <1>3, <2>2 DEF GetVariables
  <2>3. CASE Inside(x) /\ 2 + 2 * x.length > MaxEventArgSize
    BY <1>2, <1>3, <2>3 DEF GetVariables
  <2> QED
    BY <2>1, <2>2, <2>3
<1>4. CASE \E f \in [x.start..(x.start + x.length - 1) -> ArgValues] : SetVariables(x, f)
  <2>1. PICK f \in [x.start..(x.start + x.length - 1) -> ArgValues] : SetVariables(x, f)
    BY <1>4
  <2>2. CASE Inside(x)
    BY <2>1, <2>2 DEF SetVariables
  <2>3. CASE ~Inside(x)
    BY <1>2, <2>1, <2>3 DEF SetVariables
  <2> QED
    BY <2>2, <2>3
<1> QED
  BY <1>1, <1>3, <1>4

\* So does one that sets a breakpoint.
LEMMA BreakpointOutcome ==
  ASSUME NEW pc \in BreakpointPcs, BreakpointSet(pc)
  PROVE  /\ UNCHANGED edge
         /\ \/ ~RequestsFit /\ \E what : Handle(Fault(vm, what))
            \/ Handle(vm)
            \/ /\ Len(vm.breakpoints) < MaxBreakpoints
               /\ Handle([vm EXCEPT !.breakpoints = Append(@, pc)])
<1>1. CASE pc \in Addrs
  BY <1>1 DEF BreakpointSet
<1>2. CASE pc \notin Addrs
  BY <1>2 DEF BreakpointSet, RequestsFit
<1> QED
  BY <1>1, <1>2

\* Every step of AsebaVMStep, whatever the instruction and its operands, has one of
\* the three outcomes.
LEMMA StepOutcome ==
  ASSUME NEW s, IsState(s), NEW t \in AsebaVMStep(s)
  PROVE  Outcome(s, t)
<1> USE DEF Outcome
<1>q. \A n, v : /\ Quiet(s, Advance(s, n)) /\ Quiet(s, Fault(s, v)) /\ Quiet(s, Jumped(s, n))
                /\ Quiet(s, Popped(s, n)) /\ Quiet(s, Pushed(s, v))
  BY HelpersAreQuiet
<1>a. ASSUME NEW u, Quiet(s, u), NEW n, NEW v
      PROVE  /\ Quiet(s, Advance(u, n)) /\ Quiet(s, Jumped(u, n)) /\ Quiet(s, Popped(u, n))
             /\ Quiet(s, Pushed(u, v)) /\ Quiet(s, Remember(u, v))
  <2>1. IsState(u)
    BY <1>a DEF Quiet
  <2>2. /\ Quiet(u, Advance(u, n)) /\ Quiet(u, Jumped(u, n)) /\ Quiet(u, Popped(u, n))
        /\ Quiet(u, Pushed(u, v)) /\ Quiet(u, Remember(u, v))
    BY <2>1, HelpersAreQuiet
  <2> QED
    BY <1>a, <2>2, QuietComposes
<1>e. ASSUME NEW u, Stopped(u), NEW n, NEW v
      PROVE  /\ Stopped(Advance(u, n)) /\ Stopped(Jumped(u, n)) /\ Stopped(Popped(u, n))
             /\ Stopped(Pushed(u, v)) /\ Stopped(Remember(u, v))
  BY <1>e, HelpersAreQuiet, StoppedStays DEF Stopped
<1>c. Quiet(s, Checked(s)) \/ Stopped(Checked(s))
  BY ErrorStopStops DEF Checked, Quiet, Errors
<1>w. \A v, a : Quiet(s, [s EXCEPT !.variables[a] = v])
  BY DEF IsState, Fields, Quiet
<1>k. \A v, a : Quiet(s, [s EXCEPT !.stack[a] = v])
  BY DEF IsState, Fields, Quiet
<1>1. t \in Stop(s) => Outcome(s, t)
  BY DEF Stop, IsState, Fields
<1>2. t \in SmallImmediate(s) => Outcome(s, t)
  BY <1>q, <1>a DEF SmallImmediate
<1>3. t \in LargeImmediate(s) => Outcome(s, t)
  BY <1>q, <1>a DEF LargeImmediate
<1>4. t \in Load(s) => Outcome(s, t)
  BY <1>q, <1>a DEF Load
<1>5. t \in Store(s) => Outcome(s, t)
  BY <1>q, <1>a, <1>w DEF Store
<1>6. t \in LoadIndirect(s) => Outcome(s, t)
  BY <1>q, <1>a, <1>k, ErrorStopStops DEF LoadIndirect, Errors
<1>7. t \in StoreIndirect(s) => Outcome(s, t)
  BY <1>q, <1>a, <1>w, ErrorStopStops DEF StoreIndirect, Errors
<1>8. t \in UnaryArithmetic(s) => Outcome(s, t)
  <2> DEFINE u == [s EXCEPT !.stack[Len(s.stack)] = UnaryOperation(@, Word(s) % 256)]
  <2>1. Quiet(s, Advance(u, 1))
    BY <1>a DEF IsState, Fields, Quiet
  <2>2. Quiet(s, Fault(s, "stack underflow")) /\ Quiet(s, Fault(s, "unknown unary operator"))
    BY <1>q
  <2>3. t \in UnaryArithmetic(s) =>
          t \in {Fault(s, "stack underflow"), Fault(s, "unknown unary operator"), Advance(u, 1)}
    BY Zenon DEF UnaryArithmetic
  <2> QED
    BY <2>1, <2>2, <2>3
<1>9. t \in BinaryArithmetic(s) => Outcome(s, t)
  BY <1>q, <1>a, <1>e, <1>c DEF BinaryArithmetic
<1>10. t \in Jump(s) => Outcome(s, t)
  BY <1>q DEF Jump
<1>11. t \in ConditionalBranch(s) => Outcome(s, t)
  BY <1>q, <1>a, <1>e, <1>c DEF ConditionalBranch
<1>12. t \in Emit(s) => Outcome(s, t)
  BY <1>q DEF Emit
<1>13. t \in NativeCall(s) => Outcome(s, t)
  <2> DEFINE u == Popped(s, NativePops[Low(Word(s))])
  <2>1. Quiet(s, u)
    BY <1>q
  <2>2. \A v : Quiet(s, [u EXCEPT !.variables = v])
    BY <2>1 DEF IsState, Fields, Quiet
  <2>3. Stopped(ErrorStop(u, "node"))
    BY <2>1, ErrorStopStops DEF Quiet, Errors
  <2>4. \A W, f : Quiet(s, Advance([u EXCEPT !.variables = Overwritten(@, f)], 1))
    BY <2>2, <1>a
  <2>5. Stopped(Advance(ErrorStop(u, "node"), 1))
    BY <2>3, <1>e
  <2>. HIDE DEF u
  <2>6. t \in NativeCall(s) => \/ \E what : t = Fault(s, what)
                              \/ t = Advance(ErrorStop(u, "node"), 1)
                              \/ \E f : t = Advance([u EXCEPT !.variables = Overwritten(@, f)], 1)
    BY NativeOutcome, Zenon DEF u
  <2> QED
    BY <1>q, <2>4, <2>5, <2>6
<1>14. t \in SubCall(s) => Outcome(s, t)
  <2> DEFINE u == Pushed(s, Int16(s.pc + 1))
  <2>1. Quiet(s, u) /\ Quiet(s, Fault(s, "stack overflow"))
    BY <1>q
  <2>2. Quiet(s, [u EXCEPT !.pc = Low(Word(s))])
    BY <2>1 DEF IsState, Fields, Quiet
  <2>3. t \in SubCall(s) =>
          t = Fault(s, "stack overflow") \/ t = [u EXCEPT !.pc = Low(Word(s))]
    BY Zenon DEF SubCall
  <2> QED
    BY <2>1, <2>2, <2>3
<1>15. t \in SubRet(s) => Outcome(s, t)
  <2>1. \A d : Quiet(s, [Popped(s, 1) EXCEPT !.pc = d])
    BY <1>q DEF IsState, Fields, Quiet
  <2> QED
    BY <1>q, <2>1 DEF SubRet
<1>16. t \in {Fault(s, "wild access"), Fault(s, "step out of run"), Fault(s, "unknown bytecode")}
         => Outcome(s, t)
  BY <1>q
<1> HIDE DEF Outcome
<1> QED
  BY <1>1, <1>2, <1>3, <1>4, <1>5, <1>6, <1>7, <1>8, <1>9, <1>10, <1>11, <1>12, <1>13, <1>14,
     <1>15, <1>16 DEF AsebaVMStep

-----------------------------------------------------------------------------
(* Events and resets *)

\* The debugger knows where s stands.
Known(s) ==
  \/ s.said.kind = "state" /\ s.said.pc = s.pc /\ s.said.flags = s.flags
  \/ s.said.kind \in Errors \cup {"killed"} /\ s.flags = {"step"}

\* s and t differ neither in mode nor in what a debugger knows.
Same(s, t) == IsState(t) /\ t.flags = s.flags /\ t.said = s.said /\ t.pc = s.pc

LEMMA SayStateIsKnown ==
  ASSUME NEW s, IsState(s)
  PROVE  IsState(SayState(s)) /\ SayState(s).flags = s.flags /\ Known(SayState(s))
  BY DEF IsState, Fields, SayState, Known

\* An event that is set up either has no handler and changes nothing, or is
\* active and, step by step, reported.
LEMMA SetupEventOutcome ==
  ASSUME NEW s, IsState(s), NEW e
  PROVE  LET t == SetupEvent(s, e)
         IN  \/ t = s
             \/ /\ IsState(t) /\ t.flags = s.flags \cup {"active"}
                /\ "step" \in t.flags => Known(t)
<1> DEFINE k == IF "active" \in s.flags THEN SayKilled(s) ELSE s
           a == GetEventAddress(s, e)
           u == EnterEvent(k, a)
<1>1. IsState(k) /\ k.flags = s.flags
  BY DEF IsState, Fields, SayKilled
<1>2. IsState(u) /\ u.flags = s.flags \cup {"active"}
  BY <1>1 DEF IsState, Fields, EnterEvent
<1>3. IsState(SayState(u)) /\ SayState(u).flags = u.flags /\ Known(SayState(u))
  BY <1>2, SayStateIsKnown
<1>4. SetupEvent(s, e) = IF a = 0 THEN s ELSE IF "step" \in u.flags THEN SayState(u) ELSE u
  BY DEF SetupEvent
<1> QED
  BY <1>2, <1>3, <1>4

\* After a reset the machine is step by step, and reported, whether or not the
\* program has an init event.
LEMMA ResetOutcome ==
  ASSUME NEW s, IsState(s)
  PROVE  IsState(Reset(s)) /\ "step" \in Reset(s).flags /\ Known(Reset(s))
<1> DEFINE u == ResetFlags(s)
<1>1. IsState(u) /\ u.flags = {"step"}
  BY DEF IsState, Fields, ResetFlags
<1>2. IsState(SayState(u)) /\ SayState(u).flags = u.flags /\ Known(SayState(u))
  BY <1>1, SayStateIsKnown
<1>3. ASSUME GetEventAddress(u, EventInit) # 0
      PROVE  /\ IsState(SetupEvent(u, EventInit)) /\ "step" \in SetupEvent(u, EventInit).flags
             /\ Known(SetupEvent(u, EventInit))
  <2> DEFINE v == EnterEvent(u, GetEventAddress(u, EventInit))
  <2>1. "active" \notin u.flags
    BY <1>1
  <2>2. IsState(v) /\ v.flags = {"step", "active"}
    BY <1>1 DEF IsState, Fields, EnterEvent
  <2>3. SetupEvent(u, EventInit) = SayState(v)
    BY <1>3, <2>1, <2>2 DEF SetupEvent
  <2> QED
    BY <2>2, <2>3, SayStateIsKnown
<1>4. Reset(s) = IF GetEventAddress(u, EventInit) = 0 THEN SayState(u)
                 ELSE SetupEvent(u, EventInit)
  BY DEF Reset
<1> QED
  BY <1>1, <1>2, <1>3, <1>4

-----------------------------------------------------------------------------
(* The inductive invariant *)

Looping == run \in {"bare", "breakpoint"}

\* PausedIsReported, of states whose assertion failed too.
Reported == "step" \in vm.flags => Known(vm)

\* Inside the loop the machine is step by step only after an error.
LoopMode == Looping => "step" \notin vm.flags \/ vm.flags = {"step"}

\* Inside the loop it is not for want of "running" or of steps that an active
\* event stops: those are the reasons LoopEnd could leave one behind.
LoopLive ==
  Looping => /\ "active" \in vm.flags => "running" \in vm.flags
             /\ left \in Nat
             /\ StepsLimit > 0 => left > 0

IInv ==
  /\ IsState(vm)
  /\ run \in {"idle", "pending", "bare", "breakpoint"}
  /\ Reported
  /\ LoopMode
  /\ LoopLive
  /\ IdleIsSettled
  /\ HalfLoadedNeverRuns

LEMMA InitEstablishes == Init => IInv
  BY DEF Init, VMInit, IInv, IsState, Fields, Reported, LoopMode, LoopLive, Looping,
         IdleIsSettled, HalfLoadedNeverRuns

\* What a handler has to leave for the invariant to survive it.
LEMMA HandledPreserves ==
  ASSUME IInv, run' = "pending", IsState(vm'),
         "step" \in (vm').flags => Known(vm'),
         (upload' # {} /\ upload' # Chunks(loaded')) => "step" \in (vm').flags
  PROVE  IInv'
  BY DEF IInv, Reported, LoopMode, LoopLive, Looping, IdleIsSettled, HalfLoadedNeverRuns

\* Messages that leave mode, pc and last report alone.
LEMMA SamePreserves ==
  ASSUME IInv, NEW t, Same(vm, t), Handle(t)
  PROVE  IInv'
<1>1. IsState(vm') /\ ("step" \in (vm').flags => Known(vm')) /\ (vm').flags = vm.flags
  BY DEF Handle, Same, IInv, Reported, Known
<1> QED
  BY <1>1, HandledPreserves DEF Handle, IInv, HalfLoadedNeverRuns

\* Messages answered with an execution state.
LEMMA SayPreserves ==
  ASSUME IInv, NEW t, IsState(t), Handle(SayState(t)),
         upload = {} \/ "step" \in t.flags \/ t.flags = vm.flags
  PROVE  IInv'
<1>1. IsState(vm') /\ Known(vm') /\ (vm').flags = t.flags
  BY SayStateIsKnown DEF Handle
<1> QED
  BY <1>1, HandledPreserves DEF Handle, IInv, HalfLoadedNeverRuns

\* Events, whose arguments are stored before they are set up.
LEMMA EventPreserves ==
  ASSUME IInv, NEW t, Same(vm, t), NEW e, Handle(SetupEvent(t, e))
  PROVE  IInv'
<1>1. IsState(t) /\ t.flags = vm.flags /\ ("step" \in t.flags => Known(t))
  BY DEF Same, IInv, Reported, Known
<1>2. IsState(vm') /\ vm.flags \subseteq (vm').flags /\ ("step" \in (vm').flags => Known(vm'))
  BY <1>1, SetupEventOutcome DEF Handle
<1> QED
  BY <1>2, HandledPreserves DEF Handle, IInv, HalfLoadedNeverRuns

LEMMA MessagePreserves ==
  ASSUME IInv, Message
  PROVE  IInv'
<1>s. IsState(vm)
  BY DEF IInv
<1>1. CASE \E c \in upload : SetBytecode(c)
  <2>1. PICK c \in upload : SetBytecode(c)
    BY <1>1
  <2>2. IsState(Written(vm, c))
    BY <1>s DEF IsState, Fields, Written
  <2> QED
    BY <2>1, <2>2, ResetOutcome, HandledPreserves DEF SetBytecode
<1>2. CASE ResetMsg
  BY <1>2, <1>s, ResetOutcome, HandledPreserves DEF ResetMsg, Handle
<1>3. CASE RunMsg
  <2>1. IsState([vm EXCEPT !.flags = @ \ {"step"}])
    BY <1>s DEF IsState, Fields
  <2> QED
    BY <1>3, <2>1, SayPreserves DEF RunMsg
<1>4. CASE Pause
  <2> DEFINE t == [vm EXCEPT !.flags = @ \cup {"step"}]
  <2>1. IsState(t) /\ "step" \in t.flags
    BY <1>s DEF IsState, Fields
  <2>2. Handle(SayState(t))
    BY <1>4 DEF Pause
  <2> HIDE DEF t
  <2> QED
    BY <2>1, <2>2, SayPreserves
<1>5. CASE StepMsg
  <2>1. PICK t \in AsebaVMStep(vm) : Handle(SayState(t))
    BY <1>5 DEF StepMsg
  <2>2. IsState(t)
    BY <1>s, StepOutcome DEF Outcome, Quiet, Stopped
  <2> QED
    BY <1>5, <2>1, <2>2, SayPreserves DEF StepMsg
<1>6. CASE StopMsg
  <2> DEFINE t == [vm EXCEPT !.flags = {"step"}]
  <2>1. IsState(t) /\ "step" \in t.flags
    BY <1>s DEF IsState, Fields
  <2>2. Handle(SayState(t))
    BY <1>6 DEF StopMsg
  <2> HIDE DEF t
  <2> QED
    BY <2>1, <2>2, SayPreserves
<1>7. CASE GetExecutionState
  BY <1>7, <1>s, SayPreserves DEF GetExecutionState
<1>8. CASE \E pc \in BreakpointPcs : BreakpointSet(pc) \/ BreakpointClear(pc)
  <2>1. PICK pc \in BreakpointPcs : BreakpointSet(pc) \/ BreakpointClear(pc)
    BY <1>8
  <2>2. \A b : Same(vm, [vm EXCEPT !.breakpoints = b])
    BY <1>s DEF IsState, Fields, Same
  <2>3. Same(vm, vm) /\ \A what : Same(vm, Fault(vm, what))
    BY <1>s DEF IsState, Fields, Same, Fault
  <2>4. CASE BreakpointSet(pc)
    BY <2>2, <2>3, <2>4, BreakpointOutcome, SamePreserves
  <2>5. CASE BreakpointClear(pc)
    BY <2>2, <2>5, SamePreserves DEF BreakpointClear
  <2> QED
    BY <2>1, <2>4, <2>5
<1>9. CASE BreakpointClearAll
  <2>1. Same(vm, [vm EXCEPT !.breakpoints = <<>>])
    BY <1>s DEF IsState, Fields, Same
  <2> QED
    BY <1>9, <2>1, SamePreserves DEF BreakpointClearAll
<1>10. CASE VariablesMsg
  <2>1. /\ \A v : Same(vm, [vm EXCEPT !.variables = v])
        /\ Same(vm, vm) /\ \A what : Same(vm, Fault(vm, what))
    BY <1>s DEF IsState, Fields, Same, Fault
  <2> QED
    BY <1>10, <2>1, VariablesOutcome, SamePreserves
<1>11. CASE \E e \in UserEvents, v \in ArgValues : UserEvent(e, v)
  <2>1. PICK e \in UserEvents, v \in ArgValues : UserEvent(e, v)
    BY <1>11
  <2>2. Same(vm, [vm EXCEPT !.variables[SourceAddr] = 1, !.variables[SourceAddr + 1] = v])
    BY <1>s DEF IsState, Fields, Same
  <2> QED
    BY <2>1, <2>2, EventPreserves DEF UserEvent
<1>12. CASE \E e \in LocalEvents : LocalEvent(e)
  <2>1. PICK e \in LocalEvents : LocalEvent(e)
    BY <1>12
  <2>2. Same(vm, [vm EXCEPT !.variables[SourceAddr] = 0])
    BY <1>s DEF IsState, Fields, Same
  <2> QED
    BY <2>1, <2>2, EventPreserves DEF LocalEvent
<1> QED
  BY <1>1, <1>2, <1>3, <1>4, <1>5, <1>6, <1>7, <1>8, <1>9, <1>10, <1>11, <1>12 DEF Message, VariablesMsg

LEMMA RunPreserves ==
  ASSUME IInv, Run
  PROVE  IInv'
<1> USE DEF IInv, Reported, LoopMode, LoopLive, Looping, IdleIsSettled, HalfLoadedNeverRuns
<1>1. CASE VMRun
  <2>1. CASE "active" \in vm.flags /\ "step" \notin vm.flags
    <3>1. IsState(vm') /\ (vm').flags = vm.flags \cup {"running"}
      BY <1>1, <2>1 DEF VMRun, IsState, Fields
    <3>2. run' \in {"bare", "breakpoint"} /\ left' = StepsLimit /\ upload' = upload /\ loaded' = loaded
      BY <1>1, <2>1 DEF VMRun
    <3>3. upload = {} \/ upload = Chunks(loaded)
      BY <2>1
    <3> QED
      BY <2>1, <3>1, <3>2, <3>3, SizesAssumption
  <2>2. CASE ~("active" \in vm.flags /\ "step" \notin vm.flags)
    BY <1>1, <2>2 DEF VMRun
  <2> QED
    BY <2>1, <2>2
<1>2. CASE HitBreakpoint
  <2> DEFINE t == [vm EXCEPT !.flags = @ \cup {"step"}]
  <2>1. IsState(t) /\ t.flags = vm.flags \cup {"step"}
    BY DEF IsState, Fields
  <2>2. vm' = SayState(t) /\ run' = "idle" /\ upload' = upload /\ loaded' = loaded
    BY <1>2 DEF HitBreakpoint, PausedAtBreakpoint, InLoop
  <2>3. IsState(vm') /\ (vm').flags = t.flags /\ Known(vm')
    BY <2>1, <2>2, SayStateIsKnown
  <2> QED
    BY <2>1, <2>2, <2>3
<1>3. CASE LoopStep
  <2>1. Looping /\ {"active", "running"} \subseteq vm.flags /\ "step" \notin vm.flags
    BY <1>3 DEF LoopStep, InLoop, LoopCondition
  <2>2. upload' = upload /\ loaded' = loaded /\ (upload = {} \/ upload = Chunks(loaded))
    BY <1>3 DEF LoopStep, InLoop
  <2>3. PICK t \in AsebaVMStep(vm) :
          IF StepsLimit > 0 /\ left' = 0
          THEN vm' = [KillSlowEvent(t) EXCEPT !.flags = @ \ {"running"}] /\ run' = "idle"
          ELSE vm' = t /\ run' = run
    BY <1>3 DEF LoopStep
  <2>4. /\ IsState(t)
        /\ \/ t.flags = vm.flags
           \/ t.flags = vm.flags \ {"active"}
           \/ t.flags = {"step"} /\ t.said.kind \in Errors
    BY StepOutcome DEF Outcome, Quiet, Stopped
  <2>5. CASE StepsLimit > 0 /\ left' = 0
    <3>1. /\ IsState(vm') /\ (vm').flags = (t.flags \ {"active"}) \ {"running"}
          /\ (vm').said.kind = "killed"
      <4> DEFINE k == [t EXCEPT !.flags = @ \ {"active"}]
                 u == SayKilled(k)
      <4>1. IsState(k) /\ k.flags = t.flags \ {"active"}
        BY <2>4 DEF IsState, Fields
      <4>2. IsState(u) /\ u.flags = k.flags /\ u.said.kind = "killed"
        BY <4>1 DEF IsState, Fields, SayKilled
      <4>3. vm' = [u EXCEPT !.flags = @ \ {"running"}]
        BY <2>3, <2>5 DEF KillSlowEvent
      <4> HIDE DEF u
      <4> QED
        BY <4>1, <4>2, <4>3 DEF IsState, Fields
    <3>2. "step" \in (vm').flags => (vm').flags = {"step"}
      BY <2>1, <2>4, <3>1
    <3>3. Reported'
      BY <3>1, <3>2 DEF Known
    <3> QED
      BY <2>2, <2>3, <2>4, <2>5, <3>1, <3>3
  <2>6. CASE ~(StepsLimit > 0 /\ left' = 0)
    <3>1. vm' = t /\ run' = run
      BY <2>3, <2>6
    <3>2. left' \in Nat /\ (StepsLimit > 0 => left' > 0)
      BY <1>3, <2>1, <2>6, SizesAssumption DEF LoopStep, CountedDown
    <3>3. "step" \in t.flags => t.flags = {"step"} /\ t.said.kind \in Errors
      BY <2>1, <2>4
    <3>4. Reported'
      BY <3>1, <3>3 DEF Known
    <3>5. LoopMode' /\ LoopLive'
      BY <2>1, <2>4, <3>1, <3>2, <3>3
    <3>6. IdleIsSettled' /\ HalfLoadedNeverRuns'
      BY <2>1, <2>2, <3>1
    <3> QED
      BY <2>4, <3>1, <3>4, <3>5, <3>6
  <2> QED
    BY <2>5, <2>6
<1>4. CASE LoopEnd
  <2>1. Looping /\ "active" \notin vm.flags
    BY <1>4 DEF LoopEnd, InLoop, LoopCondition
  <2>2. /\ IsState(vm') /\ (vm').flags = vm.flags \ {"running"} /\ (vm').said = vm.said
        /\ (vm').pc = vm.pc
    BY <1>4 DEF LoopEnd, IsState, Fields
  <2>3. run' = "idle" /\ upload' = upload /\ loaded' = loaded
    BY <1>4 DEF LoopEnd, InLoop
  <2>4. "step" \in vm.flags => vm.flags = {"step"}
    BY <2>1
  <2>5. Reported'
    BY <2>2, <2>4 DEF Known
  <2> QED
    BY <2>1, <2>2, <2>3, <2>5
<1> QED
  BY <1>1, <1>2, <1>3, <1>4 DEF Run

LEMMA NextPreserves == IInv /\ [Next]_vars => IInv'
<1> SUFFICES ASSUME IInv, [Next]_vars PROVE IInv'
  OBVIOUS
<1>1. CASE Run
  BY <1>1, RunPreserves
<1>2. CASE Message
  BY <1>2, MessagePreserves
<1>3. CASE \E p \in Programs : Upload(p)
  BY <1>3 DEF Upload, IInv, Reported, LoopMode, LoopLive, Looping, IdleIsSettled,
              HalfLoadedNeverRuns
<1>4. CASE UNCHANGED vars
  BY <1>4 DEF vars, IInv, Reported, LoopMode, LoopLive, Looping, IdleIsSettled,
              HalfLoadedNeverRuns
<1> QED
  BY <1>1, <1>2, <1>3, <1>4 DEF Next

-----------------------------------------------------------------------------
\* The inductive invariant holds in every reachable state of every machine.
THEOREM Invariance == Spec => []IInv
<1> QED
  BY InitEstablishes, NextPreserves, PTL DEF Spec

\* A debugger that keeps the last message knows where a paused machine stands
\* (SayState after SetupEvent, PausedAtBreakpoint and each debug message).
THEOREM PausedIsReportedAlways == Spec => []PausedIsReported
<1>1. IInv => PausedIsReported
  BY DEF IInv, Reported, Known, PausedIsReported
<1> QED
  BY <1>1, Invariance, PTL

\* AsebaVMRun never leaves an event active unless it is stepped through.
THEOREM IdleIsSettledAlways == Spec => []IdleIsSettled
<1>1. IInv => IdleIsSettled
  BY DEF IInv
<1> QED
  BY <1>1, Invariance, PTL

\* From the first SET_BYTECODE to the last, AsebaVMRun executes nothing, whatever
\* other messages and events arrive between them.
THEOREM HalfLoadedNeverRunsAlways == Spec => []HalfLoadedNeverRuns
<1>1. IInv => HalfLoadedNeverRuns
  BY DEF IInv
<1> QED
  BY <1>1, Invariance, PTL
-----------------------------------------------------------------------------
(* The memory of a "when" *)

\* From s to t the bytecode is the same.
SameCode(s, t) == IsState(t) /\ t.bytecode = s.bytecode

LEMMA HelpersKeepCode ==
  ASSUME NEW s, IsState(s), NEW n, NEW v
  PROVE  /\ SameCode(s, Advance(s, n)) /\ SameCode(s, Popped(s, n)) /\ SameCode(s, Pushed(s, v))
         /\ SameCode(s, Fault(s, v)) /\ SameCode(s, Jumped(s, n)) /\ SameCode(s, ErrorStop(s, v))
         /\ SameCode(s, SayState(s)) /\ SameCode(s, SayKilled(s)) /\ SameCode(s, EnterEvent(s, v))
         /\ SameCode(s, Checked(s))
<1>1. /\ SameCode(s, Advance(s, n)) /\ SameCode(s, Popped(s, n)) /\ SameCode(s, Pushed(s, v))
      /\ SameCode(s, Fault(s, v)) /\ SameCode(s, Jumped(s, n)) /\ SameCode(s, ErrorStop(s, v))
  BY DEF IsState, Fields, SameCode, Advance, Popped, Pushed, Fault, Jumped, ErrorStop
<1>2. SameCode(s, SayState(s)) /\ SameCode(s, SayKilled(s)) /\ SameCode(s, EnterEvent(s, v))
  BY DEF IsState, Fields, SameCode, SayState, SayKilled, EnterEvent
<1>3. SameCode(s, ErrorStop(s, "division")) /\ SameCode(s, s)
  BY DEF IsState, Fields, SameCode, ErrorStop
<1>4. SameCode(s, Checked(s))
  BY <1>3 DEF Checked
<1> QED BY <1>1, <1>2, <1>4

LEMMA SameCodeComposes ==
  ASSUME NEW s, NEW t, NEW u, SameCode(s, t), SameCode(t, u) PROVE SameCode(s, u)
BY DEF SameCode

\* Only conditional branches write bytecode.
LEMMA StepKeepsCode ==
  ASSUME NEW s, IsState(s), NEW t \in AsebaVMStep(s)
  PROVE  \/ SameCode(s, t)
         \/ s.pc \in Addrs /\ "active" \in s.flags /\ Op(Word(s)) = 10 /\ t \in ConditionalBranch(s)
<1>q. \A n, v : /\ SameCode(s, Advance(s, n)) /\ SameCode(s, Fault(s, v)) /\ SameCode(s, Jumped(s, n))
                /\ SameCode(s, Popped(s, n)) /\ SameCode(s, Pushed(s, v)) /\ SameCode(s, ErrorStop(s, v))
                /\ SameCode(s, Checked(s))
  BY HelpersKeepCode
<1>a. ASSUME NEW u, SameCode(s, u), NEW n, NEW v
      PROVE  /\ SameCode(s, Advance(u, n)) /\ SameCode(s, Jumped(u, n)) /\ SameCode(s, Popped(u, n))
             /\ SameCode(s, Pushed(u, v)) /\ SameCode(s, ErrorStop(u, v))
  <2>1. IsState(u)
    BY <1>a DEF SameCode
  <2>2. /\ SameCode(u, Advance(u, n)) /\ SameCode(u, Jumped(u, n)) /\ SameCode(u, Popped(u, n))
        /\ SameCode(u, Pushed(u, v)) /\ SameCode(u, ErrorStop(u, v))
    BY <2>1, HelpersKeepCode
  <2> QED BY <1>a, <2>2, SameCodeComposes
<1>w. \A v, a : SameCode(s, [s EXCEPT !.variables[a] = v])
  BY DEF IsState, Fields, SameCode
<1>k. \A v, a : SameCode(s, [s EXCEPT !.stack[a] = v])
  BY DEF IsState, Fields, SameCode
<1>1. t \in Stop(s) => SameCode(s, t)
  BY DEF Stop, IsState, Fields, SameCode
<1>2. t \in SmallImmediate(s) \/ t \in LargeImmediate(s) \/ t \in Load(s) => SameCode(s, t)
  BY <1>q, <1>a DEF SmallImmediate, LargeImmediate, Load
<1>5. t \in Store(s) => SameCode(s, t)
  BY <1>q, <1>a, <1>w DEF Store
<1>6. t \in LoadIndirect(s) => SameCode(s, t)
  BY <1>q, <1>a, <1>k DEF LoadIndirect
<1>7. t \in StoreIndirect(s) => SameCode(s, t)
  BY <1>q, <1>a, <1>w DEF StoreIndirect
<1>8. t \in UnaryArithmetic(s) => SameCode(s, t)
  <2> DEFINE u == [s EXCEPT !.stack[Len(s.stack)] = UnaryOperation(@, Word(s) % 256)]
  <2>1. SameCode(s, Advance(u, 1))
    BY <1>a DEF IsState, Fields, SameCode
  <2>2. SameCode(s, Fault(s, "stack underflow")) /\ SameCode(s, Fault(s, "unknown unary operator"))
    BY <1>q
  <2>3. t \in UnaryArithmetic(s) =>
          t \in {Fault(s, "stack underflow"), Fault(s, "unknown unary operator"), Advance(u, 1)}
    BY Zenon DEF UnaryArithmetic
  <2> QED BY <2>1, <2>2, <2>3
<1>9. t \in BinaryArithmetic(s) => SameCode(s, t)
  BY <1>q, <1>a DEF BinaryArithmetic
<1>10. t \in Jump(s) \/ t \in Emit(s) => SameCode(s, t)
  BY <1>q DEF Jump, Emit
<1>13. t \in NativeCall(s) => SameCode(s, t)
  <2> DEFINE u == Popped(s, NativePops[Low(Word(s))])
  <2>1. SameCode(s, u)
    BY <1>q
  <2>2. \A v : SameCode(s, [u EXCEPT !.variables = v])
    BY <2>1 DEF IsState, Fields, SameCode
  <2>3. SameCode(s, ErrorStop(u, "node"))
    BY <1>a, <2>1
  <2>4. \A W, f : SameCode(s, Advance([u EXCEPT !.variables = Overwritten(@, f)], 1))
    BY <2>2, <1>a
  <2>5. SameCode(s, Advance(ErrorStop(u, "node"), 1))
    BY <2>3, <1>a
  <2>. HIDE DEF u
  <2>6. t \in NativeCall(s) => \/ \E what : t = Fault(s, what)
                              \/ t = Advance(ErrorStop(u, "node"), 1)
                              \/ \E f : t = Advance([u EXCEPT !.variables = Overwritten(@, f)], 1)
    BY NativeOutcome, Zenon DEF u
  <2> QED
    BY <1>q, <2>4, <2>5, <2>6
<1>14. t \in SubCall(s) => SameCode(s, t)
  <2> DEFINE u == Pushed(s, Int16(s.pc + 1))
  <2>1. SameCode(s, u) /\ SameCode(s, Fault(s, "stack overflow"))
    BY <1>q
  <2>2. SameCode(s, [u EXCEPT !.pc = Low(Word(s))])
    BY <2>1 DEF IsState, Fields, SameCode
  <2>3. t \in SubCall(s) =>
          t = Fault(s, "stack overflow") \/ t = [u EXCEPT !.pc = Low(Word(s))]
    BY Zenon DEF SubCall
  <2> QED BY <2>1, <2>2, <2>3
<1>15. t \in SubRet(s) => SameCode(s, t)
  <2>1. \A d : SameCode(s, [Popped(s, 1) EXCEPT !.pc = d])
    BY <1>q DEF IsState, Fields, SameCode
  <2> QED BY <1>q, <2>1 DEF SubRet
<1>16. t \in {Fault(s, "wild access"), Fault(s, "step out of run"), Fault(s, "unknown bytecode")}
         => SameCode(s, t)
  BY <1>q
<1> HIDE DEF SameCode
<1> QED
  BY <1>1, <1>2, <1>5, <1>6, <1>7, <1>8, <1>9, <1>10, <1>13, <1>14, <1>15, <1>16 DEF AsebaVMStep

LEMMA WasTrueBits ==
  ASSUME NEW w \in Int, NEW b
  PROVE  /\ SetWasTrue(w, b) \in Int
         /\ b = TRUE => Bit(SetWasTrue(w, b), WasTrueBit) = 1
         /\ Bit(w, WasTrueBit) \in {0, 1}
<1>1. 2 ^ 9 = 512
  OBVIOUS
<1>2. Bit(w, WasTrueBit) = (w \div 512) % 2 /\ Bit(w, WasTrueBit) \in {0, 1}
  BY <1>1 DEF Bit, WasTrueBit
<1>3. SetWasTrue(w, b) \in Int
  BY <1>2 DEF SetWasTrue
<1>4. b = TRUE => SetWasTrue(w, b) = w + (1 - ((w \div 512) % 2)) * 512
  BY <1>2 DEF SetWasTrue
<1>5. ((w + (1 - ((w \div 512) % 2)) * 512) \div 512) % 2 = 1
  OBVIOUS
<1> QED BY <1>1, <1>2, <1>3, <1>4, <1>5 DEF Bit, WasTrueBit

\* What executing a conditional branch leaves: its own word remembers whether the condition
\* held, and the body is entered as TakesBody says.
LEMMA BranchOutcome ==
  ASSUME NEW s, IsState(s), NEW t \in ConditionalBranch(s), s.pc \in Addrs
  PROVE  \/ t.fault # "none" /\ IsState(t) /\ t.pc = s.pc
            /\ (t.bytecode = s.bytecode
                \/ \E b \in BOOLEAN : t.bytecode = [s.bytecode EXCEPT ![s.pc] = SetWasTrue(@, b)])
         \/ \E r \in BinaryOperation(Peek(s, 1), Peek(s, 0), Word(s) % 256) :
               /\ IsState(t) /\ Len(s.stack) >= 2
               /\ t.bytecode = [s.bytecode EXCEPT ![s.pc] = SetWasTrue(@, ConditionHolds(r))]
               /\ t.pc = UInt16(s.pc + (IF TakesBody(Word(s), ConditionHolds(r)) THEN 2
                                        ELSE Int16(Operand(s, 1))))
<1>f. \A what \in {"stack underflow", "unknown binary operator", "out of bytecode bounds"} : \A u :
         IsState(u) => /\ IsState(Fault(u, what)) /\ Fault(u, what).fault # "none"
                       /\ Fault(u, what).pc = u.pc /\ Fault(u, what).bytecode = u.bytecode
  BY DEF IsState, Fields, Fault
<1>1. CASE Len(s.stack) < 2
  BY <1>1, <1>f DEF ConditionalBranch
<1>2. CASE ~ (Len(s.stack) < 2) /\ Word(s) % 256 > 17
  <2>1. t = Fault(s, "unknown binary operator")
    BY <1>2, Zenon DEF ConditionalBranch
  <2> QED BY <2>1, <1>f
<1>3. CASE ~ (Len(s.stack) < 2) /\ ~ (Word(s) % 256 > 17)
  <2> DEFINE disp(r) == IF TakesBody(Word(s), ConditionHolds(r)) THEN 2 ELSE Int16(Operand(s, 1))
  <2>1. PICK r \in BinaryOperation(Peek(s, 1), Peek(s, 0), Word(s) % 256) :
           t = Jumped(Remember(Popped(Checked(s), 2), ConditionHolds(r)), disp(r))
    BY <1>3 DEF ConditionalBranch
  <2> DEFINE c == Checked(s)
             p == Popped(c, 2)
             u == Remember(p, ConditionHolds(r))
             d == disp(r)
  <2>2. IsState(c) /\ c.bytecode = s.bytecode /\ c.pc = s.pc
    BY DEF IsState, Fields, Checked, ErrorStop
  <2> HIDE DEF c
  <2>3. IsState(p) /\ p.bytecode = s.bytecode /\ p.pc = s.pc
    BY <2>2 DEF IsState, Fields, Popped
  <2> HIDE DEF p
  <2>4. IsState(u) /\ u.pc = s.pc
        /\ u.bytecode = [s.bytecode EXCEPT ![s.pc] = SetWasTrue(@, ConditionHolds(r))]
    BY <2>3 DEF IsState, Fields, Remember
  <2>5. t = Jumped(u, d)
    BY <2>1 DEF u, p, c
  <2>6. ConditionHolds(r) \in BOOLEAN
    BY DEF ConditionHolds
  <2> HIDE DEF u, d
  <2>7. CASE u.pc + d \in Addrs
    <3>1. t = Advance(u, d)
      BY <2>5, <2>7 DEF Jumped
    <3>2. IsState(t) /\ t.bytecode = u.bytecode /\ t.pc = UInt16(u.pc + d)
      BY <2>4, <3>1 DEF IsState, Fields, Advance
    <3>3. Len(s.stack) >= 2
      BY <1>3
    <3> QED BY <2>4, <3>2, <3>3 DEF d
  <2>8. CASE ~ (u.pc + d \in Addrs)
    <3>1. t = Fault(u, "out of bytecode bounds")
      BY <2>5, <2>8 DEF Jumped
    <3>2. t.fault # "none" /\ IsState(t) /\ t.pc = u.pc /\ t.bytecode = u.bytecode
      BY <2>4, <3>1, <1>f
    <3> QED BY <2>4, <2>6, <3>2
  <2> QED BY <2>7, <2>8
<1> QED BY <1>1, <1>2, <1>3
\* A step at a conditional branch executes it, or ends in a fault.
LEMMA BranchIsExecuted ==
  ASSUME NEW s, IsState(s), NEW t \in AsebaVMStep(s), s.pc \in Addrs, Op(Word(s)) = 10
  PROVE  \/ t \in ConditionalBranch(s)
         \/ SameCode(s, t) /\ t.fault # "none" /\ t.pc = s.pc
<1>1. \A what \in {"wild access", "step out of run"} :
         SameCode(s, Fault(s, what)) /\ Fault(s, what).fault # "none" /\ Fault(s, what).pc = s.pc
  BY DEF IsState, Fields, Fault, SameCode
<1>2. \/ t = Fault(s, "wild access") \/ t = Fault(s, "step out of run")
      \/ t \in ConditionalBranch(s)
  <2>1. CASE s.pc + Width(Word(s)) > BytecodeSize
    BY <2>1 DEF AsebaVMStep
  <2>2. CASE ~ (s.pc + Width(Word(s)) > BytecodeSize) /\ "active" \notin s.flags
    BY <2>2 DEF AsebaVMStep
  <2>3. CASE ~ (s.pc + Width(Word(s)) > BytecodeSize) /\ "active" \in s.flags
    <3>1. \A o \in {0, 1, 2, 3, 4, 5, 6, 7, 8, 9, 11, 12, 13, 14} : Op(Word(s)) # o
      OBVIOUS
    <3> QED BY <2>3, <3>1, Zenon DEF AsebaVMStep
  <2> QED BY <2>1, <2>2, <2>3
<1> QED BY <1>1, <1>2

\* While nothing has failed, a branch whose condition held when it was last evaluated
\* since the reset has its was-true bit set.
Remembered == vm.fault = "none" => \A a \in Addrs : edge[a] => Bit(vm.bytecode[a], WasTrueBit) = 1

WordsSent == \A c \in upload : \A i \in DOMAIN c.words : c.words[i] \in Int

WhenInv ==
  /\ edge \in [Addrs -> BOOLEAN]
  /\ vm.bytecode \in [Addrs -> Int]
  /\ WordsSent
  /\ Remembered

\* One instruction keeps the bits and the history of the conditions in step.
LEMMA StepRemembers ==
  ASSUME NEW s, IsState(s), s.bytecode \in [Addrs -> Int], edge \in [Addrs -> BOOLEAN],
         \A a \in Addrs : edge[a] => Bit(s.bytecode[a], WasTrueBit) = 1,
         NEW t \in AsebaVMStep(s)
  PROVE  /\ IsState(t) /\ t.bytecode \in [Addrs -> Int] /\ Observe(s) \in [Addrs -> BOOLEAN]
         /\ t.fault = "none" => \A a \in Addrs : Observe(s)[a] => Bit(t.bytecode[a], WasTrueBit) = 1
<1> DEFINE Ops == BinaryOperation(Peek(s, 1), Peek(s, 0), Word(s) % 256)
<1> HIDE DEF Ops
<1>o. Observe(s) \in [Addrs -> BOOLEAN]
  BY DEF Observe
<1>w. ASSUME NEW b, NEW c, c = [s.bytecode EXCEPT ![s.pc] = SetWasTrue(@, b)], s.pc \in Addrs
      PROVE  /\ c \in [Addrs -> Int]
             /\ \A a \in Addrs \ {s.pc} : c[a] = s.bytecode[a]
             /\ b = TRUE => Bit(c[s.pc], WasTrueBit) = 1
  <2>1. s.bytecode[s.pc] \in Int
    BY <1>w
  <2>2. /\ SetWasTrue(s.bytecode[s.pc], b) \in Int
        /\ b = TRUE => Bit(SetWasTrue(s.bytecode[s.pc], b), WasTrueBit) = 1
    BY <2>1, WasTrueBits
  <2>3. c[s.pc] = SetWasTrue(s.bytecode[s.pc], b) /\ \A a \in Addrs \ {s.pc} : c[a] = s.bytecode[a]
    BY <1>w
  <2>4. c \in [Addrs -> Int]
    BY <1>w, <2>2
  <2> QED BY <2>2, <2>3, <2>4
<1>1. CASE SameCode(s, t) /\ ~ (s.pc \in Addrs /\ Op(Word(s)) = 10)
  BY <1>1, <1>o DEF SameCode, Observe
<1>2. CASE SameCode(s, t) /\ t.fault # "none"
  BY <1>2, <1>o DEF SameCode
<1>3. CASE t \in ConditionalBranch(s) /\ s.pc \in Addrs /\ Op(Word(s)) = 10
  <2>1. CASE t.fault # "none" /\ IsState(t) /\ t.pc = s.pc
             /\ (t.bytecode = s.bytecode
                 \/ \E b \in BOOLEAN : t.bytecode = [s.bytecode EXCEPT ![s.pc] = SetWasTrue(@, b)])
    BY <2>1, <1>3, <1>o, <1>w
  <2>2. CASE \E r \in Ops :
               /\ IsState(t) /\ Len(s.stack) >= 2
               /\ t.bytecode = [s.bytecode EXCEPT ![s.pc] = SetWasTrue(@, ConditionHolds(r))]
    <3>1. PICK r \in Ops :
               /\ IsState(t) /\ Len(s.stack) >= 2
               /\ t.bytecode = [s.bytecode EXCEPT ![s.pc] = SetWasTrue(@, ConditionHolds(r))]
      BY <2>2
    <3>2. /\ t.bytecode \in [Addrs -> Int]
          /\ \A a \in Addrs \ {s.pc} : t.bytecode[a] = s.bytecode[a]
          /\ ConditionHolds(r) = TRUE => Bit(t.bytecode[s.pc], WasTrueBit) = 1
      <4> DEFINE b == ConditionHolds(r)
                 c == t.bytecode
      <4>1. c = [s.bytecode EXCEPT ![s.pc] = SetWasTrue(@, b)]
        BY <3>1
      <4> HIDE DEF b, c
      <4>2. /\ c \in [Addrs -> Int]
            /\ \A a \in Addrs \ {s.pc} : c[a] = s.bytecode[a]
            /\ b = TRUE => Bit(c[s.pc], WasTrueBit) = 1
        BY <1>3, <1>w, <4>1, Zenon
      <4> QED BY <4>2 DEF b, c
    <3>3. Observe(s) = [edge EXCEPT ![s.pc] = 0 \notin Ops]
      BY <1>3, <3>1 DEF Observe, Ops
    <3>4. Observe(s)[s.pc] => ConditionHolds(r) = TRUE
      BY <3>3, <1>3 DEF ConditionHolds
    <3>5. \A a \in Addrs \ {s.pc} : Observe(s)[a] = edge[a]
      BY <3>3
    <3> QED BY <1>o, <1>3, <3>1, <3>2, <3>4, <3>5
  <2> QED BY <2>1, <2>2, <1>3, BranchOutcome DEF Ops
<1> QED BY <1>1, <1>2, <1>3, StepKeepsCode, BranchIsExecuted

LEMMA SetupKeepsCode ==
  ASSUME NEW s, IsState(s), NEW e PROVE SameCode(s, SetupEvent(s, e))
<1> DEFINE a == GetEventAddress(s, e)
           k == IF "active" \in s.flags THEN SayKilled(s) ELSE s
           t == EnterEvent(k, a)
<1> HIDE DEF a
<1>1. SameCode(s, s) /\ SameCode(s, k)
  BY HelpersKeepCode DEF SameCode
<1> HIDE DEF k
<1>2. SameCode(s, t)
  BY <1>1, HelpersKeepCode, SameCodeComposes DEF SameCode
<1> HIDE DEF t
<1>3. SameCode(s, SayState(t))
  BY <1>2, HelpersKeepCode, SameCodeComposes DEF SameCode
<1>4. SetupEvent(s, e) = IF a = 0 THEN s ELSE IF "step" \in t.flags THEN SayState(t) ELSE t
  BY Zenon DEF SetupEvent, t, k, a
<1> QED BY <1>1, <1>2, <1>3, <1>4

\* A reset rewrites words of the program, as words.
LEMMA ResetKeepsWords ==
  ASSUME NEW s, IsState(s), s.bytecode \in [Addrs -> Int]
  PROVE  IsState(Reset(s)) /\ Reset(s).bytecode \in [Addrs -> Int]
<1> DEFINE t == ResetFlags(s)
           code == ResetWhenFlags(s.bytecode)
<1>1. \A a \in Addrs : SetWasTrue(s.bytecode[a], FALSE) \in Int
  BY WasTrueBits
<1>2. code \in [Addrs -> Int]
  BY <1>1 DEF ResetWhenFlags
<1> HIDE DEF code
<1>3. IsState(t) /\ t.bytecode = code
  BY DEF ResetFlags, IsState, Fields, code
<1> HIDE DEF t
<1>4. SameCode(t, SayState(t)) /\ SameCode(t, SetupEvent(t, EventInit))
  BY <1>3, HelpersKeepCode, SetupKeepsCode
<1>5. Reset(s) = SayState(t) \/ Reset(s) = SetupEvent(t, EventInit)
  BY DEF Reset, t
<1> QED BY <1>2, <1>3, <1>4, <1>5 DEF SameCode

LEMMA EntriesOfSubSeq ==
  ASSUME NEW S, NEW p \in Seq(S), NEW m \in Nat, NEW n \in Nat, n <= Len(p)
  PROVE  \A i \in DOMAIN SubSeq(p, m + 1, n) : SubSeq(p, m + 1, n)[i] \in S
<1>1. SubSeq(p, m + 1, n) = [j \in 1..(1 + n - (m + 1)) |-> p[j + (m + 1) - 1]]
  OBVIOUS
<1> SUFFICES ASSUME NEW i \in 1..(1 + n - (m + 1)) PROVE p[i + (m + 1) - 1] \in S
  BY <1>1
<1>2. i + (m + 1) - 1 \in 1..Len(p)
  OBVIOUS
<1> QED BY <1>2

\* The chunks of a program hold its words.
LEMMA ChunksHoldWords ==
  ASSUME NEW p \in Programs
  PROVE  \A c \in Chunks(p) : \A i \in DOMAIN c.words : c.words[i] \in Words /\ c.words[i] \in Int
<1>1. p \in Seq(Words) /\ Payload \in Nat \ {0}
  BY SizesAssumption
<1>w. Words \subseteq Int
  BY DEF Words
<1> SUFFICES ASSUME NEW c \in Chunks(p) PROVE \A i \in DOMAIN c.words : c.words[i] \in Words
  BY <1>w, Zenon
<1>2. PICK k \in 0..((Len(p) - 1) \div Payload) :
        c = [start |-> k * Payload, words |-> SubSeq(p, k * Payload + 1, Min({Len(p), (k + 1) * Payload}))]
  BY DEF Chunks
<1> DEFINE m == k * Payload
           x == (k + 1) * Payload
           n == Min({Len(p), x})
<1>3. m \in Nat /\ x \in Nat /\ Len(p) \in Nat
  <2>1. \A a, b \in Nat : a * b \in Nat
    OBVIOUS
  <2>2. Payload \in Nat \ {0} /\ Len(p) \in Nat
    BY <1>1
  <2>3. k \in Nat /\ k + 1 \in Nat
    BY <2>2, <1>2
  <2> QED BY <2>1, <2>2, <2>3
<1>6. c.words = SubSeq(p, m + 1, n)
  BY <1>2
<1> HIDE DEF m, x
<1>4. n \in {Len(p), x} /\ n <= Len(p)
  <2>1. \E z \in {Len(p), x} : \A y \in {Len(p), x} : z <= y
    BY <1>3
  <2> QED BY <2>1 DEF Min
<1>5. n \in Nat
  BY <1>4, <1>3
<1> HIDE DEF n
<1> QED BY <1>1, <1>3, <1>4, <1>5, <1>6, EntriesOfSubSeq
LEMMA WhenInitially == Init => WhenInv
BY DEF Init, VMInit, WhenInv, WordsSent, Remembered

\* A message that writes no bytecode.
LEMMA SameCodeRemembers ==
  ASSUME WhenInv, SameCode(vm, vm'), vm'.fault = vm.fault \/ vm'.fault # "none",
         UNCHANGED <<upload, edge>>
  PROVE  WhenInv'
BY DEF WhenInv, SameCode, WordsSent, Remembered

\* A reset forgets the history along with the bits.
LEMMA ResetRemembers ==
  ASSUME WhenInv, NEW s, IsState(s), s.bytecode \in [Addrs -> Int], vm' = Reset(s),
         edge' = [a \in Addrs |-> FALSE], upload' \subseteq upload
  PROVE  WhenInv'
<1>1. vm'.bytecode \in [Addrs -> Int]
  BY ResetKeepsWords
<1>2. edge' \in [Addrs -> BOOLEAN] /\ \A a \in Addrs : edge'[a] = FALSE
  OBVIOUS
<1> QED BY <1>1, <1>2 DEF WhenInv, WordsSent, Remembered

LEMMA FaultKept ==
  ASSUME NEW s, IsState(s), NEW e
  PROVE  SetupEvent(s, e).fault = s.fault /\ SayState(s).fault = s.fault
BY DEF SetupEvent, SayState, EnterEvent, SayKilled, IsState, Fields

LEMMA MessageRemembers ==
  ASSUME IsState(vm), WhenInv, Message
  PROVE  WhenInv'
<1>1. CASE \E c \in upload : SetBytecode(c)
  <2>1. PICK c \in upload : SetBytecode(c)
    BY <1>1
  <2>2. IsState(Written(vm, c)) /\ Written(vm, c).bytecode \in [Addrs -> Int]
    BY DEF IsState, Fields, Written, WhenInv, WordsSent
  <2> QED BY <2>1, <2>2, ResetRemembers DEF SetBytecode
<1>2. CASE ResetMsg
  BY <1>2, ResetRemembers DEF ResetMsg, Handle, WhenInv
<1>s. ASSUME NEW t, SameCode(vm, t), t.fault = vm.fault, vm' = SayState(t), UNCHANGED <<upload, edge>>
      PROVE  WhenInv'
  <2>1. SameCode(vm, SayState(t)) /\ SayState(t).fault = vm.fault
    BY <1>s DEF SameCode, IsState, Fields, SayState
  <2> QED BY <1>s, <2>1, SameCodeRemembers
<1>f. \A F : SameCode(vm, [vm EXCEPT !.flags = F]) /\ [vm EXCEPT !.flags = F].fault = vm.fault
  BY DEF SameCode, IsState, Fields
<1>3. CASE RunMsg
  BY <1>3, <1>f, <1>s DEF RunMsg, Handle
<1>4. CASE Pause
  BY <1>4, <1>f, <1>s DEF Pause, Handle
<1>5. CASE StepMsg
  <2>1. PICK t \in AsebaVMStep(vm) : vm' = SayState(t) /\ vm.fault = "none" /\ upload' = upload
    BY <1>5 DEF StepMsg, Handle, Handling
  <2>2. /\ IsState(t) /\ t.bytecode \in [Addrs -> Int] /\ Observe(vm) \in [Addrs -> BOOLEAN]
        /\ t.fault = "none" => \A a \in Addrs : Observe(vm)[a] => Bit(t.bytecode[a], WasTrueBit) = 1
    BY <2>1, StepRemembers DEF WhenInv, Remembered
  <2>3. SayState(t).bytecode = t.bytecode /\ SayState(t).fault = t.fault
    BY <2>2 DEF SayState, IsState, Fields
  <2>4. edge' = Observe(vm)
    BY <1>5 DEF StepMsg
  <2> QED BY <2>1, <2>2, <2>3, <2>4 DEF WhenInv, WordsSent, Remembered
<1>6. CASE StopMsg
  BY <1>6, <1>f, <1>s DEF StopMsg, Handle
<1>7. CASE GetExecutionState
  BY <1>7, <1>s DEF GetExecutionState, Handle, SameCode
<1>b. \A b : SameCode(vm, [vm EXCEPT !.breakpoints = b]) /\ [vm EXCEPT !.breakpoints = b].fault = vm.fault
  BY DEF SameCode, IsState, Fields
<1>v. /\ SameCode(vm, vm)
      /\ \A what : SameCode(vm, Fault(vm, what)) /\ Fault(vm, what).fault = what
  BY DEF SameCode, IsState, Fields, Fault
<1>8. CASE \E pc \in BreakpointPcs : BreakpointSet(pc) \/ BreakpointClear(pc)
  <2>1. PICK pc \in BreakpointPcs : BreakpointSet(pc) \/ BreakpointClear(pc)
    BY <1>8
  <2>2. CASE BreakpointSet(pc)
    BY <2>2, <1>b, <1>v, BreakpointOutcome, SameCodeRemembers DEF Handle, Handling
  <2>3. CASE BreakpointClear(pc)
    BY <2>3, <1>b, SameCodeRemembers DEF BreakpointClear, Handle
  <2> QED BY <2>1, <2>2, <2>3
<1>9. CASE BreakpointClearAll
  BY <1>9, <1>b, SameCodeRemembers DEF BreakpointClearAll, Handle
<1>10. CASE VariablesMsg
  <2>1. \A v : SameCode(vm, [vm EXCEPT !.variables = v])
               /\ [vm EXCEPT !.variables = v].fault = vm.fault
    BY DEF SameCode, IsState, Fields
  <2> QED BY <1>10, <1>v, <2>1, VariablesOutcome, SameCodeRemembers DEF Handle, Handling
<1>e. ASSUME NEW t, SameCode(vm, t), t.fault = vm.fault, NEW e, vm' = SetupEvent(t, e),
             UNCHANGED <<upload, edge>>
      PROVE  WhenInv'
  <2>1. IsState(t)
    BY <1>e DEF SameCode
  <2>2. SameCode(vm, vm') /\ vm'.fault = vm.fault
    BY <1>e, <2>1, SetupKeepsCode, FaultKept, SameCodeComposes
  <2> QED BY <1>e, <2>2, SameCodeRemembers
<1>11. CASE \E e \in UserEvents, v \in ArgValues : UserEvent(e, v)
  <2>1. PICK e \in UserEvents, v \in ArgValues : UserEvent(e, v)
    BY <1>11
  <2> DEFINE t == [vm EXCEPT !.variables[SourceAddr] = 1, !.variables[SourceAddr + 1] = v]
  <2>2. SameCode(vm, t) /\ t.fault = vm.fault
    BY DEF IsState, Fields, SameCode
  <2>3. vm' = SetupEvent(t, e) /\ UNCHANGED <<upload, edge>>
    BY <2>1 DEF UserEvent, Handle
  <2> HIDE DEF t
  <2> QED BY <2>2, <2>3, <1>e
<1>12. CASE \E e \in LocalEvents : LocalEvent(e)
  <2>1. PICK e \in LocalEvents : LocalEvent(e)
    BY <1>12
  <2> DEFINE t == [vm EXCEPT !.variables[SourceAddr] = 0]
  <2>2. SameCode(vm, t) /\ t.fault = vm.fault
    BY DEF IsState, Fields, SameCode
  <2>3. vm' = SetupEvent(t, e) /\ UNCHANGED <<upload, edge>>
    BY <2>1 DEF LocalEvent, Handle
  <2> HIDE DEF t
  <2> QED BY <2>2, <2>3, <1>e
<1> QED
  BY <1>1, <1>2, <1>3, <1>4, <1>5, <1>6, <1>7, <1>8, <1>9, <1>10, <1>11, <1>12 DEF Message, VariablesMsg

LEMMA RunRemembers ==
  ASSUME IsState(vm), WhenInv, Run
  PROVE  WhenInv'
<1>f. \A F : SameCode(vm, [vm EXCEPT !.flags = F]) /\ [vm EXCEPT !.flags = F].fault = vm.fault
  BY DEF SameCode, IsState, Fields
<1>0. SameCode(vm, vm)
  BY DEF SameCode
<1>1. CASE VMRun
  BY <1>0, <1>1, <1>f, SameCodeRemembers DEF VMRun
<1>2. CASE HitBreakpoint
  <2> DEFINE t == [vm EXCEPT !.flags = @ \cup {"step"}]
  <2>1. SameCode(vm, t) /\ t.fault = vm.fault
    BY <1>f
  <2>2. vm' = SayState(t) /\ UNCHANGED <<upload, edge>>
    BY <1>2 DEF HitBreakpoint, PausedAtBreakpoint, InLoop
  <2> HIDE DEF t
  <2>3. SameCode(vm, SayState(t)) /\ SayState(t).fault = vm.fault
    BY <2>1 DEF SameCode, IsState, Fields, SayState
  <2> QED BY <2>2, <2>3, SameCodeRemembers
<1>3. CASE LoopStep
  <2>1. PICK t \in AsebaVMStep(vm) :
          \/ vm' = t
          \/ vm' = [KillSlowEvent(t) EXCEPT !.flags = @ \ {"running"}]
    BY <1>3 DEF LoopStep
  <2>2. vm.fault = "none" /\ upload' = upload /\ edge' = Observe(vm)
    BY <1>3 DEF LoopStep, InLoop
  <2>3. /\ IsState(t) /\ t.bytecode \in [Addrs -> Int] /\ Observe(vm) \in [Addrs -> BOOLEAN]
        /\ t.fault = "none" => \A a \in Addrs : Observe(vm)[a] => Bit(t.bytecode[a], WasTrueBit) = 1
    BY <2>2, StepRemembers DEF WhenInv, Remembered
  <2>4. vm'.bytecode = t.bytecode /\ vm'.fault = t.fault
    <3> DEFINE k == [t EXCEPT !.flags = @ \ {"active"}]
               u == SayKilled(k)
    <3>1. IsState(k) /\ k.bytecode = t.bytecode /\ k.fault = t.fault
      BY <2>3 DEF IsState, Fields
    <3>2. IsState(u) /\ u.bytecode = k.bytecode /\ u.fault = k.fault
      BY <3>1 DEF IsState, Fields, SayKilled
    <3>3. vm' = t \/ vm' = [u EXCEPT !.flags = @ \ {"running"}]
      BY <2>1 DEF KillSlowEvent
    <3> HIDE DEF u
    <3> QED BY <3>1, <3>2, <3>3 DEF IsState, Fields
  <2> QED BY <2>2, <2>3, <2>4 DEF WhenInv, WordsSent, Remembered
<1>4. CASE LoopEnd
  BY <1>4, <1>f, SameCodeRemembers DEF LoopEnd, InLoop
<1> QED BY <1>1, <1>2, <1>3, <1>4 DEF Run

LEMMA NextRemembers == IsState(vm) /\ WhenInv /\ [Next]_vars => WhenInv'
<1> SUFFICES ASSUME IsState(vm), WhenInv, [Next]_vars PROVE WhenInv'
  OBVIOUS
<1>1. CASE Run
  BY <1>1, RunRemembers
<1>2. CASE Message
  BY <1>2, MessageRemembers
<1>3. CASE \E p \in Programs : Upload(p)
  BY <1>3, ChunksHoldWords DEF Upload, WhenInv, WordsSent, Remembered
<1>4. CASE UNCHANGED vars
  BY <1>4 DEF vars, WhenInv, WordsSent, Remembered
<1> QED BY <1>1, <1>2, <1>3, <1>4 DEF Next

\* Stepping by two from a "when" with another displacement is taking its body.
LEMMA BodyNeedsAnEdge ==
  ASSUME IsState(vm), WhenInv, WhenStep, vm'.pc = vm.pc + 2
  PROVE  ~ edge[vm.pc]
<1>1. vm.pc \in Addrs /\ vm.pc + 1 \in Addrs /\ Op(Word(vm)) = 10 /\ Bit(Word(vm), WhenBit) = 1
      /\ Int16(Operand(vm, 1)) # 2
  BY DEF WhenStep
<1>2. PICK t \in AsebaVMStep(vm) : vm'.pc = t.pc /\ vm.fault = "none"
  <2>1. \A t \in AsebaVMStep(vm) : SayState(t).pc = t.pc
                                   /\ [KillSlowEvent(t) EXCEPT !.flags = @ \ {"running"}].pc = t.pc
    <3> SUFFICES ASSUME NEW t \in AsebaVMStep(vm)
                 PROVE  SayState(t).pc = t.pc
                        /\ [KillSlowEvent(t) EXCEPT !.flags = @ \ {"running"}].pc = t.pc
      OBVIOUS
    <3>1. IsState(t)
      BY StepOutcome DEF Outcome, Quiet, Stopped
    <3> QED BY <3>1 DEF IsState, Fields, SayState, SayKilled, KillSlowEvent
  <2>2. CASE StepMsg
    BY <2>1, <2>2 DEF StepMsg, Handle, Handling
  <2>3. CASE LoopStep
    BY <2>1, <2>3 DEF LoopStep, InLoop
  <2> QED BY <2>2, <2>3 DEF WhenStep
<1>3. vm.pc \in Int
  BY <1>1, SizesAssumption DEF Addrs
<1>4. CASE t.pc = vm.pc
  BY <1>2, <1>3, <1>4
<1>5. CASE \E r \in BinaryOperation(Peek(vm, 1), Peek(vm, 0), Word(vm) % 256) :
               t.pc = UInt16(vm.pc + (IF TakesBody(Word(vm), ConditionHolds(r)) THEN 2
                                        ELSE Int16(Operand(vm, 1))))
  <2>1. PICK r \in BinaryOperation(Peek(vm, 1), Peek(vm, 0), Word(vm) % 256) :
               t.pc = UInt16(vm.pc + (IF TakesBody(Word(vm), ConditionHolds(r)) THEN 2
                                        ELSE Int16(Operand(vm, 1))))
    BY <1>5
  <2>2. CASE TakesBody(Word(vm), ConditionHolds(r))
    <3>1. Bit(vm.bytecode[vm.pc], WasTrueBit) # 1
      BY <2>2, <1>1 DEF TakesBody, Word
    <3> QED BY <3>1, <1>1, <1>2 DEF WhenInv, Remembered
  <2>3. CASE ~ TakesBody(Word(vm), ConditionHolds(r))
    <3> DEFINE d == Int16(Operand(vm, 1))
    <3>1. Operand(vm, 1) \in Int
      BY <1>1 DEF Operand, WhenInv
    <3>2. d \in Int /\ 0 - 32768 <= d /\ d <= 32767
      <4>1. \A n \in Int : Int16(n) \in Int /\ 0 - 32768 <= Int16(n) /\ Int16(n) <= 32767
        BY DEF Int16
      <4> QED BY <3>1, <4>1
    <3>3. d # 2 /\ vm.pc + 2 = UInt16(vm.pc + d)
      BY <1>1, <1>2, <2>1, <2>3
    <3> HIDE DEF d
    <3>4. \A a, b \in Int : a % 65536 = b => \E q \in Int : a = 65536 * q + b
      OBVIOUS
    <3>5. PICK q \in Int : vm.pc + d = 65536 * q + (vm.pc + 2)
      BY <1>3, <3>2, <3>3, <3>4 DEF UInt16
    <3>6. d - 2 = 65536 * q
      BY <1>3, <3>2, <3>5
    <3> QED BY <3>2, <3>3, <3>6
  <2> QED BY <2>2, <2>3
<1>6. \/ t \in ConditionalBranch(vm) \/ t.pc = vm.pc
  BY <1>1, BranchIsExecuted
<1>7. t \in ConditionalBranch(vm) =>
        \/ t.pc = vm.pc
        \/ \E r \in BinaryOperation(Peek(vm, 1), Peek(vm, 0), Word(vm) % 256) :
             t.pc = UInt16(vm.pc + (IF TakesBody(Word(vm), ConditionHolds(r)) THEN 2
                                      ELSE Int16(Operand(vm, 1))))
  BY <1>1, BranchOutcome, Zenon
<1> QED BY <1>4, <1>5, <1>6, <1>7

\* The body of a "when" is entered only if its condition did not hold the last time it was
\* evaluated since the reset, whatever the program, its uploads and the other messages.
THEOREM WhenOnRisingEdgeAlways == Spec => WhenOnRisingEdge
<1>1. Spec => []WhenInv
  <2>1. IInv => IsState(vm)
    BY DEF IInv
  <2> QED BY <2>1, WhenInitially, NextRemembers, Invariance, PTL DEF Spec
<1>2. IInv /\ WhenInv /\ [Next]_vars => [WhenStep /\ vm'.pc = vm.pc + 2 => ~edge[vm.pc]]_vars
  BY BodyNeedsAnEdge DEF IInv
<1> QED BY <1>1, <1>2, Invariance, PTL DEF Spec, WhenOnRisingEdge

-----------------------------------------------------------------------------
(* Types *)

\* A machine whose fields are what TypeOK says, and no others.
Typed(s) ==
  /\ IsState(s)
  /\ s.bytecode \in [Addrs -> Words]
  /\ s.variables \in [0..(VariablesSize - 1) -> Values]
  /\ s.stack \in Seq(Values)
  /\ s.flags \subseteq FlagSet
  /\ s.pc \in Words
  /\ s.breakpoints \in Seq(BreakpointPcs) /\ Len(s.breakpoints) <= MaxBreakpoints
  /\ s.said.kind \in {"none", "state", "killed"} \cup Errors

\* The provers enumerate a range between two numerals: it is used through its bounds.
LEMMA WordBounds ==
  /\ \A n : n \in Values <=> n \in Int /\ -32768 <= n /\ n <= 32767
  /\ \A n : n \in Words <=> n \in Int /\ 0 <= n /\ n <= 65535
<1>1. \A lo \in Int, hi \in Int : \A n : n \in lo..hi <=> n \in Int /\ lo <= n /\ n <= hi
  OBVIOUS
<1> DEFINE least == -32768
           most == 32767
           word == 65535
<1>2. least \in Int /\ most \in Int /\ word \in Int
  OBVIOUS
<1>a. Values = least..most
  BY DEF Values
<1>b. Words = 0..word
  BY DEF Words
<1> HIDE DEF least, most, word
<1>c. \A n : n \in Values <=> n \in Int /\ least <= n /\ n <= most
  BY <1>1, <1>2, <1>a
<1>d. \A n : n \in Words <=> n \in Int /\ 0 <= n /\ n <= word
  BY <1>1, <1>2, <1>b
<1>3. \A n : n \in Values <=> n \in Int /\ -32768 <= n /\ n <= 32767
  BY <1>c DEF least, most
<1>4. \A n : n \in Words <=> n \in Int /\ 0 <= n /\ n <= 65535
  BY <1>d DEF word
<1> QED BY <1>3, <1>4

LEMMA WordRanges ==
  ASSUME NEW n \in Int
  PROVE  Int16(n) \in Values /\ UInt16(n) \in Words
BY WordBounds DEF Int16, UInt16

LEMMA WordParts ==
  ASSUME NEW w \in Words
  PROVE  /\ Op(w) \in Nat /\ Op(w) <= 15 /\ Low(w) \in Nat /\ Low(w) <= 4095
         /\ Imm12(w) \in Values
         /\ w % 256 \in Nat /\ w % 256 <= 255
<1>1. w \in Int /\ 0 <= w /\ w <= 65535
  BY WordBounds
<1>2. Op(w) \in Nat /\ Op(w) <= 15
  BY <1>1 DEF Op
<1>3. Low(w) \in Nat /\ Low(w) <= 4095
  BY <1>1 DEF Low
<1>4. Imm12(w) \in Values
  BY <1>3, WordBounds DEF Imm12
<1>5. w % 256 \in Nat /\ w % 256 <= 255
  BY <1>1
<1> QED BY <1>2, <1>3, <1>4, <1>5

LEMMA WasTrueIsWord ==
  ASSUME NEW w \in Words, NEW b
  PROVE  SetWasTrue(w, b) \in Words
<1>1. 2 ^ 9 = 512
  OBVIOUS
<1>2. Bit(w, WasTrueBit) = (w \div 512) % 2
  BY <1>1 DEF Bit, WasTrueBit
<1>3. w \in Int /\ 0 <= w /\ w <= 65535
  BY WordBounds
<1>4. \/ SetWasTrue(w, b) = w + (1 - ((w \div 512) % 2)) * 512
      \/ SetWasTrue(w, b) = w - (((w \div 512) % 2) * 512)
  BY <1>2, <1>3 DEF SetWasTrue
<1>5. /\ 0 <= w + (1 - ((w \div 512) % 2)) * 512 /\ w + (1 - ((w \div 512) % 2)) * 512 <= 65535
      /\ 0 <= w - (((w \div 512) % 2) * 512) /\ w - (((w \div 512) % 2) * 512) <= 65535
  BY <1>3
<1>6. SetWasTrue(w, b) \in Int
  BY <1>3, <1>4
<1> QED BY <1>4, <1>5, <1>6, WordBounds

LEMMA PowersOfTwo ==
  ASSUME NEW b \in 0..15
  PROVE  2 ^ b \in Nat \ {0}
<1>1. 2 ^ 0 = 1 /\ 2 ^ 1 = 2 /\ 2 ^ 2 = 4 /\ 2 ^ 3 = 8
  OBVIOUS
<1>2. 2 ^ 4 = 16 /\ 2 ^ 5 = 32 /\ 2 ^ 6 = 64 /\ 2 ^ 7 = 128
  OBVIOUS
<1>3. 2 ^ 8 = 256 /\ 2 ^ 9 = 512 /\ 2 ^ 10 = 1024 /\ 2 ^ 11 = 2048
  OBVIOUS
<1>4. 2 ^ 12 = 4096 /\ 2 ^ 13 = 8192 /\ 2 ^ 14 = 16384 /\ 2 ^ 15 = 32768
  OBVIOUS
<1>5. b \in {0, 1, 2, 3, 4, 5, 6, 7, 8, 9, 10, 11, 12, 13, 14, 15}
  OBVIOUS
<1>6. /\ 2 ^ 0 \in Nat \ {0} /\ 2 ^ 1 \in Nat \ {0} /\ 2 ^ 2 \in Nat \ {0} /\ 2 ^ 3 \in Nat \ {0}
      /\ 2 ^ 4 \in Nat \ {0} /\ 2 ^ 5 \in Nat \ {0} /\ 2 ^ 6 \in Nat \ {0} /\ 2 ^ 7 \in Nat \ {0}
  BY <1>1, <1>2
<1>7. /\ 2 ^ 8 \in Nat \ {0} /\ 2 ^ 9 \in Nat \ {0} /\ 2 ^ 10 \in Nat \ {0} /\ 2 ^ 11 \in Nat \ {0}
      /\ 2 ^ 12 \in Nat \ {0} /\ 2 ^ 13 \in Nat \ {0} /\ 2 ^ 14 \in Nat \ {0} /\ 2 ^ 15 \in Nat \ {0}
  BY <1>3, <1>4
<1> QED BY <1>5, <1>6, <1>7, Zenon

LEMMA BitsMakeValues ==
  ASSUME NEW S
  PROVE  OfBits(S) \in Values
<1> DEFINE bit(i) == IF i \in S THEN 2 ^ i ELSE 0
<1>1. \A i \in 0..15 : bit(i) \in Int
  BY PowersOfTwo
<1> HIDE DEF bit
<1>2. bit(0) + bit(1) + bit(2) + bit(3) + bit(4) + bit(5) + bit(6) + bit(7) + bit(8)
            + bit(9) + bit(10) + bit(11) + bit(12) + bit(13) + bit(14) + bit(15) \in Int
  BY <1>1
<1> QED BY <1>2, WordRanges DEF OfBits, bit

\* The remainder has the sign of the dividend, and no larger magnitude.
LEMMA RemainderIsValue ==
  ASSUME NEW a \in Values, NEW b \in Values, b # 0
  PROVE  a - (b * TruncDiv(a, b)) \in Values /\ TruncDiv(a, b) \in Int
<1> DEFINE m == Magnitude(a)
           n == Magnitude(b)
           q == m \div n
           r == m - (n * q)
<1>0. a \in Int /\ b \in Int /\ -32768 <= a /\ a <= 32767
  BY WordBounds
<1>1. m \in Nat /\ n \in Nat \ {0}
  BY <1>0 DEF Magnitude
<1>2. \A x \in Nat, y \in Nat \ {0} :
         /\ x \div y \in Nat
         /\ 0 <= x - (y * (x \div y)) /\ x - (y * (x \div y)) <= x
  OBVIOUS
<1>3. 0 <= r /\ r <= m /\ q \in Nat
  BY <1>1, <1>2
<1>4. TruncDiv(a, b) = (IF (a < 0) = (b < 0) THEN 1 ELSE -1) * q
  BY DEF TruncDiv
<1> HIDE DEF q
<1>5. CASE a < 0 /\ b < 0
  <2>1. TruncDiv(a, b) = q /\ m = -a /\ n = -b
    BY <1>0, <1>3, <1>4, <1>5 DEF Magnitude
  <2>2. a - (b * q) = -r
    BY <1>0, <1>3, <2>1
  <2> QED BY <1>0, <1>3, <2>1, <2>2, WordBounds
<1>6. CASE a < 0 /\ ~(b < 0)
  <2>1. TruncDiv(a, b) = -q /\ m = -a /\ n = b
    BY <1>0, <1>3, <1>4, <1>6 DEF Magnitude
  <2>2. a - (b * (-q)) = -r
    BY <1>0, <1>3, <2>1
  <2> QED BY <1>0, <1>3, <2>1, <2>2, WordBounds
<1>7. CASE ~(a < 0) /\ b < 0
  <2>1. TruncDiv(a, b) = -q /\ m = a /\ n = -b
    BY <1>0, <1>3, <1>4, <1>7 DEF Magnitude
  <2>2. a - (b * (-q)) = r
    BY <1>0, <1>3, <2>1
  <2> QED BY <1>0, <1>3, <2>1, <2>2, WordBounds
<1>8. CASE ~(a < 0) /\ ~(b < 0)
  <2>1. TruncDiv(a, b) = q /\ m = a /\ n = b
    BY <1>0, <1>3, <1>4, <1>8 DEF Magnitude
  <2>2. a - (b * q) = r
    BY <1>0, <1>3, <2>1
  <2> QED BY <1>0, <1>3, <2>1, <2>2, WordBounds
<1> QED BY <1>5, <1>6, <1>7, <1>8

\* Whatever its operands, a binary operation leaves a 16-bit value.
LEMMA BinaryOperationValues ==
  ASSUME NEW a \in Values, NEW b \in Values, NEW op \in Nat, op <= 17
  PROVE  BinaryOperation(a, b, op) \subseteq Values
<1>t. \A p \in BOOLEAN : Truth(p) \in Values
  BY WordBounds DEF Truth
<1>i. a \in Int /\ b \in Int
  BY WordBounds
<1>0. CASE op = 0
  <2>1. b \in 0..15 => a * 2 ^ b \in Int
    BY <1>i, PowersOfTwo
  <2>2. BinaryOperation(a, b, op) = IF b \in 0..15 THEN {Int16(a * 2 ^ b)} ELSE Values
    BY <1>0 DEF BinaryOperation
  <2> QED BY <2>1, <2>2, WordRanges
<1>1. CASE op = 1
  <2>1. \A n \in Nat \ {0} : a \div n \in Values
    <3> SUFFICES ASSUME NEW n \in Nat \ {0} PROVE a \div n \in Values
      OBVIOUS
    <3>1. a \div n \in Int
      BY <1>i
    <3>2. a >= 0 => 0 <= a \div n /\ a \div n <= a
      BY <1>i
    <3>3. a < 0 => a <= a \div n /\ a \div n <= 0
      BY <1>i
    <3> QED BY <1>i, <3>1, <3>2, <3>3, WordBounds
  <2>2. BinaryOperation(a, b, op) = IF b \in 0..15 THEN {a \div (2 ^ b)} ELSE Values
    BY <1>1 DEF BinaryOperation
  <2>3. b \in 0..15 => a \div (2 ^ b) \in Values
    BY <2>1, PowersOfTwo, Zenon
  <2> QED BY <2>2, <2>3
<1>2. CASE op \in {2, 3, 4}
  <2>1. a + b \in Int /\ a - b \in Int /\ a * b \in Int
    BY <1>i
  <2>2. BinaryOperation(a, b, op) \in {{Int16(a + b)}, {Int16(a - b)}, {Int16(a * b)}}
    BY <1>2 DEF BinaryOperation
  <2> QED BY <2>1, <2>2, WordRanges
<1>5. CASE op = 5
  <2>1. BinaryOperation(a, b, op) = {IF b = 0 THEN 0 ELSE Int16(TruncDiv(a, b))}
    BY <1>5 DEF BinaryOperation
  <2>2. 0 \in Values
    BY WordBounds
  <2> QED BY <2>1, <2>2, RemainderIsValue, WordRanges
<1>6. CASE op = 6
  <2>1. BinaryOperation(a, b, op) = {IF b = 0 THEN 0 ELSE a - b * TruncDiv(a, b)}
    BY <1>6 DEF BinaryOperation
  <2>2. 0 \in Values
    BY WordBounds
  <2> QED BY <2>1, <2>2, RemainderIsValue
<1>7. CASE op \in {7, 8, 9}
  <2>1. \E S : BinaryOperation(a, b, op) = {OfBits(S)}
    <3>1. CASE op = 7
      BY <3>1 DEF BinaryOperation
    <3>2. CASE op = 8
      BY <3>2 DEF BinaryOperation
    <3>3. CASE op = 9
      BY <3>3 DEF BinaryOperation
    <3> QED BY <1>7, <3>1, <3>2, <3>3
  <2> QED BY <2>1, BitsMakeValues
<1>8. CASE op \in {10, 11, 12, 13, 14, 15, 16, 17}
  <2>1. \E p \in BOOLEAN : BinaryOperation(a, b, op) = {Truth(p)}
    <3>1. CASE op \in {10, 11}
      <4>1. BinaryOperation(a, b, op) \in {{Truth(a = b)}, {Truth(a # b)}}
        BY <3>1 DEF BinaryOperation
      <4> QED BY <4>1
    <3>2. CASE op \in {12, 13, 14, 15}
      <4>1. BinaryOperation(a, b, op)
              \in {{Truth(a > b)}, {Truth(a >= b)}, {Truth(a < b)}, {Truth(a <= b)}}
        BY <3>2 DEF BinaryOperation
      <4>2. (a > b) \in BOOLEAN /\ (a >= b) \in BOOLEAN /\ (a < b) \in BOOLEAN /\ (a <= b) \in BOOLEAN
        BY <1>i
      <4> QED BY <4>1, <4>2, Zenon
    <3>3. CASE op \in {16, 17}
      <4>1. BinaryOperation(a, b, op) \in {{Truth(a # 0 \/ b # 0)}, {Truth(a # 0 /\ b # 0)}}
        BY <3>3 DEF BinaryOperation
      <4> QED BY <4>1
    <3> QED BY <1>8, <3>1, <3>2, <3>3
  <2> QED BY <2>1, <1>t
<1> QED BY <1>0, <1>1, <1>2, <1>5, <1>6, <1>7, <1>8

LEMMA UnaryOperationValues ==
  ASSUME NEW a \in Values, NEW op \in {0, 1, 2}
  PROVE  UnaryOperation(a, op) \in Values
<1>1. a \in Int /\ -32768 <= a /\ a <= 32767
  BY WordBounds
<1>2. CASE op = 0
  BY <1>1, <1>2, WordRanges DEF UnaryOperation
<1>3. CASE op = 1
  BY <1>1, <1>3, WordRanges DEF UnaryOperation, Magnitude
<1>4. CASE op = 2
  <2>1. UnaryOperation(a, op) = -a - 1
    BY <1>4 DEF UnaryOperation
  <2> QED BY <1>1, <2>1, WordBounds
<1> QED BY <1>2, <1>3, <1>4

Kinds == {"none", "state", "killed"} \cup Errors

\* A machine keeps its type when one field is given another value of its type.
LEMMA FieldsKeepType ==
  ASSUME NEW s, Typed(s)
  PROVE  /\ \A v \in [Addrs -> Words] : Typed([s EXCEPT !.bytecode = v])
         /\ \A v \in [0..(VariablesSize - 1) -> Values] : Typed([s EXCEPT !.variables = v])
         /\ \A v \in Seq(Values) : Typed([s EXCEPT !.stack = v])
         /\ \A v \in SUBSET FlagSet : Typed([s EXCEPT !.flags = v])
         /\ \A v \in Words : Typed([s EXCEPT !.pc = v])
         /\ \A v : v.kind \in Kinds => Typed([s EXCEPT !.said = v])
         /\ \A v : Typed([s EXCEPT !.fault = v])
<1>1. \A v \in [Addrs -> Words] : Typed([s EXCEPT !.bytecode = v])
  BY DEF Typed, IsState, Fields
<1>2. \A v \in [0..(VariablesSize - 1) -> Values] : Typed([s EXCEPT !.variables = v])
  BY DEF Typed, IsState, Fields
<1>3. \A v \in Seq(Values) : Typed([s EXCEPT !.stack = v])
  BY DEF Typed, IsState, Fields
<1>4. \A v \in SUBSET FlagSet : Typed([s EXCEPT !.flags = v])
  BY DEF Typed, IsState, Fields
<1>5. \A v \in Words : Typed([s EXCEPT !.pc = v])
  BY DEF Typed, IsState, Fields
<1>6. \A v : v.kind \in Kinds => Typed([s EXCEPT !.said = v])
  BY DEF Typed, IsState, Fields, Kinds
<1>7. \A v : Typed([s EXCEPT !.fault = v])
  BY DEF Typed, IsState, Fields
<1> QED BY <1>1, <1>2, <1>3, <1>4, <1>5, <1>6, <1>7

\* The top of the stack, and what is below it, are values.
LEMMA StackHoldsValues ==
  ASSUME NEW s, Typed(s)
  PROVE  /\ Len(s.stack) \in Nat
         /\ \A i \in Nat : i < Len(s.stack) => Peek(s, i) \in Values
<1>1. s.stack \in Seq(Values) /\ Len(s.stack) \in Nat
  BY DEF Typed
<1>2. ASSUME NEW i \in Nat, i < Len(s.stack)
      PROVE  Peek(s, i) \in Values
  <2>1. Len(s.stack) - i \in 1..Len(s.stack)
    BY <1>1, <1>2
  <2> QED BY <1>1, <2>1 DEF Peek
<1> QED BY <1>1, <1>2

LEMMA HelpersKeepType ==
  ASSUME NEW s, Typed(s)
  PROVE  /\ \A n \in Int : Typed(Advance(s, n))
         /\ \A n \in Nat : n <= Len(s.stack) => Typed(Popped(s, n))
         /\ \A v \in Values : Typed(Pushed(s, v))
         /\ \A what : Typed(Fault(s, what))
         /\ \A what \in Errors : Typed(ErrorStop(s, what))
         /\ Typed(SayState(s)) /\ Typed(SayKilled(s))
         /\ \A n \in Int : Typed(Jumped(s, n))
         /\ \A b : s.pc \in Addrs => Typed(Remember(s, b))
         /\ \A a, v : v \in Values => Typed([s EXCEPT !.variables[a] = v])
         /\ \A W : \A f \in [W -> Values] : Typed([s EXCEPT !.variables = Overwritten(@, f)])
<1>1. ASSUME NEW n \in Int PROVE Typed(Advance(s, n))
  <2>1. s.pc \in Int
    BY WordBounds DEF Typed
  <2>2. UInt16(s.pc + n) \in Words
    BY <2>1, WordRanges
  <2> QED BY <2>2, FieldsKeepType DEF Advance
<1>2. ASSUME NEW n \in Nat, n <= Len(s.stack) PROVE Typed(Popped(s, n))
  <2>1. SubSeq(s.stack, 1, Len(s.stack) - n) \in Seq(Values)
    BY <1>2 DEF Typed
  <2> QED BY <2>1, FieldsKeepType DEF Popped
<1>3. ASSUME NEW v \in Values PROVE Typed(Pushed(s, v))
  <2>1. Append(s.stack, v) \in Seq(Values)
    BY DEF Typed
  <2> QED BY <2>1, FieldsKeepType DEF Pushed, Fault
<1>4. \A what : Typed(Fault(s, what))
  BY FieldsKeepType DEF Fault
<1>5. ASSUME NEW what \in Errors PROVE Typed(ErrorStop(s, what))
  <2> DEFINE t == [s EXCEPT !.flags = {"step"}]
             said == [kind |-> what, pc |-> s.pc, flags |-> {}]
  <2>1. Typed(t)
    BY FieldsKeepType DEF FlagSet
  <2>2. said.kind \in Kinds
    BY DEF Kinds
  <2>3. ErrorStop(s, what) = [t EXCEPT !.said = said]
    BY DEF ErrorStop, Typed, IsState, Fields
  <2> HIDE DEF t, said
  <2> QED BY <2>1, <2>2, <2>3, FieldsKeepType
<1>6. Typed(SayState(s)) /\ Typed(SayKilled(s))
  BY FieldsKeepType DEF SayState, SayKilled, Kinds
<1>7. ASSUME NEW n \in Int PROVE Typed(Jumped(s, n))
  BY <1>1, <1>4 DEF Jumped
<1>8. ASSUME NEW b, s.pc \in Addrs PROVE Typed(Remember(s, b))
  <2>1. s.bytecode \in [Addrs -> Words]
    BY DEF Typed
  <2>2. SetWasTrue(s.bytecode[s.pc], b) \in Words
    BY <1>8, <2>1, WasTrueIsWord
  <2>3. [s.bytecode EXCEPT ![s.pc] = SetWasTrue(@, b)] \in [Addrs -> Words]
    BY <2>1, <2>2
  <2> QED BY <2>3, FieldsKeepType DEF Remember
<1>9. ASSUME NEW a, NEW v \in Values PROVE Typed([s EXCEPT !.variables[a] = v])
  <2>1. [s.variables EXCEPT ![a] = v] \in [0..(VariablesSize - 1) -> Values]
    BY DEF Typed
  <2> QED BY <2>1, FieldsKeepType
<1>10. ASSUME NEW W, NEW f \in [W -> Values]
       PROVE  Typed([s EXCEPT !.variables = Overwritten(@, f)])
  <2>1. s.variables \in [0..(VariablesSize - 1) -> Values]
    BY DEF Typed
  <2>2. Overwritten(s.variables, f) \in [0..(VariablesSize - 1) -> Values]
    BY <2>1 DEF Overwritten
  <2> QED BY <2>2, FieldsKeepType
<1> QED BY <1>1, <1>2, <1>3, <1>4, <1>5, <1>6, <1>7, <1>8, <1>9, <1>10

\* A value written on top of the stack.
LEMMA TopKeepsType ==
  ASSUME NEW s, Typed(s), NEW v \in Values, Len(s.stack) >= 1
  PROVE  Typed([s EXCEPT !.stack[Len(s.stack)] = v])
<1>1. [s.stack EXCEPT ![Len(s.stack)] = v] \in Seq(Values)
  BY DEF Typed
<1> QED BY <1>1, FieldsKeepType

\* The instruction and its operands are words, when they lie in the bytecode space.
LEMMA OperandsAreWords ==
  ASSUME NEW s, Typed(s), s.pc \in Addrs, s.pc + Width(Word(s)) <= BytecodeSize
  PROVE  /\ Word(s) \in Words
         /\ Op(Word(s)) \in {2, 5, 6, 10} => Operand(s, 1) \in Words
         /\ Op(Word(s)) = 11 => Operand(s, 1) \in Words /\ Operand(s, 2) \in Words
<1>1. s.bytecode \in [Addrs -> Words] /\ s.pc \in Nat /\ BytecodeSize \in Nat
  BY SizesAssumption DEF Typed, Addrs
<1>2. Word(s) \in Words
  BY <1>1 DEF Word
<1>3. ASSUME Op(Word(s)) \in {2, 5, 6, 10} PROVE Operand(s, 1) \in Words
  <2>1. Width(Word(s)) = 2
    BY <1>3 DEF Width
  <2>2. s.pc + 1 \in Addrs
    BY <1>1, <2>1 DEF Addrs
  <2> QED BY <1>1, <2>2 DEF Operand
<1>4. ASSUME Op(Word(s)) = 11 PROVE Operand(s, 1) \in Words /\ Operand(s, 2) \in Words
  <2>1. Width(Word(s)) = 3
    BY <1>4 DEF Width
  <2>2. s.pc + 1 \in Addrs /\ s.pc + 2 \in Addrs
    BY <1>1, <2>1 DEF Addrs
  <2> QED BY <1>1, <2>2 DEF Operand
<1> QED BY <1>2, <1>3, <1>4

\* Checked may stop the machine; it leaves the stack, the program and the pc.
LEMMA CheckedKeepsType ==
  ASSUME NEW s, Typed(s)
  PROVE  /\ Typed(Checked(s)) /\ Checked(s).stack = s.stack /\ Checked(s).pc = s.pc
         /\ Checked(s).bytecode = s.bytecode
<1>1. Typed(ErrorStop(s, "division"))
  BY HelpersKeepType DEF Errors
<1>2. /\ ErrorStop(s, "division").stack = s.stack /\ ErrorStop(s, "division").pc = s.pc
      /\ ErrorStop(s, "division").bytecode = s.bytecode
  BY DEF ErrorStop, Typed, IsState, Fields
<1> QED BY <1>1, <1>2 DEF Checked

LEMMA PoppedIsPopped ==
  ASSUME NEW s, Typed(s), NEW n
  PROVE  Popped(s, n).pc = s.pc /\ Popped(s, n).bytecode = s.bytecode
BY DEF Popped, Typed, IsState, Fields

\* The machine may execute the instruction at pc: it lies in the bytecode space, and an
\* event is active.
Executable(s) ==
  s.pc \in Addrs /\ ~(s.pc + Width(Word(s)) > BytecodeSize) /\ "active" \in s.flags

\* What AsebaVMStep dispatches on.
LEMMA Dispatch ==
  ASSUME NEW s, NEW t \in AsebaVMStep(s)
  PROVE  /\ ~Executable(s) => t \in {Fault(s, "wild access"), Fault(s, "step out of run")}
         /\ Executable(s) /\ Op(Word(s)) = 0 => t \in Stop(s)
         /\ Executable(s) /\ Op(Word(s)) = 1 => t \in SmallImmediate(s)
         /\ Executable(s) /\ Op(Word(s)) = 2 => t \in LargeImmediate(s)
         /\ Executable(s) /\ Op(Word(s)) = 3 => t \in Load(s)
         /\ Executable(s) /\ Op(Word(s)) = 4 => t \in Store(s)
         /\ Executable(s) /\ Op(Word(s)) = 5 => t \in LoadIndirect(s)
         /\ Executable(s) /\ Op(Word(s)) = 6 => t \in StoreIndirect(s)
         /\ Executable(s) /\ Op(Word(s)) = 7 => t \in UnaryArithmetic(s)
         /\ Executable(s) /\ Op(Word(s)) = 8 => t \in BinaryArithmetic(s)
         /\ Executable(s) /\ Op(Word(s)) = 9 => t \in Jump(s)
         /\ Executable(s) /\ Op(Word(s)) = 10 => t \in ConditionalBranch(s)
         /\ Executable(s) /\ Op(Word(s)) = 11 => t \in Emit(s)
         /\ Executable(s) /\ Op(Word(s)) = 12 => t \in NativeCall(s)
         /\ Executable(s) /\ Op(Word(s)) = 13 => t \in SubCall(s)
         /\ Executable(s) /\ Op(Word(s)) = 14 => t \in SubRet(s)
         /\ Executable(s) /\ Op(Word(s)) \notin {0, 1, 2, 3, 4, 5, 6, 7, 8, 9, 10, 11, 12, 13, 14}
              => t = Fault(s, "unknown bytecode")
<1> DEFINE o == Op(Word(s))
<1>1. ~Executable(s) => t \in {Fault(s, "wild access"), Fault(s, "step out of run")}
  BY DEF Executable, AsebaVMStep
<1>2. ASSUME Executable(s)
      PROVE  t \in CASE o = 0 -> Stop(s)
                     [] o = 1 -> SmallImmediate(s)
                     [] o = 2 -> LargeImmediate(s)
                     [] o = 3 -> Load(s)
                     [] o = 4 -> Store(s)
                     [] o = 5 -> LoadIndirect(s)
                     [] o = 6 -> StoreIndirect(s)
                     [] o = 7 -> UnaryArithmetic(s)
                     [] o = 8 -> BinaryArithmetic(s)
                     [] o = 9 -> Jump(s)
                     [] o = 10 -> ConditionalBranch(s)
                     [] o = 11 -> Emit(s)
                     [] o = 12 -> NativeCall(s)
                     [] o = 13 -> SubCall(s)
                     [] o = 14 -> SubRet(s)
                     [] OTHER -> {Fault(s, "unknown bytecode")}
  BY <1>2 DEF Executable, AsebaVMStep
<1> HIDE DEF o
<1>10. Executable(s) /\ o = 0 => t \in Stop(s)
  BY <1>2
<1>11. Executable(s) /\ o = 1 => t \in SmallImmediate(s)
  BY <1>2
<1>12. Executable(s) /\ o = 2 => t \in LargeImmediate(s)
  BY <1>2
<1>13. Executable(s) /\ o = 3 => t \in Load(s)
  BY <1>2
<1>14. Executable(s) /\ o = 4 => t \in Store(s)
  BY <1>2
<1>15. Executable(s) /\ o = 5 => t \in LoadIndirect(s)
  BY <1>2
<1>16. Executable(s) /\ o = 6 => t \in StoreIndirect(s)
  BY <1>2
<1>17. Executable(s) /\ o = 7 => t \in UnaryArithmetic(s)
  BY <1>2
<1>18. Executable(s) /\ o = 8 => t \in BinaryArithmetic(s)
  BY <1>2
<1>19. Executable(s) /\ o = 9 => t \in Jump(s)
  BY <1>2
<1>20. Executable(s) /\ o = 10 => t \in ConditionalBranch(s)
  BY <1>2
<1>21. Executable(s) /\ o = 11 => t \in Emit(s)
  BY <1>2
<1>22. Executable(s) /\ o = 12 => t \in NativeCall(s)
  BY <1>2
<1>23. Executable(s) /\ o = 13 => t \in SubCall(s)
  BY <1>2
<1>24. Executable(s) /\ o = 14 => t \in SubRet(s)
  BY <1>2
<1>25. /\ Executable(s) /\ o \notin {0, 1, 2, 3, 4, 5, 6, 7, 8, 9, 10, 11, 12, 13, 14}
       => t = Fault(s, "unknown bytecode")
  BY <1>2
<1> QED BY <1>1, <1>10, <1>11, <1>12, <1>13, <1>14, <1>15, <1>16, <1>17, <1>18, <1>19, <1>20,
           <1>21, <1>22, <1>23, <1>24, <1>25 DEF o

\* Every instruction leaves a machine of the same type, faulty or not.
LEMMA StepKeepsType ==
  ASSUME NEW s, Typed(s), NEW t \in AsebaVMStep(s)
  PROVE  Typed(t)
<1>f. \A what : Typed(Fault(s, what))
  BY HelpersKeepType
<1>b. CASE ~Executable(s)
  <2>1. t \in {Fault(s, "wild access"), Fault(s, "step out of run")}
    BY <1>b, Dispatch
  <2> QED BY <1>f, <2>1
<1>n. CASE Executable(s)
  <2>p. s.pc \in Addrs /\ s.pc \in Nat /\ BytecodeSize \in Nat
    BY <1>n, SizesAssumption DEF Addrs, Executable
  <2>q. s.pc + Width(Word(s)) <= BytecodeSize
    <3>1. Width(Word(s)) \in Nat
      BY DEF Width
    <3> QED BY <1>n, <2>p, <3>1 DEF Executable
  <2>w. Word(s) \in Words /\ Low(Word(s)) \in Nat /\ Imm12(Word(s)) \in Values
        /\ Word(s) % 256 \in Nat /\ Imm12(Word(s)) \in Int /\ Low(Word(s)) \in Words
    BY <2>p, <2>q, OperandsAreWords, WordParts, WordBounds
  <2>l. Len(s.stack) \in Nat /\ \A i \in Nat : i < Len(s.stack) => Peek(s, i) \in Values
    BY StackHoldsValues
  <2>u. ASSUME NEW i \in Nat, i < Len(s.stack)
        PROVE  UInt16(Peek(s, i)) \in Nat /\ UInt16(Peek(s, i)) \in Words
    <3>1. Peek(s, i) \in Int
      BY <2>l, <2>u, WordBounds
    <3>2. UInt16(Peek(s, i)) \in Words
      BY <3>1, WordRanges
    <3> QED BY <3>2, WordBounds
  <2>v. \A a \in Nat : a < VariablesSize => s.variables[a] \in Values
    BY SizesAssumption DEF Typed
  <2>a. ASSUME NEW u, Typed(u) PROVE Typed(Advance(u, 1)) /\ Typed(Advance(u, 2)) /\ Typed(Advance(u, 3))
    <3>1. \A n \in Int : Typed(Advance(u, n))
      BY <2>a, HelpersKeepType
    <3> QED BY <3>1
  <2>0. CASE Op(Word(s)) = 0
    <3>1. t = [s EXCEPT !.flags = @ \ {"active"}]
      BY <1>n, <2>0, Dispatch DEF Stop
    <3>2. s.flags \ {"active"} \in SUBSET FlagSet
      BY DEF Typed
    <3> QED BY <3>1, <3>2, FieldsKeepType
  <2>1. CASE Op(Word(s)) = 1
    <3>1. t = Advance(Pushed(s, Imm12(Word(s))), 1)
      BY <1>n, <2>1, Dispatch DEF SmallImmediate
    <3> QED BY <3>1, <2>a, <2>w, HelpersKeepType
  <2>2. CASE Op(Word(s)) = 2
    <3>1. t = Advance(Pushed(s, Int16(Operand(s, 1))), 2)
      BY <1>n, <2>2, Dispatch DEF LargeImmediate
    <3>2. Int16(Operand(s, 1)) \in Values
      BY <2>2, <2>p, <2>q, OperandsAreWords, WordBounds, WordRanges
    <3> QED BY <3>1, <3>2, <2>a, HelpersKeepType
  <2>3. CASE Op(Word(s)) = 3
    <3>1. t \in Load(s)
      BY <1>n, <2>3, Dispatch
    <3>2. CASE Low(Word(s)) >= VariablesSize
      BY <3>1, <3>2, <1>f DEF Load
    <3>3. CASE ~(Low(Word(s)) >= VariablesSize)
      <4>1. s.variables[Low(Word(s))] \in Values
        BY <2>v, <2>w, <3>3, SizesAssumption
      <4> QED BY <3>1, <3>3, <4>1, <2>a, HelpersKeepType DEF Load
    <3> QED BY <3>2, <3>3
  <2>4. CASE Op(Word(s)) = 4
    <3>1. t \in Store(s)
      BY <1>n, <2>4, Dispatch
    <3>2. CASE Len(s.stack) < 1 \/ Low(Word(s)) >= VariablesSize
      BY <3>1, <3>2, <1>f DEF Store
    <3>3. CASE ~(Len(s.stack) < 1 \/ Low(Word(s)) >= VariablesSize)
      <4> DEFINE u == [s EXCEPT !.variables[Low(Word(s))] = Peek(s, 0)]
      <4>1. Typed(u) /\ u.stack = s.stack
        <5>1. Peek(s, 0) \in Values
          BY <2>l, <3>3
        <5>2. Typed(u)
          BY <5>1, HelpersKeepType
        <5> QED BY <5>2 DEF Typed, IsState, Fields
      <4>2. t = Advance(Popped(u, 1), 1)
        BY <3>1, <3>3 DEF Store
      <4> HIDE DEF u
      <4>3. Typed(Popped(u, 1))
        BY <4>1, <3>3, <2>l, HelpersKeepType
      <4> QED BY <4>2, <4>3, <2>a
    <3> QED BY <3>2, <3>3
  <2>5. CASE Op(Word(s)) = 5
    <3> DEFINE at == Low(Word(s)) + UInt16(Peek(s, 0))
    <3>1. t \in LoadIndirect(s)
      BY <1>n, <2>5, Dispatch
    <3>2. \/ t \in {Fault(s, "stack underflow"), Fault(s, "wild access"), ErrorStop(s, "bounds")}
          \/ /\ ~(Len(s.stack) < 1) /\ ~(at >= VariablesSize)
             /\ t = Advance([s EXCEPT !.stack[Len(s.stack)] = s.variables[at]], 2)
      BY <3>1 DEF LoadIndirect
    <3>3. Typed(ErrorStop(s, "bounds"))
      BY HelpersKeepType DEF Errors
    <3>4. ASSUME ~(Len(s.stack) < 1), ~(at >= VariablesSize)
          PROVE  Typed([s EXCEPT !.stack[Len(s.stack)] = s.variables[at]])
      <4>1. at \in Nat /\ at < VariablesSize
        BY <3>4, <2>w, <2>u, <2>l, SizesAssumption
      <4> QED BY <4>1, <3>4, <2>v, <2>l, TopKeepsType
    <3> QED BY <3>2, <3>3, <3>4, <1>f, <2>a
  <2>6. CASE Op(Word(s)) = 6
    <3> DEFINE at == Low(Word(s)) + UInt16(Peek(s, 0))
               u  == [s EXCEPT !.variables[at] = Peek(s, 1)]
    <3>1. t \in StoreIndirect(s)
      BY <1>n, <2>6, Dispatch
    <3>2. \/ t \in {Fault(s, "stack underflow"), Fault(s, "wild access"), ErrorStop(s, "bounds")}
          \/ ~(Len(s.stack) < 2) /\ t = Advance(Popped(u, 2), 2)
      BY <3>1 DEF StoreIndirect
    <3>3. Typed(ErrorStop(s, "bounds"))
      BY HelpersKeepType DEF Errors
    <3>4. ASSUME ~(Len(s.stack) < 2)
          PROVE  Typed(Popped(u, 2))
      <4>1. Peek(s, 1) \in Values
        BY <3>4, <2>l
      <4>2. Typed(u)
        BY <4>1, HelpersKeepType
      <4>3. u.stack = s.stack
        BY DEF Typed, IsState, Fields
      <4> HIDE DEF u
      <4> QED BY <4>2, <4>3, <3>4, <2>l, HelpersKeepType
    <3> HIDE DEF u
    <3> QED BY <3>2, <3>3, <3>4, <1>f, <2>a
  <2>7. CASE Op(Word(s)) = 7
    <3> DEFINE op == Word(s) % 256
               u == [s EXCEPT !.stack[Len(s.stack)] = UnaryOperation(@, op)]
    <3>1. t \in UnaryArithmetic(s)
      BY <1>n, <2>7, Dispatch
    <3>2. \/ t \in {Fault(s, "stack underflow"), Fault(s, "unknown unary operator")}
          \/ ~(Len(s.stack) < 1) /\ ~(op > 2) /\ t = Advance(u, 1)
      BY <3>1, Zenon DEF UnaryArithmetic
    <3>3. ASSUME ~(Len(s.stack) < 1), ~(op > 2) PROVE Typed(u)
      <4>1. op \in {0, 1, 2}
        BY <3>3, <2>w
      <4>2. Peek(s, 0) \in Values /\ Peek(s, 0) = s.stack[Len(s.stack)]
        BY <3>3, <2>l DEF Peek
      <4>3. UnaryOperation(s.stack[Len(s.stack)], op) \in Values
        BY <4>1, <4>2, UnaryOperationValues
      <4> QED BY <4>3, <3>3, <2>l, TopKeepsType
    <3> HIDE DEF u, op
    <3> QED BY <3>2, <3>3, <1>f, <2>a
  <2>8. CASE Op(Word(s)) = 8
    <3> DEFINE op == Word(s) % 256
               u == Popped(Checked(s), 2)
    <3>1. t \in BinaryArithmetic(s)
      BY <1>n, <2>8, Dispatch
    <3>2. \/ t \in {Fault(s, "stack underflow"), Fault(s, "unknown binary operator")}
          \/ /\ ~(Len(s.stack) < 2) /\ ~(op > 17)
             /\ \E r \in BinaryOperation(Peek(s, 1), Peek(s, 0), op) : t = Advance(Pushed(u, r), 1)
      BY <3>1, Zenon DEF BinaryArithmetic
    <3>3. ASSUME ~(Len(s.stack) < 2), ~(op > 17),
                 NEW r \in BinaryOperation(Peek(s, 1), Peek(s, 0), op)
          PROVE  Typed(Pushed(u, r))
      <4>1. Typed(u)
        BY <3>3, <2>l, CheckedKeepsType, HelpersKeepType
      <4>2. r \in Values
        <5>1. Peek(s, 1) \in Values /\ Peek(s, 0) \in Values /\ op \in Nat /\ op <= 17
          BY <3>3, <2>l, <2>w
        <5> HIDE DEF op
        <5> QED BY <5>1, <3>3, BinaryOperationValues
      <4> QED BY <4>1, <4>2, HelpersKeepType
    <3> HIDE DEF u, op
    <3> QED BY <3>2, <3>3, <1>f, <2>a
  <2>9. CASE Op(Word(s)) = 9
    <3>1. t = Jumped(s, Imm12(Word(s)))
      BY <1>n, <2>9, Dispatch DEF Jump
    <3> QED BY <3>1, <2>w, HelpersKeepType
  <2>10. CASE Op(Word(s)) = 10
    <3> DEFINE op == Word(s) % 256
               disp(r) == IF TakesBody(Word(s), ConditionHolds(r)) THEN 2 ELSE Int16(Operand(s, 1))
               u == Popped(Checked(s), 2)
    <3>1. t \in ConditionalBranch(s)
      BY <1>n, <2>10, Dispatch
    <3>2. \/ t \in {Fault(s, "stack underflow"), Fault(s, "unknown binary operator")}
          \/ /\ ~(Len(s.stack) < 2)
             /\ \E r : t = Jumped(Remember(u, ConditionHolds(r)), disp(r))
      BY <3>1, Zenon DEF ConditionalBranch
    <3>3. ASSUME ~(Len(s.stack) < 2), NEW r
          PROVE  Typed(Jumped(Remember(u, ConditionHolds(r)), disp(r)))
      <4>1. Typed(u)
        BY <3>3, <2>l, CheckedKeepsType, HelpersKeepType
      <4>2. u.pc \in Addrs
        BY <2>p, CheckedKeepsType, PoppedIsPopped
      <4>3. disp(r) \in Int
        BY <2>10, <2>p, <2>q, OperandsAreWords, WordBounds, WordRanges
      <4> HIDE DEF u, disp
      <4>4. Typed(Remember(u, ConditionHolds(r)))
        BY <4>1, <4>2, HelpersKeepType
      <4> QED BY <4>3, <4>4, HelpersKeepType
    <3> HIDE DEF u, disp
    <3> QED BY <3>2, <3>3, <1>f
  <2>11. CASE Op(Word(s)) = 11
    <3>1. t \in {Fault(s, "emit buffer too long"), Fault(s, "wild access"), Advance(s, 3)}
      BY <1>n, <2>11, Dispatch DEF Emit
    <3> QED BY <3>1, <1>f, <2>a
  <2>12. CASE Op(Word(s)) = 12
    <3> DEFINE id == Low(Word(s))
               u == Popped(s, NativePops[id])
    <3>1. t \in NativeCall(s)
      BY <1>n, <2>12, Dispatch
    <3>2. \/ \E what : t = Fault(s, what)
          \/ /\ id \in DOMAIN NativePops /\ ~(Len(s.stack) < NativePops[id])
             /\ \/ t = Advance(ErrorStop(u, "node"), 1)
                \/ \E W : \E f \in [W -> NativeValues] :
                      t = Advance([u EXCEPT !.variables = Overwritten(@, f)], 1)
      BY <3>1, NativeOutcome, Zenon
    <3>3. ASSUME id \in DOMAIN NativePops, ~(Len(s.stack) < NativePops[id])
          PROVE  /\ Typed(ErrorStop(u, "node"))
                 /\ \A W : \A f \in [W -> NativeValues] :
                       Typed([u EXCEPT !.variables = Overwritten(@, f)])
      <4>1. NativePops[id] \in Nat /\ NativePops[id] <= Len(s.stack)
        BY <3>3, <2>l, SizesAssumption
      <4>2. Typed(u)
        BY <4>1, HelpersKeepType
      <4>3. \A W : \A f \in [W -> NativeValues] : f \in [W -> Values]
        BY SizesAssumption
      <4> HIDE DEF u
      <4> QED BY <4>2, <4>3, HelpersKeepType DEF Errors
    <3> HIDE DEF u
    <3> QED BY <3>2, <3>3, <1>f, <2>a
  <2>13. CASE Op(Word(s)) = 13
    <3> DEFINE u == Pushed(s, Int16(s.pc + 1))
    <3>1. t = Fault(s, "stack overflow") \/ t = [u EXCEPT !.pc = Low(Word(s))]
      <4>1. t \in SubCall(s)
        BY <1>n, <2>13, Dispatch
      <4> QED BY <4>1, Zenon DEF SubCall
    <3>2. Typed(u)
      BY <2>p, WordRanges, HelpersKeepType
    <3>3. Typed([u EXCEPT !.pc = Low(Word(s))])
      BY <3>2, <2>w, FieldsKeepType
    <3> HIDE DEF u
    <3> QED BY <3>1, <3>3, <1>f
  <2>14. CASE Op(Word(s)) = 14
    <3> DEFINE u == Popped(s, 1)
    <3>1. \/ t = Fault(s, "stack underflow")
          \/ ~(Len(s.stack) < 1) /\ t = [u EXCEPT !.pc = UInt16(Peek(s, 0))]
      <4>1. t \in SubRet(s)
        BY <1>n, <2>14, Dispatch
      <4> QED BY <4>1, Zenon DEF SubRet
    <3>2. ~(Len(s.stack) < 1) => Typed(u) /\ UInt16(Peek(s, 0)) \in Words
      BY <2>l, <2>u, HelpersKeepType
    <3>3. ~(Len(s.stack) < 1) => Typed([u EXCEPT !.pc = UInt16(Peek(s, 0))])
      BY <3>2, FieldsKeepType
    <3> HIDE DEF u
    <3> QED BY <3>1, <3>3, <1>f
  <2>15. CASE Op(Word(s)) \notin {0, 1, 2, 3, 4, 5, 6, 7, 8, 9, 10, 11, 12, 13, 14}
    <3>1. t = Fault(s, "unknown bytecode")
      BY <1>n, <2>15, Dispatch
    <3> QED BY <3>1, <1>f
  <2> QED BY <2>0, <2>1, <2>2, <2>3, <2>4, <2>5, <2>6, <2>7, <2>8, <2>9, <2>10, <2>11, <2>12,
             <2>13, <2>14, <2>15
<1> QED BY <1>b, <1>n

LEMMA LeastNumber ==
  ASSUME NEW T \in SUBSET Nat, T # {} PROVE Min(T) \in T
<1>1. IsWellFoundedOn(OpToRel(<, Nat), Nat)
  BY NatLessThanWellFounded
<1>2. PICK x \in T : \A y \in T : ~ (<<y, x>> \in OpToRel(<, Nat))
  BY <1>1, WFMin
<1>3. \A y \in T : ~ (y < x)
  BY <1>2 DEF OpToRel
<1>4. \A y \in T : x =< y
  BY <1>3
<1> QED BY <1>4 DEF Min

\* An entry of the event vector table, or 0.
LEMMA EventAddressIsWord ==
  ASSUME NEW s, Typed(s), NEW e
  PROVE  GetEventAddress(s, e) \in Words
<1> DEFINE hits == {i \in Addrs : /\ i % 2 = 1 /\ i < s.bytecode[0] /\ i + 1 \in Addrs
                                 /\ s.bytecode[i] = e}
<1>1. GetEventAddress(s, e) = IF hits = {} THEN 0 ELSE s.bytecode[Min(hits) + 1]
  BY DEF GetEventAddress
<1>2. hits \subseteq Nat
  BY DEF Addrs
<1>3. hits # {} => Min(hits) \in hits
  BY <1>2, LeastNumber
<1>4. hits # {} => Min(hits) + 1 \in Addrs
  BY <1>3
<1>5. 0 \in Words
  BY WordBounds
<1> QED BY <1>1, <1>4, <1>5 DEF Typed

LEMMA SetupKeepsType ==
  ASSUME NEW s, Typed(s), NEW e
  PROVE  Typed(SetupEvent(s, e))
<1> DEFINE a == GetEventAddress(s, e)
           k == IF "active" \in s.flags THEN SayKilled(s) ELSE s
           u == EnterEvent(k, a)
<1>1. Typed(k)
  BY HelpersKeepType
<1>2. Typed(u)
  <2> DEFINE v == [k EXCEPT !.pc = a]
             w == [v EXCEPT !.stack = <<>>]
  <2>1. a \in Words
    BY EventAddressIsWord
  <2> HIDE DEF a, k
  <2>2. Typed(v)
    BY <1>1, <2>1, FieldsKeepType
  <2>3. <<>> \in Seq(Values)
    OBVIOUS
  <2>4. Typed(w)
    BY <2>2, <2>3, FieldsKeepType
  <2>5. w.flags \cup {"active"} \in SUBSET FlagSet
    BY <2>4 DEF Typed, FlagSet
  <2>6. u = [w EXCEPT !.flags = w.flags \cup {"active"}]
    BY <1>1 DEF EnterEvent, Typed, IsState, Fields
  <2> HIDE DEF w, u
  <2> QED BY <2>4, <2>5, <2>6, FieldsKeepType
<1>3. SetupEvent(s, e) \in {s, SayState(u), u}
  BY DEF SetupEvent
<1> HIDE DEF u
<1> QED BY <1>2, <1>3, HelpersKeepType

LEMMA ResetKeepsType ==
  ASSUME NEW s, Typed(s)
  PROVE  Typed(Reset(s))
<1> DEFINE code == ResetWhenFlags(s.bytecode)
           u == [s EXCEPT !.flags = {"step"}]
           t == ResetFlags(s)
<1>1. code \in [Addrs -> Words]
  <2>1. \A a \in Addrs : s.bytecode[a] \in Words
    BY DEF Typed
  <2>2. \A a \in Addrs : SetWasTrue(s.bytecode[a], FALSE) \in Words
    BY <2>1, WasTrueIsWord
  <2> QED BY <2>1, <2>2 DEF ResetWhenFlags
<1> HIDE DEF code
<1>2. Typed(u)
  BY FieldsKeepType DEF FlagSet
<1>3. t = [u EXCEPT !.bytecode = code]
  BY DEF ResetFlags, code, Typed, IsState, Fields
<1> HIDE DEF u
<1>4. Typed(t)
  BY <1>1, <1>2, <1>3, FieldsKeepType
<1>5. Reset(s) \in {SayState(t), SetupEvent(t, EventInit)}
  BY DEF Reset
<1> HIDE DEF t
<1> QED BY <1>4, <1>5, HelpersKeepType, SetupKeepsType

\* The words a chunk holds are words of a program.
LEMMA ChunkWords ==
  ASSUME NEW p \in Programs, NEW c \in Chunks(p)
  PROVE  \A i \in DOMAIN c.words : c.words[i] \in Words
BY ChunksHoldWords

LEMMA WrittenKeepsType ==
  ASSUME NEW s, Typed(s), NEW c, \A i \in DOMAIN c.words : c.words[i] \in Words
  PROVE  Typed(Written(s, c))
<1> DEFINE code == [a \in Addrs |-> IF a - c.start + 1 \in DOMAIN c.words
                                   THEN c.words[a - c.start + 1] ELSE s.bytecode[a]]
<1>1. code \in [Addrs -> Words]
  BY DEF Typed
<1> DEFINE u == [s EXCEPT !.bytecode = code]
<1>2. Typed(u)
  BY <1>1, FieldsKeepType
<1>3. \E what : Written(s, c) = [u EXCEPT !.fault = what]
  BY DEF Written, Typed, IsState, Fields
<1> HIDE DEF code, u
<1>4. \A what : Typed([u EXCEPT !.fault = what])
  BY <1>2, FieldsKeepType
<1> QED BY <1>3, <1>4

\* AsebaVMClearBreakpoint
LEMMA RemoveFirstSeq ==
  ASSUME NEW S, NEW s \in Seq(S), NEW e
  PROVE  RemoveFirst(s, e) \in Seq(S) /\ Len(RemoveFirst(s, e)) <= Len(s)
<1>1. CASE ~ \E i \in 1..Len(s) : s[i] = e
  BY <1>1 DEF RemoveFirst
<1>2. CASE \E i \in 1..Len(s) : s[i] = e
  <2> DEFINE I == {i \in 1..Len(s) : s[i] = e}
             k == Min(I)
  <2>1. I # {} /\ I \in SUBSET Nat
    BY <1>2
  <2>2. k \in 1..Len(s)
    BY <2>1, LeastNumber
  <2>3. RemoveFirst(s, e) = RemoveAt(s, k)
    BY <1>2, <2>1 DEF RemoveFirst, SelectInSeq
  <2> HIDE DEF k
  <2> DEFINE before == SubSeq(s, 1, k - 1)
             behind == SubSeq(s, k + 1, Len(s))
  <2>4. /\ before \in Seq(S) /\ Len(before) = k - 1
        /\ behind \in Seq(S) /\ Len(behind) = Len(s) - k
    BY <2>2
  <2>5. RemoveFirst(s, e) = before \o behind
    BY <2>3 DEF RemoveAt
  <2> HIDE DEF before, behind
  <2>6. before \o behind \in Seq(S) /\ Len(before \o behind) = Len(before) + Len(behind)
    BY <2>4
  <2> QED BY <2>2, <2>4, <2>5, <2>6
<1> QED BY <1>1, <1>2

\* TypeOK, with the fields of the record.
TypeInv ==
  /\ Typed(vm)
  /\ run \in {"idle", "pending", "bare", "breakpoint"}
  /\ left \in 0..StepsLimit
  /\ upload \subseteq UNION {Chunks(p) : p \in Programs}
  /\ loaded \in Programs \cup {<<>>}
  /\ edge \in [Addrs -> BOOLEAN]

LEMMA TypesInitially == Init => TypeInv
<1> SUFFICES ASSUME Init PROVE TypeInv
  OBVIOUS
<1>1. 0 \in Words /\ 0 \in Values /\ StepsLimit \in Nat
  BY WordBounds, SizesAssumption
<1>2. /\ [a \in Addrs |-> 0] \in [Addrs -> Words]
      /\ [a \in 0..(VariablesSize - 1) |-> 0] \in [0..(VariablesSize - 1) -> Values]
      /\ <<>> \in Seq(Values) /\ <<>> \in Seq(BreakpointPcs) /\ Len(<<>>) <= MaxBreakpoints
  BY <1>1, SizesAssumption
<1>3. Typed(vm)
  BY <1>1, <1>2 DEF Init, VMInit, Typed, IsState, Fields
<1>4. 0 \in 0..StepsLimit
  BY <1>1
<1> QED BY <1>3, <1>4 DEF Init, TypeInv

\* What a message has to leave, besides a typed machine.
LEMMA HandledKeepsType ==
  ASSUME TypeInv, Typed(vm'), run' \in {"idle", "pending"} \cup {run},
         upload' \subseteq upload, UNCHANGED <<left, loaded>>, edge' \in [Addrs -> BOOLEAN]
  PROVE  TypeInv'
BY DEF TypeInv

LEMMA ObserveKeepsType ==
  ASSUME edge \in [Addrs -> BOOLEAN] PROVE Observe(vm) \in [Addrs -> BOOLEAN]
BY DEF Observe

LEMMA MessageKeepsType ==
  ASSUME TypeInv, Message
  PROVE  TypeInv'
<1>s. Typed(vm) /\ edge \in [Addrs -> BOOLEAN]
  BY DEF TypeInv
<1>v. /\ \A a, v : v \in Values => Typed([vm EXCEPT !.variables[a] = v])
      /\ \A v \in ArgValues : v \in Values
  <2>1. \A a, v : v \in Values => Typed([vm EXCEPT !.variables[a] = v])
    BY <1>s, HelpersKeepType
  <2>2. \A v \in ArgValues : v \in Values
    BY SizesAssumption
  <2> QED BY <2>1, <2>2
<1>h. ASSUME NEW t, Typed(t), Handle(t), edge' \in [Addrs -> BOOLEAN] PROVE TypeInv'
  BY <1>h, HandledKeepsType DEF Handle
<1>f. ASSUME NEW F \in SUBSET FlagSet, Handle(SayState([vm EXCEPT !.flags = F])), UNCHANGED edge
      PROVE  TypeInv'
  <2>1. Typed([vm EXCEPT !.flags = F])
    BY <1>s, FieldsKeepType
  <2>2. Typed(SayState([vm EXCEPT !.flags = F]))
    BY <2>1, HelpersKeepType
  <2> QED BY <1>s, <1>f, <1>h, <2>2
<1>g. vm.flags \subseteq FlagSet /\ {"active", "step", "running"} = FlagSet
  BY <1>s DEF Typed, FlagSet
<1>1. CASE \E c \in upload : SetBytecode(c)
  <2>1. PICK c \in upload : SetBytecode(c)
    BY <1>1
  <2>2. PICK p \in Programs : c \in Chunks(p)
    BY DEF TypeInv
  <2>3. \A i \in DOMAIN c.words : c.words[i] \in Words
    BY <2>2, ChunkWords
  <2>4. Typed(Written(vm, c))
    BY <1>s, <2>3, WrittenKeepsType
  <2>5. Typed(Reset(Written(vm, c)))
    BY <2>4, ResetKeepsType
  <2>6. edge' \in [Addrs -> BOOLEAN]
    BY <2>1 DEF SetBytecode
  <2> QED BY <2>1, <2>5, <2>6, HandledKeepsType DEF SetBytecode
<1>2. CASE ResetMsg
  <2>1. Handle(Reset(vm)) /\ edge' \in [Addrs -> BOOLEAN]
    BY <1>2 DEF ResetMsg
  <2> QED BY <1>s, <2>1, <1>h, ResetKeepsType
<1>3. CASE RunMsg
  <2>1. Handle(SayState([vm EXCEPT !.flags = vm.flags \ {"step"}])) /\ UNCHANGED edge
    BY <1>3 DEF RunMsg
  <2> QED BY <1>f, <1>g, <2>1
<1>4. CASE Pause
  <2>1. Handle(SayState([vm EXCEPT !.flags = vm.flags \cup {"step"}])) /\ UNCHANGED edge
    BY <1>4 DEF Pause
  <2> QED BY <1>f, <1>g, <2>1
<1>5. CASE StepMsg
  <2>1. PICK t \in AsebaVMStep(vm) : Handle(SayState(t))
    BY <1>5 DEF StepMsg
  <2>2. Typed(SayState(t))
    BY <1>s, StepKeepsType, HelpersKeepType
  <2>3. edge' \in [Addrs -> BOOLEAN]
    BY <1>5, <1>s, ObserveKeepsType DEF StepMsg
  <2> QED BY <2>1, <2>2, <2>3, <1>h
<1>6. CASE StopMsg
  <2>1. Handle(SayState([vm EXCEPT !.flags = {"step"}])) /\ UNCHANGED edge
    BY <1>6 DEF StopMsg
  <2> QED BY <1>f, <1>g, <2>1
<1>7. CASE GetExecutionState
  <2>1. Handle(SayState(vm)) /\ UNCHANGED edge
    BY <1>7 DEF GetExecutionState
  <2> QED BY <2>1, <1>s, <1>h, HelpersKeepType
<1>b. ASSUME NEW b \in Seq(BreakpointPcs), Len(b) <= MaxBreakpoints
      PROVE  Typed([vm EXCEPT !.breakpoints = b])
  BY <1>s, <1>b DEF Typed, IsState, Fields
<1>c. vm.breakpoints \in Seq(BreakpointPcs) /\ Len(vm.breakpoints) <= MaxBreakpoints
  BY <1>s DEF Typed
<1>8. CASE \E pc \in BreakpointPcs : BreakpointSet(pc) \/ BreakpointClear(pc)
  <2>1. PICK pc \in BreakpointPcs : BreakpointSet(pc) \/ BreakpointClear(pc)
    BY <1>8
  <2>2. CASE BreakpointSet(pc)
    <3> DEFINE b == Append(vm.breakpoints, pc)
    <3>1. b \in Seq(BreakpointPcs) /\ Len(b) = Len(vm.breakpoints) + 1 /\ Len(vm.breakpoints) \in Nat
      BY <1>c
    <3>2. UNCHANGED edge /\ \/ \E what : Handle(Fault(vm, what))
                            \/ Handle(vm)
                            \/ Len(vm.breakpoints) < MaxBreakpoints /\ Handle([vm EXCEPT !.breakpoints = b])
      BY <2>2, BreakpointOutcome
    <3> HIDE DEF b
    <3>3. Len(vm.breakpoints) < MaxBreakpoints => Len(b) <= MaxBreakpoints
      BY <3>1, SizesAssumption
    <3>4. \A what : Typed(Fault(vm, what))
      BY <1>s, HelpersKeepType
    <3> QED BY <3>1, <3>2, <3>3, <3>4, <1>s, <1>b, <1>h
  <2>3. CASE BreakpointClear(pc)
    <3> DEFINE b == RemoveFirst(vm.breakpoints, pc)
    <3>1. b \in Seq(BreakpointPcs) /\ Len(b) <= Len(vm.breakpoints)
      BY <1>c, RemoveFirstSeq
    <3>2. UNCHANGED edge /\ Handle([vm EXCEPT !.breakpoints = b])
      BY <2>3 DEF BreakpointClear
    <3> HIDE DEF b
    <3>3. Len(b) <= MaxBreakpoints
      BY <3>1, <1>c, SizesAssumption
    <3> QED BY <3>1, <3>2, <3>3, <1>s, <1>b, <1>h
  <2> QED BY <2>1, <2>2, <2>3
<1>9. CASE BreakpointClearAll
  <2>1. <<>> \in Seq(BreakpointPcs) /\ Len(<<>>) <= MaxBreakpoints
    BY SizesAssumption
  <2>2. UNCHANGED edge /\ Handle([vm EXCEPT !.breakpoints = <<>>])
    BY <1>9 DEF BreakpointClearAll
  <2> QED BY <2>1, <2>2, <1>s, <1>b, <1>h
<1>10. CASE VariablesMsg
  <2>1. \A W : \A f \in [W -> ArgValues] : f \in [W -> Values]
    BY <1>v
  <2>2. \A W : \A f \in [W -> ArgValues] : Typed([vm EXCEPT !.variables = Overwritten(@, f)])
    BY <1>s, <2>1, HelpersKeepType
  <2>3. \A what : Typed(Fault(vm, what))
    BY <1>s, HelpersKeepType
  <2> QED BY <1>10, <1>s, <1>h, <2>2, <2>3, VariablesOutcome
<1>o. 0 \in Values /\ 1 \in Values
  BY WordBounds
<1>11. CASE \E e \in UserEvents, v \in ArgValues : UserEvent(e, v)
  <2>1. PICK e \in UserEvents, v \in ArgValues : UserEvent(e, v)
    BY <1>11
  <2> DEFINE t == [vm EXCEPT !.variables[SourceAddr] = 1]
             u == [t EXCEPT !.variables[SourceAddr + 1] = v]
  <2>2. Typed(t)
    BY <1>o, <1>v
  <2>3. Handle(SetupEvent(u, e)) /\ UNCHANGED edge
    BY <2>1 DEF UserEvent
  <2> HIDE DEF t
  <2>4. Typed(u)
    BY <1>v, <2>2, HelpersKeepType
  <2> HIDE DEF u
  <2>5. Typed(SetupEvent(u, e))
    BY <2>4, SetupKeepsType
  <2> QED BY <2>3, <2>5, <1>s, <1>h
<1>12. CASE \E e \in LocalEvents : LocalEvent(e)
  <2>1. PICK e \in LocalEvents : LocalEvent(e)
    BY <1>12
  <2> DEFINE t == [vm EXCEPT !.variables[SourceAddr] = 0]
  <2>2. Typed(t)
    BY <1>o, <1>v
  <2>3. Handle(SetupEvent(t, e)) /\ UNCHANGED edge
    BY <2>1 DEF LocalEvent
  <2> HIDE DEF t
  <2>4. Typed(SetupEvent(t, e))
    BY <2>2, SetupKeepsType
  <2> QED BY <2>3, <2>4, <1>s, <1>h
<1> QED
  BY <1>1, <1>2, <1>3, <1>4, <1>5, <1>6, <1>7, <1>8, <1>9, <1>10, <1>11, <1>12 DEF Message, VariablesMsg

LEMMA RunKeepsType ==
  ASSUME TypeInv, Run
  PROVE  TypeInv'
<1>s. Typed(vm) /\ edge \in [Addrs -> BOOLEAN]
  BY DEF TypeInv
<1>g. vm.flags \subseteq FlagSet /\ {"active", "step", "running"} = FlagSet
  BY <1>s DEF Typed, FlagSet
<1>f. \A F \in SUBSET FlagSet : Typed([vm EXCEPT !.flags = F])
  BY <1>s, FieldsKeepType
<1>1. CASE VMRun
  <2>1. StepsLimit \in 0..StepsLimit
    BY SizesAssumption
  <2>2. Typed([vm EXCEPT !.flags = vm.flags \cup {"running"}])
    BY <1>f, <1>g
  <2>3. Typed(vm')
    BY <1>1, <1>s, <2>2 DEF VMRun
  <2>4. left' \in 0..StepsLimit /\ run' \in {"idle", "bare", "breakpoint"}
    BY <1>1, <2>1 DEF VMRun, TypeInv
  <2>5. UNCHANGED <<upload, loaded, edge>>
    BY <1>1 DEF VMRun
  <2> QED BY <2>3, <2>4, <2>5 DEF TypeInv
<1>2. CASE HitBreakpoint
  <2> DEFINE t == [vm EXCEPT !.flags = vm.flags \cup {"step"}]
  <2>1. Typed(t)
    BY <1>f, <1>g
  <2>2. vm' = SayState(t) /\ run' = "idle" /\ UNCHANGED <<left, edge, upload, loaded>>
    BY <1>2 DEF HitBreakpoint, PausedAtBreakpoint, InLoop
  <2> HIDE DEF t
  <2>3. Typed(vm')
    BY <2>1, <2>2, HelpersKeepType
  <2> QED BY <2>2, <2>3, <1>s, HandledKeepsType
<1>3. CASE LoopStep
  <2>1. UNCHANGED <<upload, loaded>> /\ edge' = Observe(vm)
    BY <1>3 DEF LoopStep, InLoop
  <2>2. edge' \in [Addrs -> BOOLEAN]
    BY <2>1, <1>s, ObserveKeepsType
  <2>3. left' \in 0..StepsLimit
    <3>1. left \in 0..StepsLimit /\ StepsLimit \in Nat /\ (StepsLimit > 0 => left > 0)
      BY <1>3, SizesAssumption DEF LoopStep, LoopCondition, TypeInv
    <3> QED BY <3>1, <1>3 DEF LoopStep, CountedDown
  <2>4. PICK t \in AsebaVMStep(vm) :
          IF StepsLimit > 0 /\ left' = 0
          THEN vm' = [KillSlowEvent(t) EXCEPT !.flags = @ \ {"running"}] /\ run' = "idle"
          ELSE vm' = t /\ run' = run
    BY <1>3 DEF LoopStep
  <2>5. Typed(t)
    BY <1>s, StepKeepsType
  <2>6. Typed([KillSlowEvent(t) EXCEPT !.flags = @ \ {"running"}])
    <3> DEFINE k == [t EXCEPT !.flags = @ \ {"active"}]
               u == SayKilled(k)
    <3>1. t.flags \ {"active"} \in SUBSET FlagSet
      BY <2>5 DEF Typed
    <3>2. Typed(k)
      BY <2>5, <3>1, FieldsKeepType
    <3> HIDE DEF k
    <3>3. Typed(u)
      BY <3>2, HelpersKeepType
    <3>4. KillSlowEvent(t) = u
      BY DEF KillSlowEvent, k
    <3> HIDE DEF u
    <3>5. u.flags \ {"running"} \in SUBSET FlagSet
      BY <3>3 DEF Typed
    <3> QED BY <3>3, <3>4, <3>5, FieldsKeepType
  <2>7. Typed(vm') /\ run' \in {"idle"} \cup {run}
    BY <2>4, <2>5, <2>6
  <2> QED BY <2>1, <2>2, <2>3, <2>7 DEF TypeInv
<1>4. CASE LoopEnd
  <2>1. vm.flags \ {"running"} \in SUBSET FlagSet
    BY <1>g
  <2>2. /\ vm' = [vm EXCEPT !.flags = vm.flags \ {"running"}] /\ run' = "idle"
        /\ UNCHANGED <<left, edge, upload, loaded>>
    BY <1>4 DEF LoopEnd, InLoop
  <2> QED BY <2>1, <2>2, <1>f, <1>s, HandledKeepsType
<1> QED BY <1>1, <1>2, <1>3, <1>4 DEF Run

LEMMA NextKeepsType == TypeInv /\ [Next]_vars => TypeInv'
<1> SUFFICES ASSUME TypeInv, [Next]_vars PROVE TypeInv'
  OBVIOUS
<1>1. CASE Run
  BY <1>1, RunKeepsType
<1>2. CASE Message
  BY <1>2, MessageKeepsType
<1>3. CASE \E p \in Programs : Upload(p)
  <2>1. PICK p \in Programs : Upload(p)
    BY <1>3
  <2>2. upload' \subseteq UNION {Chunks(q) : q \in Programs} /\ loaded' \in Programs
    BY <2>1 DEF Upload
  <2>3. UNCHANGED <<vm, run, left, edge>>
    BY <2>1 DEF Upload
  <2> QED BY <2>2, <2>3 DEF TypeInv
<1>4. CASE UNCHANGED vars
  BY <1>4 DEF vars, TypeInv
<1> QED BY <1>1, <1>2, <1>3, <1>4 DEF Next

\* Whatever a program computes and however it is interrupted, what the machine holds keeps
\* the width the C structure gives it: the bytecode and the pc are unsigned 16-bit words,
\* the variables and the stack signed ones (AsebaVMState), the breakpoints fit their table
\* and the steps left never leave 0..stepsLimit.
THEOREM TypeOKAlways == Spec => []TypeOK
<1>1. TypeInv => TypeOK
  BY DEF TypeInv, Typed, TypeOK
<1>2. Spec => []TypeInv
  BY TypesInitially, NextKeepsType, PTL DEF Spec
<1> QED BY <1>1, <1>2, PTL

-----------------------------------------------------------------------------
(* Programs the compiler lets go *)

\* The execution stack of the machine s is that of the layout l: the return addresses of
\* the calls in progress, each behind a statement of its caller, then the operands.
Within(m, level) == m <= level /\ (level > 0 => m > 0)

Frames(stack, m, l) ==
  \A i \in 1..m : /\ UInt16(stack[i]) \in DOMAIN l /\ l[UInt16(stack[i])].depth = 0
                  /\ Within(i - 1, l[UInt16(stack[i])].level)

\* q is a program the compiler lets go, as l lays it out.
Good(q, l) == q \in Seq(Words) /\ Unremembered(q) /\ Verified(q, l)

\* The operands the compiler knows are what it takes them for.
Recalled(stack, m, known) == \A j \in DOMAIN known : stack[m + j] = known[j]

InPlace(s, l) ==
  /\ s.pc \in DOMAIN l
  /\ \E m \in Nat : /\ Within(m, l[s.pc].level)
                    /\ Len(s.stack) = m + l[s.pc].depth
                    /\ Frames(s.stack, m, l)
                    /\ Recalled(s.stack, m, l[s.pc].known)

\* Where no operand is on the stack none is known.
LEMMA NothingToRecall ==
  ASSUME NEW q, NEW l, Good(q, l), NEW a \in DOMAIN l, l[a].depth = 0, NEW stack, NEW m
  PROVE  Recalled(stack, m, l[a].known)
<1>1. DOMAIN l[a].known \subseteq 1..0
  BY DEF Good, Verified
<1>2. 1..0 = {}
  OBVIOUS
<1> QED BY <1>1, <1>2, Zenon DEF Recalled

\* The machine holds q, but for the was-true bits of branches that were executed.
Intact(s, q, l) ==
  \A a \in 0..(Len(q) - 1) :
     \/ s.bytecode[a] = q[a + 1]
     \/ a \in DOMAIN l /\ Op(q[a + 1]) = 10 /\ s.bytecode[a] = SetWasTrue(q[a + 1], TRUE)

LEMMA WasTrueBitIs ==
  ASSUME NEW v \in Int
  PROVE  /\ Bit(v, WasTrueBit) = (v \div 512) % 2
         /\ (v \div 512) % 2 = 0 \/ (v \div 512) % 2 = 1
<1>1. 2 ^ 9 = 512
  OBVIOUS
<1>2. Bit(v, WasTrueBit) = (v \div 512) % 2
  BY <1>1 DEF Bit, WasTrueBit
<1>3. (v \div 512) % 2 = 0 \/ (v \div 512) % 2 = 1
  OBVIOUS
<1> QED BY <1>2, <1>3

LEMMA WasTrueIsClear ==
  ASSUME NEW v \in Int, (v \div 512) % 2 = 0
  PROVE  SetWasTrue(v, TRUE) = v + 512 /\ SetWasTrue(v, FALSE) = v
<1>1. Bit(v, WasTrueBit) = 0
  BY WasTrueBitIs
<1>2. SetWasTrue(v, TRUE) = v + 1 * 512
  BY <1>1 DEF SetWasTrue
<1>3. SetWasTrue(v, FALSE) = v + (-0) * 512
  BY <1>1 DEF SetWasTrue
<1>4. v + 1 * 512 = v + 512 /\ v + (-0) * 512 = v
  OBVIOUS
<1> QED BY <1>2, <1>3, <1>4, Zenon

LEMMA WasTrueIsSet ==
  ASSUME NEW v \in Int, (v \div 512) % 2 = 1
  PROVE  SetWasTrue(v, TRUE) = v /\ SetWasTrue(v, FALSE) = v - 512
<1>1. Bit(v, WasTrueBit) = 1
  BY WasTrueBitIs
<1>2. SetWasTrue(v, TRUE) = v + 0 * 512
  BY <1>1 DEF SetWasTrue
<1>3. SetWasTrue(v, FALSE) = v + (-1) * 512
  BY <1>1 DEF SetWasTrue
<1>4. v + 0 * 512 = v /\ v + (-1) * 512 = v - 512
  OBVIOUS
<1> QED BY <1>2, <1>3, <1>4, Zenon

\* Setting or clearing the was-true bit of a branch changes nothing else of it.
LEMMA WasTrueParts ==
  ASSUME NEW w \in Words, Op(w) = 10
  PROVE  /\ \A b \in BOOLEAN : Op(SetWasTrue(w, b)) = 10 /\ SetWasTrue(w, b) % 256 = w % 256
         /\ SetWasTrue(SetWasTrue(w, TRUE), TRUE) = SetWasTrue(w, TRUE)
         /\ Bit(w, WasTrueBit) = 0 => /\ SetWasTrue(w, FALSE) = w
                                      /\ SetWasTrue(SetWasTrue(w, TRUE), FALSE) = w
<1>1. w \in Int /\ w \div 4096 = 10
  BY WordBounds DEF Op
<1>i. w \in Int
  BY <1>1
<1>3. /\ Bit(w, WasTrueBit) = (w \div 512) % 2
      /\ (w \div 512) % 2 = 0 \/ (w \div 512) % 2 = 1
  BY <1>i, WasTrueBitIs
<1> DEFINE t == SetWasTrue(w, TRUE)
           f == SetWasTrue(w, FALSE)
           tt == SetWasTrue(t, TRUE)
           tf == SetWasTrue(t, FALSE)
           Goal == /\ t \div 4096 = 10 /\ f \div 4096 = 10 /\ t % 256 = w % 256 /\ f % 256 = w % 256
                   /\ tt = t
                   /\ Bit(w, WasTrueBit) = 0 => f = w /\ tf = w
<1>4. ASSUME (w \div 512) % 2 = 0 PROVE Goal
  <2>1. t = w + 512 /\ f = w
    BY <1>i, <1>4, WasTrueIsClear, Zenon
  <2> HIDE DEF t, f
  <2>2. t \div 4096 = 10 /\ t % 256 = w % 256
    BY <1>1, <1>4, <2>1
  <2>3. (t \div 512) % 2 = 1 /\ t \in Int
    BY <1>1, <1>4, <2>1
  <2>4. tt = t /\ tf = t - 512
    BY <2>3, WasTrueIsSet, Zenon
  <2> HIDE DEF tt, tf
  <2> QED BY <1>1, <2>1, <2>2, <2>4
<1>5. ASSUME (w \div 512) % 2 = 1 PROVE Goal
  <2>1. t = w /\ f = w - 512
    BY <1>i, <1>5, WasTrueIsSet, Zenon
  <2>2. tt = t
    BY <2>1
  <2> HIDE DEF t, f, tt, tf
  <2>3. f \div 4096 = 10 /\ f % 256 = w % 256
    BY <1>1, <1>5, <2>1
  <2>4. Bit(w, WasTrueBit) = 1
    BY <1>3, <1>5
  <2> QED BY <1>1, <2>1, <2>2, <2>3, <2>4
<1> HIDE DEF Goal
<1>6. Goal
  BY <1>3, <1>4, <1>5
<1>7. \A b \in BOOLEAN : SetWasTrue(w, b) = t \/ SetWasTrue(w, b) = f
  BY Zenon DEF t, f
<1> HIDE DEF t, f, tt, tf
<1>8. t \div 4096 = 10 /\ f \div 4096 = 10 /\ t % 256 = w % 256 /\ f % 256 = w % 256
  BY <1>6 DEF Goal
<1>9. /\ tt = t
      /\ Bit(w, WasTrueBit) = 0 => f = w /\ tf = w
  BY <1>6 DEF Goal
<1>10. Op(t) = 10 /\ Op(f) = 10 /\ t % 256 = w % 256 /\ f % 256 = w % 256
  BY <1>8 DEF Op
<1>11. \A b \in BOOLEAN : Op(SetWasTrue(w, b)) = 10 /\ SetWasTrue(w, b) % 256 = w % 256
  BY <1>7, <1>10, Zenon
<1> QED BY <1>9, <1>11, Zenon DEF t, f, tt, tf

\* What the machine fetches is the instruction of the program, and its operands.
LEMMA Fetched ==
  ASSUME NEW s, Typed(s), NEW q, NEW l, Good(q, l), Intact(s, q, l), s.pc \in DOMAIN l
  PROVE  /\ s.pc \in Addrs /\ s.pc + Width(Word(s)) <= BytecodeSize /\ At(q, s.pc) \in Words
         /\ Op(Word(s)) = Op(At(q, s.pc)) /\ Word(s) % 256 = At(q, s.pc) % 256
         /\ Op(Word(s)) # 10 => Word(s) = At(q, s.pc)
         /\ Width(Word(s)) > 1 => Operand(s, 1) = At(q, s.pc + 1)
         /\ Width(Word(s)) > 2 => Operand(s, 2) = At(q, s.pc + 2)
         /\ Checks(q, l, s.pc)
<1> DEFINE a == s.pc
           v == At(q, a)
<1>1. /\ Checks(q, l, a) /\ a \in Nat /\ Len(q) \in Nat /\ Len(q) <= BytecodeSize
      /\ q \in Seq(Words) /\ BytecodeSize \in Nat /\ q # <<>>
  BY SizesAssumption DEF Good, Verified
<1>2. /\ a + Width(v) <= Len(q)
      /\ \A k \in {1, 2} : k < Width(v) => a + k \notin DOMAIN l
  BY <1>1 DEF Checks, Placed
<1>3. Width(v) \in {1, 2, 3} /\ Width(Word(s)) \in {1, 2, 3}
  BY DEF Width
<1>4. \A k \in {0, 1, 2} : k < Width(v) => a + k \in 0..(Len(q) - 1)
  BY <1>1, <1>2, <1>3
<1>0. a \in 0..(Len(q) - 1)
  BY <1>1, <1>2, <1>3
<1>5. v \in Words
  <2>1. a + 1 \in 1..Len(q)
    BY <1>0, <1>1
  <2> QED BY <1>1, <2>1 DEF At
<1>6. \/ Word(s) = v
      \/ Op(v) = 10 /\ Word(s) = SetWasTrue(v, TRUE)
  BY <1>0 DEF Intact, Word, At
<1>7. Op(Word(s)) = Op(v) /\ Word(s) % 256 = v % 256
  <2>1. Op(v) = 10 => /\ Op(SetWasTrue(v, TRUE)) = 10
                      /\ SetWasTrue(v, TRUE) % 256 = v % 256
    BY <1>5, WasTrueParts, Zenon
  <2> QED BY <1>6, <2>1, Zenon
<1>8. Width(Word(s)) = Width(v)
  BY <1>7 DEF Width
<1>9. \A k \in {1, 2} : k < Width(v) => Operand(s, k) = At(q, a + k)
  <2>1. ASSUME NEW k \in {1, 2}, k < Width(v) PROVE Operand(s, k) = At(q, a + k)
    <3>1. a + k \in 0..(Len(q) - 1) /\ a + k \notin DOMAIN l
      BY <2>1, <1>2, <1>4
    <3> QED BY <3>1 DEF Intact, Operand, At
  <2> QED BY <2>1
<1>10. a \in Addrs /\ a + Width(v) <= BytecodeSize
  BY <1>1, <1>2, <1>3 DEF Addrs
<1> QED BY <1>1, <1>3, <1>5, <1>6, <1>7, <1>8, <1>9, <1>10

\* The stack after an instruction that goes on in the same event or subroutine.
LEMMA Proceeds ==
  ASSUME NEW s, NEW t, NEW q, NEW l, Good(q, l), InPlace(s, l), Len(s.stack) \in Nat,
         t.pc \in Following(q, s.pc),
         Taken(At(q, s.pc)) \in Nat, Given(At(q, s.pc)) \in Nat,
         Len(t.stack) = Len(s.stack) - Taken(At(q, s.pc)) + Given(At(q, s.pc)),
         \A i \in 1..(Len(s.stack) - Taken(At(q, s.pc))) : t.stack[i] = s.stack[i],
         \A x \in Immediate(q, s.pc) : t.stack[Len(t.stack)] = x
  PROVE  InPlace(t, l)
<1> DEFINE taken == Taken(At(q, s.pc))
           given == Given(At(q, s.pc))
<1>1. PICK m \in Nat : /\ Within(m, l[s.pc].level) /\ Len(s.stack) = m + l[s.pc].depth
                       /\ Frames(s.stack, m, l)
                       /\ Recalled(s.stack, m, l[s.pc].known)
  BY DEF InPlace
<1>2. s.pc \in DOMAIN l /\ Checks(q, l, s.pc)
  BY DEF InPlace, Good, Verified
<1>3. /\ taken <= l[s.pc].depth
      /\ t.pc \in DOMAIN l /\ l[t.pc].level = l[s.pc].level
      /\ l[t.pc].depth = l[s.pc].depth - taken + given
      /\ KnownAfter(q, l, s.pc, t.pc)
  BY <1>2 DEF Checks
<1>4. l[s.pc].depth \in Nat /\ DOMAIN l[s.pc].known \subseteq 1..l[s.pc].depth
  BY <1>2 DEF Good, Verified
<1>i. Immediate(q, s.pc) # {} => given = 1
  BY DEF Immediate, Given
<1> DEFINE kept == l[s.pc].depth - taken
<1>k. \A j \in DOMAIN l[t.pc].known :
        \/ j <= kept /\ j \in DOMAIN l[s.pc].known /\ l[t.pc].known[j] = l[s.pc].known[j]
        \/ j = kept + 1 /\ l[t.pc].known[j] \in Immediate(q, s.pc)
  BY <1>3 DEF KnownAfter
<1> HIDE DEF taken, given
<1>5. taken \in Nat /\ given \in Nat /\ Len(t.stack) = Len(s.stack) - taken + given
  BY DEF taken, given
<1>6. Len(t.stack) = m + l[t.pc].depth
  <2> DEFINE d == l[s.pc].depth
             h == Len(s.stack)
  <2>1. /\ h = m + d /\ d \in Nat /\ Len(t.stack) = h - taken + given
        /\ l[t.pc].depth = d - taken + given
    BY <1>1, <1>3, <1>4, <1>5
  <2> HIDE DEF d, h
  <2>2. h - taken + given = m + (d - taken + given)
    BY <1>5, <2>1
  <2> QED BY <2>1, <2>2
<1>7. \A i \in 1..m : t.stack[i] = s.stack[i]
  <2>1. m <= Len(s.stack) - taken
    BY <1>1, <1>3, <1>4, <1>5
  <2>2. ASSUME NEW i \in 1..m PROVE t.stack[i] = s.stack[i]
    <3>1. i \in 1..(Len(s.stack) - taken)
      BY <2>1, <1>5
    <3> QED BY <3>1 DEF taken
  <2> QED BY <2>2
<1>8. Frames(t.stack, m, l)
  BY <1>1, <1>7 DEF Frames
<1>9. Recalled(t.stack, m, l[t.pc].known)
  <2> SUFFICES ASSUME NEW j \in DOMAIN l[t.pc].known PROVE t.stack[m + j] = l[t.pc].known[j]
    BY DEF Recalled
  <2>1. CASE j <= kept /\ j \in DOMAIN l[s.pc].known /\ l[t.pc].known[j] = l[s.pc].known[j]
    <3>0. j \in Nat /\ 1 <= j
      BY <1>4, <2>1
    <3>1. m + j \in 1..(Len(s.stack) - taken)
      <4> DEFINE d == l[s.pc].depth
                 h == Len(s.stack)
      <4>1. h = m + d /\ d \in Nat /\ j <= d - taken
        BY <1>1, <1>4, <2>1
      <4> HIDE DEF d, h
      <4>2. m + j \in 1..(h - taken)
        BY <1>5, <3>0, <4>1
      <4> QED BY <4>2 DEF h
    <3>2. t.stack[m + j] = s.stack[m + j]
      BY <3>1 DEF taken
    <3> QED BY <1>1, <2>1, <3>2 DEF Recalled
  <2>2. CASE j = kept + 1 /\ l[t.pc].known[j] \in Immediate(q, s.pc)
    <3>1. given = 1
      BY <1>i, <2>2
    <3>2. Len(t.stack) = m + j
      BY <1>1, <1>4, <1>5, <2>2, <3>1
    <3> QED BY <2>2, <3>2
  <2> QED BY <1>k, <2>1, <2>2
<1> QED BY <1>1, <1>3, <1>6, <1>8, <1>9 DEF InPlace

\* From s to t the pc stays, some operands are taken from the stack and some are left.
Moved(s, t, taken, given) ==
  /\ IsState(t) /\ t.pc = s.pc /\ t.fault = s.fault
  /\ Len(t.stack) = Len(s.stack) - taken + given
  /\ \A i \in 1..(Len(s.stack) - taken) : t.stack[i] = s.stack[i]

LEMMA MovesCompose ==
  ASSUME NEW s, NEW u, NEW t, NEW n \in Nat, NEW k \in Nat, Len(s.stack) \in Nat,
         Moved(s, u, n, 0), Moved(u, t, 0, k)
  PROVE  Moved(s, t, n, k)
BY DEF Moved

LEMMA StackMoves ==
  ASSUME NEW s, Typed(s)
  PROVE  /\ \A v : Len(s.stack) < StackSize => Moved(s, Pushed(s, v), 0, 1)
         /\ \A n \in Nat : n <= Len(s.stack) => Moved(s, Popped(s, n), n, 0)
         /\ \A v : Len(s.stack) >= 1 => Moved(s, [s EXCEPT !.stack[Len(s.stack)] = v], 1, 1)
<1>1. s.stack \in Seq(Values) /\ IsState(s) /\ Len(s.stack) \in Nat /\ StackSize \in Nat
  BY SizesAssumption DEF Typed
<1>2. ASSUME NEW v, Len(s.stack) < StackSize PROVE Moved(s, Pushed(s, v), 0, 1)
  <2> DEFINE st == Append(s.stack, v)
  <2>1. Len(st) = Len(s.stack) + 1 /\ \A i \in 1..Len(s.stack) : st[i] = s.stack[i]
    BY <1>1
  <2> HIDE DEF st
  <2>2. Pushed(s, v) = [s EXCEPT !.stack = st]
    <3>1. ~(Len(s.stack) >= StackSize)
      BY <1>1, <1>2
    <3> QED BY <3>1 DEF Pushed, st
  <2> QED BY <1>1, <2>1, <2>2 DEF Moved, IsState, Fields
<1>3. ASSUME NEW n \in Nat, n <= Len(s.stack) PROVE Moved(s, Popped(s, n), n, 0)
  <2> DEFINE st == SubSeq(s.stack, 1, Len(s.stack) - n)
  <2>1. Len(st) = Len(s.stack) - n /\ \A i \in 1..(Len(s.stack) - n) : st[i] = s.stack[i]
    BY <1>1, <1>3
  <2> HIDE DEF st
  <2>2. Popped(s, n) = [s EXCEPT !.stack = st]
    BY DEF Popped, st
  <2> QED BY <1>1, <1>3, <2>1, <2>2 DEF Moved, IsState, Fields
<1>4. ASSUME NEW v, Len(s.stack) >= 1 PROVE Moved(s, [s EXCEPT !.stack[Len(s.stack)] = v], 1, 1)
  <2> DEFINE st == [s.stack EXCEPT ![Len(s.stack)] = v]
  <2>1. Len(st) = Len(s.stack) /\ \A i \in 1..(Len(s.stack) - 1) : st[i] = s.stack[i]
    BY <1>1, <1>4
  <2> HIDE DEF st
  <2>2. [s EXCEPT !.stack[Len(s.stack)] = v] = [s EXCEPT !.stack = st]
    BY DEF st
  <2> QED BY <1>1, <1>4, <2>1, <2>2 DEF Moved, IsState, Fields
<1> QED BY <1>2, <1>3, <1>4

\* Steps that leave the stack alone.
LEMMA QuietMoves ==
  ASSUME NEW s, Typed(s)
  PROVE  /\ Moved(s, s, 0, 0) /\ Moved(s, Checked(s), 0, 0)
         /\ \A v : Moved(s, ErrorStop(s, v), 0, 0)
         /\ \A b : Moved(s, Remember(s, b), 0, 0)
         /\ \A a, v : Moved(s, [s EXCEPT !.variables[a] = v], 0, 0)
         /\ \A v : Moved(s, [s EXCEPT !.variables = v], 0, 0)
<1>0. IsState(s) /\ Len(s.stack) \in Nat
  BY DEF Typed
<1>1. \A t : IsState(t) /\ t.pc = s.pc /\ t.fault = s.fault /\ t.stack = s.stack => Moved(s, t, 0, 0)
  BY <1>0 DEF Moved
<1>2. \A v : Moved(s, ErrorStop(s, v), 0, 0)
  BY <1>0, <1>1 DEF ErrorStop, IsState, Fields
<1>3. \A b : Moved(s, Remember(s, b), 0, 0)
  BY <1>0, <1>1 DEF Remember, IsState, Fields
<1>4. /\ \A a, v : Moved(s, [s EXCEPT !.variables[a] = v], 0, 0)
      /\ \A v : Moved(s, [s EXCEPT !.variables = v], 0, 0)
  BY <1>0, <1>1 DEF IsState, Fields
<1>5. Moved(s, s, 0, 0)
  BY <1>0, <1>1
<1>6. Moved(s, Checked(s), 0, 0)
  BY <1>2, <1>5 DEF Checked
<1> QED BY <1>2, <1>3, <1>4, <1>5, <1>6

\* The stack holds what the instruction takes, and has room for what it leaves.
LEMMA Room ==
  ASSUME NEW s, NEW q, NEW l, Good(q, l), InPlace(s, l)
  PROVE  /\ Taken(At(q, s.pc)) <= l[s.pc].depth
         /\ l[s.pc].depth \in Nat /\ l[s.pc].depth <= Len(s.stack) /\ Len(s.stack) \in Nat
         /\ \A b \in Following(q, s.pc) :
               Len(s.stack) - Taken(At(q, s.pc)) + Given(At(q, s.pc)) <= StackSize
<1>1. PICK m \in Nat : m <= l[s.pc].level /\ Len(s.stack) = m + l[s.pc].depth
  BY DEF InPlace, Within
<1>2. s.pc \in DOMAIN l /\ Checks(q, l, s.pc)
  BY DEF InPlace, Good, Verified
<1>3. l[s.pc].depth \in Nat /\ l[s.pc].level \in Nat /\ StackSize \in Nat
  BY <1>2, SizesAssumption DEF Good, Verified
<1> DEFINE taken == Taken(At(q, s.pc))
           given == Given(At(q, s.pc))
<1>4. taken <= l[s.pc].depth
  BY <1>2 DEF Checks
<1>5. ASSUME NEW b \in Following(q, s.pc) PROVE Len(s.stack) - taken + given <= StackSize
  <2>1. /\ b \in DOMAIN l /\ l[b].level = l[s.pc].level
        /\ l[b].depth = l[s.pc].depth - taken + given
    BY <1>2 DEF Checks
  <2>2. l[b].level + l[b].depth <= StackSize /\ l[b].depth \in Nat
    BY <2>1 DEF Good, Verified, Checks
  <2>3. taken \in Int /\ given \in Int
    <3>1. given \in Int
      BY DEF Given
    <3>2. taken \in Int
      BY <1>2, SizesAssumption DEF Taken, Checks, OperandsFit
    <3> QED BY <3>1, <3>2
  <2> HIDE DEF taken, given
  <2>4. m + l[b].depth <= StackSize
    BY <1>1, <1>3, <2>1, <2>2
  <2>5. Len(s.stack) - taken + given = m + l[b].depth
    BY <1>1, <1>3, <2>1, <2>3
  <2> QED BY <2>4, <2>5
<1> QED BY <1>1, <1>3, <1>4, <1>5

\* Execution goes on: the stack has moved as the instruction says, and the pc follows.
LEMMA GoesOn ==
  ASSUME NEW s, NEW u, NEW q, NEW l, Good(q, l), InPlace(s, l), s.fault = "none",
         Moved(s, u, Taken(At(q, s.pc)), Given(At(q, s.pc))),
         Taken(At(q, s.pc)) \in Nat, Given(At(q, s.pc)) \in Nat,
         \A x \in Immediate(q, s.pc) : u.stack[Len(u.stack)] = x,
         NEW d \in Int, s.pc + d \in Following(q, s.pc)
  PROVE  Advance(u, d).fault = "none" /\ InPlace(Advance(u, d), l) /\ s.pc + d \in Addrs
<1> DEFINE t == Advance(u, d)
<1>1. t.pc = UInt16(s.pc + d) /\ t.fault = "none" /\ t.stack = u.stack
  BY DEF Advance, Moved, IsState, Fields
<1>2. s.pc \in DOMAIN l /\ s.pc + d \in DOMAIN l
  BY DEF InPlace, Good, Verified, Checks
<1>3. s.pc + d \in Nat /\ s.pc + d <= 65535 /\ s.pc + d \in Addrs
  <2> DEFINE b == s.pc + d
  <2>1. /\ b \in Nat /\ b + Width(At(q, b)) <= Len(q) /\ Len(q) <= BytecodeSize
        /\ BytecodeSize <= 65535 /\ BytecodeSize \in Nat /\ Len(q) \in Nat
    BY <1>2, SizesAssumption DEF Good, Verified, Checks, Placed
  <2>2. Width(At(q, b)) \in {1, 2, 3}
    BY DEF Width
  <2> HIDE DEF b
  <2>3. b \in Nat /\ b <= 65535 /\ b \in Addrs
    BY <2>1, <2>2 DEF Addrs
  <2> QED BY <2>3 DEF b
<1>4. t.pc = s.pc + d
  BY <1>1, <1>3 DEF UInt16
<1>5. Len(s.stack) \in Nat
  BY Room
<1> HIDE DEF t
<1>6. InPlace(t, l)
  BY <1>1, <1>4, <1>5, Proceeds DEF Moved
<1> QED BY <1>1, <1>3, <1>6 DEF t

\* An instruction of a program the compiler let go fails no assertion, and leaves the
\* machine in front of another one with the operands it expects, unless it ends the event.
LEMMA StepInPlace ==
  ASSUME NEW s, Typed(s), s.fault = "none", "active" \in s.flags,
         NEW q, NEW l, Good(q, l), Intact(s, q, l), InPlace(s, l), NEW t \in AsebaVMStep(s)
  PROVE  t.fault = "none" /\ ("active" \in t.flags => InPlace(t, l))
<1> DEFINE a == s.pc
           v == At(q, a)
           o == Op(v)
           low == Low(v)
           Fine == t.fault = "none" /\ ("active" \in t.flags => InPlace(t, l))
<1>1. a \in DOMAIN l /\ IsState(s)
  BY DEF InPlace, Typed
<1>2. /\ a \in Addrs /\ a + Width(Word(s)) <= BytecodeSize /\ v \in Words
      /\ Op(Word(s)) = o /\ Word(s) % 256 = v % 256
      /\ o # 10 => Word(s) = v
      /\ Width(Word(s)) > 1 => Operand(s, 1) = At(q, a + 1)
      /\ Width(Word(s)) > 2 => Operand(s, 2) = At(q, a + 2)
      /\ Checks(q, l, a)
  BY <1>1, Fetched
<1>v. (o # 10 => Word(s) = v) /\ Op(Word(s)) = o
  BY <1>2
<1>3. Executable(s)
  <2>1. Width(Word(s)) \in Nat /\ a \in Nat /\ BytecodeSize \in Nat
    BY <1>2, SizesAssumption DEF Width, Addrs
  <2> QED BY <1>2, <2>1 DEF Executable
<1>4. OperandsFit(q, a) /\ CallsDeeper(q, l, a) /\ (o = 14 => l[a].level > 0 /\ l[a].depth = 0)
  BY <1>2 DEF Checks
<1>5. /\ Taken(v) <= l[a].depth /\ l[a].depth \in Nat
      /\ l[a].depth <= Len(s.stack) /\ Len(s.stack) \in Nat
      /\ \A b \in Following(q, a) : Len(s.stack) - Taken(v) + Given(v) <= StackSize
  BY Room
<1>6. /\ o \in Nat /\ o <= 15 /\ low \in Nat /\ low \in Words /\ a \in Nat /\ a \in Int
      /\ StackSize \in Nat /\ VariablesSize \in Nat /\ v % 256 \in Nat
  <2>1. v \in Words
    BY <1>2
  <2>2. o \in Nat /\ o <= 15 /\ low \in Nat /\ low \in Words /\ v % 256 \in Nat
    BY <2>1, WordParts, WordBounds
  <2>3. a \in Nat /\ a \in Int
    BY <1>2 DEF Addrs
  <2>4. StackSize \in Nat /\ VariablesSize \in Nat
    BY SizesAssumption
  <2> QED BY <2>2, <2>3, <2>4
<1>m. ASSUME NEW u, NEW d \in Int, Moved(s, u, Taken(v), Given(v)), Taken(v) \in Nat,
             Given(v) \in Nat, \A x \in Immediate(q, a) : u.stack[Len(u.stack)] = x,
             a + d \in Following(q, a), t = Advance(u, d)
      PROVE  Fine
  BY <1>m, GoesOn
<1>n. o \notin {1, 2} => Immediate(q, a) = {}
  BY DEF Immediate
<1>g. ASSUME NEW u, NEW d \in Int, Moved(s, u, Taken(v), Given(v)), Taken(v) \in Nat,
             Given(v) \in Nat, o \notin {1, 2}, a + d \in Following(q, a), t = Advance(u, d)
      PROVE  Fine
  BY <1>g, <1>n, GoesOn
<1>j. ASSUME NEW u, NEW d \in Int, Moved(s, u, Taken(v), Given(v)), Taken(v) \in Nat,
             Given(v) \in Nat, o \notin {1, 2}, a + d \in Following(q, a), t = Jumped(u, d)
      PROVE  Fine
  <2>1. u.pc = a /\ a + d \in Addrs
    BY <1>j, <1>n, GoesOn DEF Moved
  <2>2. t = Advance(u, d)
    BY <1>j, <2>1 DEF Jumped
  <2> QED BY <1>j, <1>g, <2>2
<1>p. ASSUME NEW x, Taken(v) = 0, Given(v) = 1, NEW b \in Following(q, a)
      PROVE  /\ Moved(s, Pushed(s, x), 0, 1)
             /\ Pushed(s, x).stack[Len(Pushed(s, x).stack)] = x
  <2>1. Len(s.stack) < StackSize
    BY <1>5, <1>6, <1>p
  <2>2. Pushed(s, x) = [s EXCEPT !.stack = Append(s.stack, x)]
    <3>1. ~(Len(s.stack) >= StackSize)
      BY <1>5, <1>6, <2>1
    <3> QED BY <3>1 DEF Pushed
  <2>3. Pushed(s, x).stack = Append(s.stack, x)
    BY <1>1, <2>2 DEF IsState, Fields
  <2>4. Append(s.stack, x)[Len(Append(s.stack, x))] = x
    BY DEF Typed
  <2> QED BY <2>1, <2>3, <2>4, StackMoves
<1>w. \A k \in Nat : k < Len(s.stack) => Peek(s, k) \in Values
  BY StackHoldsValues
<1> HIDE DEF Fine
<1>10. ASSUME o = 0 PROVE Fine
  <2>1. t = [s EXCEPT !.flags = @ \ {"active"}]
    BY <1>2, <1>3, <1>10, Dispatch DEF Stop
  <2> QED BY <1>1, <2>1 DEF Fine, IsState, Fields
<1>11. ASSUME o = 1 PROVE Fine
  <2>0. Word(s) = v
    BY <1>v, <1>11
  <2>1. t = Advance(Pushed(s, Imm12(v)), 1)
    BY <1>v, <1>3, <1>11, <2>0, Dispatch DEF SmallImmediate
  <2>2. /\ Taken(v) = 0 /\ Given(v) = 1 /\ Following(q, a) = {a + 1}
        /\ Immediate(q, a) = {Imm12(v)}
    BY <1>11 DEF Taken, Given, Following, Width, Immediate
  <2> QED BY <1>m, <1>p, <2>1, <2>2
<1>12. ASSUME o = 2 PROVE Fine
  <2>1. t = Advance(Pushed(s, Int16(Operand(s, 1))), 2)
    BY <1>2, <1>3, <1>12, Dispatch DEF LargeImmediate
  <2>2. /\ Taken(v) = 0 /\ Given(v) = 1 /\ Following(q, a) = {a + 2}
        /\ Immediate(q, a) = {Int16(At(q, a + 1))}
    BY <1>12 DEF Taken, Given, Following, Width, Immediate
  <2>3. Operand(s, 1) = At(q, a + 1)
    BY <1>2, <1>12 DEF Width
  <2> QED BY <1>m, <1>p, <2>1, <2>2, <2>3
<1>13. ASSUME o = 3 PROVE Fine
  <2>0. t \in Load(s)
    BY <1>v, <1>3, <1>13, Dispatch
  <2>1. t \in Load(s) /\ low < VariablesSize /\ Word(s) = v
    BY <1>v, <1>4, <1>13, <2>0 DEF OperandsFit
  <2>2. t = Advance(Pushed(s, s.variables[low]), 1)
    <3>1. ~(low >= VariablesSize)
      BY <1>6, <2>1
    <3> QED BY <2>1, <3>1 DEF Load
  <2>3. Taken(v) = 0 /\ Given(v) = 1 /\ Following(q, a) = {a + 1}
    BY <1>13 DEF Taken, Given, Following, Width
  <2> QED BY <1>g, <1>13, <1>p, <2>2, <2>3
<1>14. ASSUME o = 4 PROVE Fine
  <2>0. t \in Store(s)
    BY <1>v, <1>3, <1>14, Dispatch
  <2>1. t \in Store(s) /\ low < VariablesSize /\ Word(s) = v
    BY <1>v, <1>4, <1>14, <2>0 DEF OperandsFit
  <2>2. Taken(v) = 1 /\ Given(v) = 0 /\ Following(q, a) = {a + 1}
    BY <1>14 DEF Taken, Given, Following, Width
  <2>3. Len(s.stack) >= 1
    BY <1>5, <2>2
  <2> DEFINE u == [s EXCEPT !.variables[low] = Peek(s, 0)]
  <2>4. t = Advance(Popped(u, 1), 1)
    <3>1. ~(low >= VariablesSize) /\ ~(Len(s.stack) < 1)
      BY <1>5, <1>6, <2>1, <2>3
    <3> QED BY <2>1, <3>1 DEF Store
  <2>5. Typed(u)
    <3>1. Peek(s, 0) \in Values
      BY <1>5, <1>w, <2>3
    <3> QED BY <3>1, HelpersKeepType
  <2>6. Moved(s, u, 0, 0) /\ u.stack = s.stack
    BY <1>1, QuietMoves DEF IsState, Fields
  <2> HIDE DEF u
  <2>7. Moved(u, Popped(u, 1), 1, 0)
    BY <1>5, <2>3, <2>5, <2>6, StackMoves
  <2>8. Moved(s, Popped(u, 1), 1, 0)
    BY <2>6, <2>7 DEF Moved
  <2> QED BY <1>g, <1>14, <2>2, <2>4, <2>8
<1>15. ASSUME o = 5 PROVE Fine
  <2> DEFINE at == low + UInt16(Peek(s, 0))
  <2>0. t \in LoadIndirect(s)
    BY <1>v, <1>3, <1>15, Dispatch
  <2>1. t \in LoadIndirect(s) /\ low + At(q, a + 1) <= VariablesSize /\ Word(s) = v
    BY <1>v, <1>4, <1>15, <2>0 DEF OperandsFit
  <2>2. Taken(v) = 1 /\ Given(v) = 1 /\ Following(q, a) = {a + 2} /\ Width(v) = 2
    BY <1>15 DEF Taken, Given, Following, Width
  <2>3. Len(s.stack) >= 1
    BY <1>5, <2>2
  <2>4. Operand(s, 1) = At(q, a + 1) /\ Operand(s, 1) \in Int
    <3>1. Operand(s, 1) \in Words
      BY <1>2, <1>15, OperandsAreWords
    <3> QED BY <1>2, <2>1, <2>2, <3>1, WordBounds
  <2>5. UInt16(Peek(s, 0)) \in Int
    <3>1. Peek(s, 0) \in Int
      BY <1>5, <1>w, <2>3, WordBounds
    <3> QED BY <3>1, WordRanges, WordBounds
  <2>6. \/ t = ErrorStop(s, "bounds")
        \/ t = Advance([s EXCEPT !.stack[Len(s.stack)] = s.variables[at]], 2)
    <3>1. ~(Len(s.stack) < 1)
      BY <1>5, <2>3
    <3>2. ~(UInt16(Peek(s, 0)) >= Operand(s, 1)) => ~(at >= VariablesSize)
      BY <1>6, <2>1, <2>4, <2>5
    <3> QED BY <2>1, <3>1, <3>2 DEF LoadIndirect
  <2>7. t = ErrorStop(s, "bounds") => Fine
    BY <1>1 DEF Fine, ErrorStop, IsState, Fields
  <2> DEFINE u == [s EXCEPT !.stack[Len(s.stack)] = s.variables[at]]
  <2>8. Moved(s, u, 1, 1)
    BY <2>3, StackMoves
  <2> HIDE DEF u
  <2> QED BY <1>g, <1>15, <2>2, <2>6, <2>7, <2>8 DEF u
<1>16. ASSUME o = 6 PROVE Fine
  <2> DEFINE at == low + UInt16(Peek(s, 0))
             u == [s EXCEPT !.variables[at] = Peek(s, 1)]
  <2>0. t \in StoreIndirect(s)
    BY <1>v, <1>3, <1>16, Dispatch
  <2>1. t \in StoreIndirect(s) /\ low + At(q, a + 1) <= VariablesSize /\ Word(s) = v
    BY <1>v, <1>4, <1>16, <2>0 DEF OperandsFit
  <2>2. Taken(v) = 2 /\ Given(v) = 0 /\ Following(q, a) = {a + 2} /\ Width(v) = 2
    BY <1>16 DEF Taken, Given, Following, Width
  <2>3. Len(s.stack) >= 2
    BY <1>5, <2>2
  <2>4. Operand(s, 1) = At(q, a + 1) /\ Operand(s, 1) \in Int
    <3>1. Operand(s, 1) \in Words
      BY <1>2, <1>16, OperandsAreWords
    <3> QED BY <1>2, <2>1, <2>2, <3>1, WordBounds
  <2>5. UInt16(Peek(s, 0)) \in Int /\ Peek(s, 1) \in Values
    <3>1. Peek(s, 0) \in Int /\ Peek(s, 1) \in Values
      BY <1>5, <1>w, <2>3, WordBounds
    <3> QED BY <3>1, WordRanges, WordBounds
  <2>6. t = ErrorStop(s, "bounds") \/ t = Advance(Popped(u, 2), 2)
    <3>1. ~(Len(s.stack) < 2)
      BY <1>5, <2>3
    <3>2. ~(UInt16(Peek(s, 0)) >= Operand(s, 1)) => ~(at >= VariablesSize)
      BY <1>6, <2>1, <2>4, <2>5
    <3> QED BY <2>1, <3>1, <3>2 DEF StoreIndirect
  <2>7. t = ErrorStop(s, "bounds") => Fine
    BY <1>1 DEF Fine, ErrorStop, IsState, Fields
  <2>8. Typed(u)
    BY <2>5, HelpersKeepType
  <2>9. Moved(s, u, 0, 0) /\ u.stack = s.stack
    BY <1>1, QuietMoves DEF IsState, Fields
  <2> HIDE DEF u
  <2>10. Moved(u, Popped(u, 2), 2, 0)
    BY <1>5, <2>3, <2>8, <2>9, StackMoves
  <2>11. Moved(s, Popped(u, 2), 2, 0)
    BY <2>9, <2>10 DEF Moved
  <2> QED BY <1>g, <1>16, <2>2, <2>6, <2>7, <2>11
<1>17. ASSUME o = 7 PROVE Fine
  <2> DEFINE u == [s EXCEPT !.stack[Len(s.stack)] = UnaryOperation(@, Word(s) % 256)]
             x == UnaryOperation(s.stack[Len(s.stack)], Word(s) % 256)
  <2>1. t \in UnaryArithmetic(s) /\ v % 256 <= 2
    BY <1>2, <1>3, <1>4, <1>17, Dispatch DEF OperandsFit
  <2>2. Taken(v) = 1 /\ Given(v) = 1 /\ Following(q, a) = {a + 1}
    BY <1>17 DEF Taken, Given, Following, Width
  <2>3. Len(s.stack) >= 1
    BY <1>5, <2>2
  <2>4. t = Advance(u, 1)
    <3>1. ~(Len(s.stack) < 1) /\ ~(Word(s) % 256 > 2)
      BY <1>2, <1>5, <1>6, <2>1, <2>3
    <3> QED BY <2>1, <3>1, Zenon DEF UnaryArithmetic
  <2>5. u = [s EXCEPT !.stack[Len(s.stack)] = x]
    OBVIOUS
  <2> HIDE DEF u, x
  <2>6. Moved(s, u, 1, 1)
    BY <2>3, <2>5, StackMoves
  <2> QED BY <1>g, <1>17, <2>2, <2>4, <2>6
<1>o. ASSUME o \in {8, 10}
       PROVE  /\ Len(s.stack) >= 2 /\ ~(Len(s.stack) < 2) /\ ~(Word(s) % 256 > 17)
              /\ Typed(Checked(s)) /\ Typed(Popped(Checked(s), 2))
              /\ Moved(s, Popped(Checked(s), 2), 2, 0)
  <2>1. Taken(v) = 2
    BY <1>o DEF Taken
  <2>2. v % 256 <= 17
    BY <1>o, <1>4 DEF OperandsFit
  <2>3. Len(s.stack) >= 2
    BY <1>5, <2>1
  <2>4. Typed(Checked(s)) /\ Checked(s).stack = s.stack
    BY CheckedKeepsType
  <2>5. Typed(Popped(Checked(s), 2)) /\ Moved(Checked(s), Popped(Checked(s), 2), 2, 0)
    BY <1>5, <2>3, <2>4, HelpersKeepType, StackMoves
  <2>6. Moved(s, Popped(Checked(s), 2), 2, 0)
    BY <2>4, <2>5, QuietMoves DEF Moved
  <2> QED BY <1>2, <1>5, <1>6, <2>2, <2>3, <2>4, <2>5, <2>6
<1>18. ASSUME o = 8 PROVE Fine
  <2> DEFINE u == Popped(Checked(s), 2)
  <2>1. t \in BinaryArithmetic(s)
    BY <1>2, <1>3, <1>18, Dispatch
  <2>2. Taken(v) = 2 /\ Given(v) = 1 /\ Following(q, a) = {a + 1}
    BY <1>18 DEF Taken, Given, Following, Width
  <2>3. \E r : t = Advance(Pushed(u, r), 1)
    BY <1>18, <1>o, <2>1, Zenon DEF BinaryArithmetic
  <2>4. Typed(u) /\ Moved(s, u, 2, 0)
    BY <1>18, <1>o
  <2> HIDE DEF u
  <2>5. Len(u.stack) = Len(s.stack) - 2 /\ Len(u.stack) < StackSize
    BY <1>5, <1>6, <2>2, <2>4 DEF Moved
  <2>6. \A r : Moved(u, Pushed(u, r), 0, 1)
    BY <2>4, <2>5, StackMoves
  <2>7. \A r : Moved(s, Pushed(u, r), 2, 1)
    BY <1>5, <2>4, <2>6, MovesCompose
  <2> QED BY <1>g, <1>18, <2>2, <2>3, <2>7
<1>19. ASSUME o = 9 PROVE Fine
  <2>0. Word(s) = v
    BY <1>v, <1>19
  <2>1. t = Jumped(s, Imm12(v))
    BY <1>v, <1>3, <1>19, <2>0, Dispatch DEF Jump
  <2>2. Taken(v) = 0 /\ Given(v) = 0 /\ Following(q, a) = {a + Imm12(v)} /\ Imm12(v) \in Int
    BY <1>2, <1>19, WordParts, WordBounds DEF Taken, Given, Following
  <2>3. Moved(s, s, 0, 0)
    BY QuietMoves
  <2> QED BY <1>j, <1>19, <2>1, <2>2, <2>3
<1>20. ASSUME o = 10 PROVE Fine
  <2> DEFINE u == Popped(Checked(s), 2)
             other == Int16(Operand(s, 1))
             d(r) == IF TakesBody(Word(s), ConditionHolds(r)) THEN 2 ELSE other
  <2>1. t \in ConditionalBranch(s)
    BY <1>2, <1>3, <1>20, Dispatch
  <2>2. Taken(v) = 2 /\ Given(v) = 0 /\ Following(q, a) = {a + 2, a + Int16(At(q, a + 1))}
    BY <1>20 DEF Taken, Given, Following
  <2>3. \E r : t = Jumped(Remember(u, ConditionHolds(r)), d(r))
    BY <1>20, <1>o, <2>1, Zenon DEF ConditionalBranch
  <2>4. other = Int16(At(q, a + 1)) /\ other \in Int
    <3>1. Width(Word(s)) = 2
      BY <1>2, <1>20 DEF Width
    <3>2. Operand(s, 1) \in Words /\ Operand(s, 1) = At(q, a + 1)
      BY <1>2, <1>20, <3>1, OperandsAreWords
    <3> QED BY <3>2, WordRanges, WordBounds
  <2> HIDE DEF other
  <2>5. Typed(u) /\ Moved(s, u, 2, 0)
    BY <1>20, <1>o
  <2> HIDE DEF u
  <2>6. \A b : Moved(s, Remember(u, b), 2, 0)
    BY <2>5, QuietMoves DEF Moved
  <2>7. PICK r : t = Jumped(Remember(u, ConditionHolds(r)), d(r))
    BY <2>3
  <2>8. d(r) \in Int /\ a + d(r) \in Following(q, a)
    BY <2>2, <2>4
  <2> HIDE DEF d
  <2> QED BY <1>j, <1>20, <2>2, <2>6, <2>7, <2>8
<1>21. ASSUME o = 11 PROVE Fine
  <2>1. Width(Word(s)) = 3 /\ Taken(v) = 0 /\ Given(v) = 0 /\ Following(q, a) = {a + 3}
    BY <1>2, <1>21 DEF Width, Taken, Given, Following
  <2> DEFINE start == Operand(s, 1)
             length == Operand(s, 2)
  <2>2. start = At(q, a + 1) /\ length = At(q, a + 2)
    BY <1>2, <2>1
  <2>3. start \in Int /\ length \in Int /\ 0 <= length
    <3>1. start \in Words /\ length \in Words
      BY <1>2, <1>21, <2>1, OperandsAreWords
    <3> HIDE DEF start, length
    <3> QED BY <3>1, WordBounds
  <2>x. start + length <= VariablesSize /\ 2 * length <= 516
    BY <1>4, <1>21, <2>2 DEF OperandsFit, MaxEventArgSize
  <2> HIDE DEF start, length
  <2>4. ~(length > 516) /\ ~(start + length > VariablesSize) /\ ~(2 * length > 516)
    BY <1>6, <2>3, <2>x
  <2>5. t \in Emit(s)
    BY <1>v, <1>3, <1>21, Dispatch
  <2>6. t = Advance(s, 3)
    BY <2>4, <2>5 DEF Emit, MaxEventArgSize, start, length
  <2>7. Moved(s, s, 0, 0)
    BY QuietMoves
  <2> QED BY <1>g, <1>21, <2>1, <2>6, <2>7
<1>22. ASSUME o = 12 PROVE Fine
  <2> DEFINE n == NativePops[low]
             u == Popped(s, n)
             depth == l[a].depth
             known == l[a].known
  <2>0. t \in NativeCall(s)
    BY <1>v, <1>3, <1>22, Dispatch
  <2>1. t \in NativeCall(s) /\ low \in DOMAIN NativePops /\ Word(s) = v
    BY <1>v, <1>4, <1>22, <2>0 DEF OperandsFit
  <2>2. Taken(v) = n /\ Given(v) = 0 /\ Following(q, a) = {a + 1} /\ n \in Nat
    BY <1>22, <2>1, SizesAssumption DEF Taken, Given, Following, Width
  <2>3. n <= Len(s.stack) /\ n <= depth
    BY <1>5, <2>2
  <2>k. (depth - n + 1)..depth \subseteq DOMAIN known /\ NativeFits(known, depth, low)
    BY <1>2, <1>22 DEF Checks, NativesKnown
  <2>f. NativeFits(s.stack, Len(s.stack), low)
    <3>1. PICK m \in Nat : Len(s.stack) = m + depth /\ Recalled(s.stack, m, known)
      BY DEF InPlace
    <3>2. depth \in Nat
      BY <1>5
    <3> DEFINE args == NativeArgs[low]
    <3>3. /\ args \in Seq(Int) /\ Len(args) \in Nat /\ Len(args) <= n
          /\ \A i \in DOMAIN args : args[i] \in Int
          /\ \A i \in DOMAIN args : args[i] < 0 => Len(args) - args[i] <= n
      BY <2>1, SizesAssumption
    <3> HIDE DEF n, depth, known
    <3>4. \A j \in (depth - n + 1)..depth : s.stack[m + j] = known[j]
      BY <2>k, <3>1 DEF Recalled
    <3> SUFFICES ASSUME NEW i \in DOMAIN args
                 PROVE  NativeStart(s.stack, Len(s.stack), i)
                          + NativeSize(s.stack, Len(s.stack), low, i) <= VariablesSize
      BY DEF NativeFits
    <3>5. i \in 1..Len(args)
      BY <3>3
    <3>6. NativeStart(s.stack, Len(s.stack), i) = NativeStart(known, depth, i)
      <4> DEFINE c == Len(args)
                 h == Len(s.stack)
                 j == depth - i + 1
      <4>1. c \in Nat /\ c <= n /\ i \in 1..c /\ n \in Nat
        BY <2>2, <3>3, <3>5
      <4>2. h = m + depth
        BY <3>1
      <4>3. /\ NativeStart(s.stack, h, i) = UInt16(s.stack[h - i + 1])
            /\ NativeStart(known, depth, i) = UInt16(known[j])
        BY DEF NativeStart
      <4> HIDE DEF args, c, h
      <4>4. j \in (depth - n + 1)..depth
        BY <3>2, <4>1
      <4>5. h - i + 1 = m + j
        BY <3>2, <4>1, <4>2
      <4> HIDE DEF j
      <4> QED BY <3>4, <4>3, <4>4, <4>5 DEF h
    <3>7. NativeSize(s.stack, Len(s.stack), low, i) = NativeSize(known, depth, low, i)
      <4>1. CASE args[i] < 0
        <5> DEFINE size == args[i]
                   c == Len(args)
                   k == Len(s.stack) - c + size + 1
                   j == depth - c + size + 1
        <5>1. size \in Int /\ c \in Nat /\ c - size <= n /\ size < 0
          BY <3>3, <3>5, <4>1
        <5>2. NativeSize(s.stack, Len(s.stack), low, i) = UInt16(s.stack[k])
              /\ NativeSize(known, depth, low, i) = UInt16(known[j])
          BY <4>1 DEF NativeSize
        <5> HIDE DEF size, c
        <5>3. j \in (depth - n + 1)..depth
          BY <2>2, <3>2, <5>1
        <5>4. k = m + j
          BY <3>1, <3>2, <5>1
        <5> HIDE DEF j, k
        <5> QED BY <3>4, <5>2, <5>3, <5>4
      <4>2. CASE ~(args[i] < 0)
        BY <4>2 DEF NativeSize
      <4> QED BY <4>1, <4>2
    <3> QED BY <2>k, <3>6, <3>7 DEF NativeFits
  <2>4. \/ t = Advance(ErrorStop(u, "node"), 1)
        \/ \E x : t = Advance([u EXCEPT !.variables = Overwritten(@, x)], 1)
    <3>1. ~(Len(s.stack) < n)
      BY <1>5, <2>2, <2>3
    <3> HIDE DEF u
    <3> QED BY <2>1, <2>f, <3>1, NativeOutcome, Zenon DEF u
  <2>5. Typed(u) /\ Moved(s, u, n, 0)
    BY <2>2, <2>3, HelpersKeepType, StackMoves
  <2> HIDE DEF u, n
  <2>6. /\ Moved(u, ErrorStop(u, "node"), 0, 0)
        /\ \A x : Moved(u, [u EXCEPT !.variables = x], 0, 0)
    BY <2>5, QuietMoves
  <2>7. \A w : Moved(u, w, 0, 0) => Moved(s, w, n, 0)
    BY <1>5, <2>2, <2>5, MovesCompose
  <2>8. CASE t = Advance(ErrorStop(u, "node"), 1)
    BY <1>g, <1>22, <2>2, <2>6, <2>7, <2>8
  <2>9. CASE \E x : t = Advance([u EXCEPT !.variables = Overwritten(@, x)], 1)
    <3>1. PICK x : t = Advance([u EXCEPT !.variables = Overwritten(@, x)], 1)
      BY <2>9
    <3> DEFINE w == [u EXCEPT !.variables = Overwritten(@, x)]
    <3>2. Moved(s, w, n, 0)
      BY <2>6, <2>7
    <3> HIDE DEF w
    <3> QED BY <1>g, <1>22, <2>2, <3>1, <3>2 DEF w
  <2> QED BY <2>4, <2>8, <2>9
<1>23. ASSUME o = 13 PROVE Fine
  <2> DEFINE u == Pushed(s, Int16(a + 1))
  <2>0. t \in SubCall(s)
    BY <1>v, <1>3, <1>23, Dispatch
  <2>1. t \in SubCall(s) /\ Word(s) = v
    BY <1>v, <1>23, <2>0
  <2>2. /\ l[a].depth = 0 /\ low \in DOMAIN l /\ l[low].level > l[a].level /\ l[low].depth = 0
        /\ low \in Nat
    BY <1>4, <1>6, <1>23 DEF CallsDeeper
  <2>3. PICK m \in Nat : /\ Within(m, l[a].level) /\ Len(s.stack) = m + l[a].depth
                         /\ Frames(s.stack, m, l)
    BY DEF InPlace
  <2>4. l[a].level \in Nat /\ l[low].level \in Nat /\ l[low].level + l[low].depth <= StackSize
    BY <1>1, <2>2 DEF Good, Verified, Checks
  <2>5. Len(s.stack) = m /\ m < l[low].level /\ m < StackSize
    BY <1>6, <2>2, <2>3, <2>4 DEF Within
  <2>6. u = [s EXCEPT !.stack = Append(s.stack, Int16(a + 1))]
    <3>1. ~(Len(s.stack) >= StackSize)
      BY <1>6, <2>5
    <3> QED BY <3>1 DEF Pushed
  <2>7. t = [u EXCEPT !.pc = low]
    <3>1. ~(Len(s.stack) >= StackSize)
      BY <1>6, <2>5
    <3> QED BY <2>1, <3>1, Zenon DEF SubCall
  <2> DEFINE st == Append(s.stack, Int16(a + 1))
  <2>8. t.pc = low /\ t.stack = st /\ t.fault = "none"
    BY <1>1, <2>6, <2>7 DEF IsState, Fields
  <2>9. /\ Len(st) = m + 1 /\ \A i \in 1..m : st[i] = s.stack[i]
        /\ st[m + 1] = Int16(a + 1)
    BY <2>5 DEF Typed
  <2> HIDE DEF st, u
  <2>10. Following(q, a) = {a + 1} /\ Taken(v) = 0 /\ Given(v) = 0
    BY <1>23 DEF Following, Width, Taken, Given
  <2>11. /\ a + 1 \in DOMAIN l /\ l[a + 1].level = l[a].level
         /\ l[a + 1].depth = l[a].depth - Taken(v) + Given(v)
    BY <1>2, <2>10 DEF Checks
  <2>12. l[a + 1].depth = 0
    BY <2>2, <2>10, <2>11
  <2>13. UInt16(Int16(a + 1)) = a + 1
    <3>1. Len(q) \in Nat /\ Len(q) <= BytecodeSize /\ BytecodeSize <= 65535 /\ BytecodeSize \in Nat
      BY SizesAssumption DEF Good, Verified
    <3>2. a + 1 + Width(At(q, a + 1)) <= Len(q) /\ Width(At(q, a + 1)) \in {1, 2, 3}
      BY <2>11 DEF Good, Verified, Checks, Placed, Width
    <3> DEFINE b == a + 1
    <3>3. b \in Nat /\ b <= 65535
      <4> DEFINE w == Width(At(q, a + 1))
      <4>1. a \in Nat
        BY <1>6
      <4>2. b + w <= Len(q) /\ w \in {1, 2, 3}
        BY <3>2
      <4> HIDE DEF w
      <4> QED BY <3>1, <4>1, <4>2
    <3> HIDE DEF b
    <3>4. UInt16(Int16(b)) = b
      BY <3>3 DEF UInt16, Int16
    <3> QED BY <3>4 DEF b
  <2>14. Frames(st, m + 1, l)
    <3> SUFFICES ASSUME NEW i \in 1..(m + 1)
                 PROVE  /\ UInt16(st[i]) \in DOMAIN l /\ l[UInt16(st[i])].depth = 0
                        /\ Within(i - 1, l[UInt16(st[i])].level)
      BY DEF Frames
    <3>1. CASE i \in 1..m
      BY <2>3, <2>9, <3>1 DEF Frames
    <3>2. CASE i = m + 1
      <4>1. UInt16(st[i]) = a + 1
        BY <2>9, <2>13, <3>2
      <4>2. i - 1 = m
        BY <3>2
      <4> QED BY <2>3, <2>11, <2>12, <4>1, <4>2
    <3> QED BY <3>1, <3>2
  <2>15. Within(m + 1, l[low].level)
    BY <2>4, <2>5 DEF Within
  <2>16. Len(st) = m + 1 + l[low].depth
    BY <2>2, <2>9
  <2>17. Recalled(st, m + 1, l[low].known)
    BY <2>2, NothingToRecall
  <2> QED BY <2>2, <2>8, <2>14, <2>15, <2>16, <2>17 DEF Fine, InPlace
<1>24. ASSUME o = 14 PROVE Fine
  <2>1. t \in SubRet(s)
    BY <1>2, <1>3, <1>24, Dispatch
  <2>2. l[a].level > 0 /\ l[a].depth = 0
    BY <1>4, <1>24
  <2>3. PICK m \in Nat : /\ Within(m, l[a].level) /\ Len(s.stack) = m + l[a].depth
                         /\ Frames(s.stack, m, l)
    BY DEF InPlace
  <2>4. m > 0 /\ Len(s.stack) = m
    BY <2>2, <2>3 DEF Within
  <2> DEFINE r == UInt16(s.stack[m])
             st == SubSeq(s.stack, 1, m - 1)
  <2>5. t.pc = r /\ t.stack = st /\ t.fault = "none"
    <3>1. ~(Len(s.stack) < 1)
      BY <2>4
    <3>2. t = [Popped(s, 1) EXCEPT !.pc = UInt16(Peek(s, 0))]
      BY <2>1, <3>1, Zenon DEF SubRet
    <3>3. Peek(s, 0) = s.stack[m]
      BY <2>4 DEF Peek
    <3>4. Popped(s, 1) = [s EXCEPT !.stack = st]
      BY <2>4 DEF Popped
    <3> HIDE DEF st
    <3> QED BY <1>1, <3>2, <3>3, <3>4 DEF IsState, Fields
  <2>6. Len(st) = m - 1 /\ \A i \in 1..(m - 1) : st[i] = s.stack[i]
    BY <2>4 DEF Typed
  <2>7. r \in DOMAIN l /\ l[r].depth = 0 /\ Within(m - 1, l[r].level)
    BY <2>3, <2>4 DEF Frames
  <2> HIDE DEF st, r
  <2>8. Frames(st, m - 1, l)
    BY <2>3, <2>6 DEF Frames
  <2>9. m - 1 \in Nat /\ Len(st) = (m - 1) + l[r].depth
    BY <2>4, <2>6, <2>7
  <2>10. Recalled(st, m - 1, l[r].known)
    BY <2>7, NothingToRecall
  <2> QED BY <2>5, <2>7, <2>8, <2>9, <2>10 DEF Fine, InPlace
<1>25. o # 15
  BY <1>4 DEF OperandsFit
<1> HIDE DEF o
<1>26. \/ o = 0 \/ o = 1 \/ o = 2 \/ o = 3 \/ o = 4 \/ o = 5 \/ o = 6 \/ o = 7 \/ o = 8 \/ o = 9
       \/ o = 10 \/ o = 11 \/ o = 12 \/ o = 13 \/ o = 14
  BY <1>6, <1>25
<1>27. Fine
  BY <1>10, <1>11, <1>12, <1>13, <1>14, <1>15, <1>16, <1>17, <1>18, <1>19, <1>20, <1>21,
     <1>22, <1>23, <1>24, <1>26
<1> QED BY <1>27 DEF Fine

\* The machine holds a program and, if an event is active, executes it.
HasProgram(s, q, l) == Good(q, l) /\ Intact(s, q, l) /\ ("active" \in s.flags => InPlace(s, l))

\* What remembering, or forgetting, a condition makes of a word that may have been
\* remembered before.
LEMMA Rewritten ==
  ASSUME NEW q, NEW l, Good(q, l), NEW a \in 0..(Len(q) - 1), Op(q[a + 1]) = 10,
         NEW w, w = q[a + 1] \/ w = SetWasTrue(q[a + 1], TRUE)
  PROVE  /\ Op(w) = 10
         /\ SetWasTrue(w, TRUE) = SetWasTrue(q[a + 1], TRUE)
         /\ SetWasTrue(w, FALSE) = q[a + 1]
<1>1. Len(q) \in Nat /\ a + 1 \in 1..Len(q) /\ a + 1 \in DOMAIN q
  BY DEF Good
<1>2. q[a + 1] \in Words /\ Bit(q[a + 1], WasTrueBit) = 0
  BY <1>1 DEF Good, Unremembered
<1> DEFINE v == q[a + 1]
<1> HIDE DEF v
<1>3. v \in Words /\ Bit(v, WasTrueBit) = 0 /\ Op(v) = 10 /\ (w = v \/ w = SetWasTrue(v, TRUE))
  BY <1>2 DEF v
<1>4. Op(SetWasTrue(v, TRUE)) = 10
  BY <1>3, WasTrueParts
<1>5. SetWasTrue(SetWasTrue(v, TRUE), TRUE) = SetWasTrue(v, TRUE)
  BY <1>3, WasTrueParts, Zenon
<1>6. SetWasTrue(v, FALSE) = v /\ SetWasTrue(SetWasTrue(v, TRUE), FALSE) = v
  BY <1>3, WasTrueParts, Zenon
<1>7. /\ Op(w) = 10 /\ SetWasTrue(w, TRUE) = SetWasTrue(v, TRUE) /\ SetWasTrue(w, FALSE) = v
  BY <1>3, <1>4, <1>5, <1>6, Zenon
<1> QED BY <1>7, Zenon DEF v

LEMMA StepKeepsIntact ==
  ASSUME NEW s, Typed(s), NEW q, NEW l, Good(q, l), Intact(s, q, l), s.pc \in DOMAIN l,
         NEW t \in AsebaVMStep(s)
  PROVE  Intact(t, q, l)
<1> DEFINE a == s.pc
<1>1. IsState(s) /\ s.bytecode \in [Addrs -> Words]
  BY DEF Typed
<1>2. CASE SameCode(s, t)
  BY <1>2 DEF SameCode, Intact
<1>3. CASE a \in Addrs /\ Op(Word(s)) = 10 /\ t \in ConditionalBranch(s)
  <2>1. \/ t.bytecode = s.bytecode
        \/ \E b \in BOOLEAN : t.bytecode = [s.bytecode EXCEPT ![a] = SetWasTrue(@, b)]
    <3>1. \A r : ConditionHolds(r) \in BOOLEAN
      BY DEF ConditionHolds
    <3>2. \/ t.bytecode = s.bytecode
          \/ \E b \in BOOLEAN : t.bytecode = [s.bytecode EXCEPT ![s.pc] = SetWasTrue(@, b)]
          \/ \E r : t.bytecode = [s.bytecode EXCEPT ![s.pc] = SetWasTrue(@, ConditionHolds(r))]
      BY <1>1, <1>3, BranchOutcome
    <3>3. CASE \E r : t.bytecode = [s.bytecode EXCEPT ![s.pc] = SetWasTrue(@, ConditionHolds(r))]
      <4>1. PICK r : t.bytecode = [s.bytecode EXCEPT ![s.pc] = SetWasTrue(@, ConditionHolds(r))]
        BY <3>3
      <4> DEFINE b == ConditionHolds(r)
      <4>2. b \in BOOLEAN /\ t.bytecode = [s.bytecode EXCEPT ![s.pc] = SetWasTrue(@, b)]
        BY <3>1, <4>1
      <4> HIDE DEF b
      <4> QED BY <4>2
    <3> QED BY <3>2, <3>3
  <2>2. CASE t.bytecode = s.bytecode
    BY <2>2 DEF Intact
  <2>3. CASE \E b \in BOOLEAN : t.bytecode = [s.bytecode EXCEPT ![a] = SetWasTrue(@, b)]
    <3>1. PICK b \in BOOLEAN : t.bytecode = [s.bytecode EXCEPT ![a] = SetWasTrue(@, b)]
      BY <2>3
    <3>2. Op(q[a + 1]) = 10
      BY <1>3, Fetched DEF At
    <3>3. a \in 0..(Len(q) - 1)
      <4>1. /\ a \in Nat /\ a + Width(At(q, a)) <= Len(q) /\ Len(q) \in Nat
        BY DEF Good, Verified, Checks, Placed
      <4>2. Width(At(q, a)) \in {1, 2, 3}
        BY DEF Width
      <4> QED BY <4>1, <4>2
    <3> DEFINE w == s.bytecode[a]
    <3>4. w = q[a + 1] \/ w = SetWasTrue(q[a + 1], TRUE)
      BY <3>3 DEF Intact
    <3>5. SetWasTrue(w, b) = SetWasTrue(q[a + 1], TRUE) \/ SetWasTrue(w, b) = q[a + 1]
      <4>1. SetWasTrue(w, TRUE) = SetWasTrue(q[a + 1], TRUE) /\ SetWasTrue(w, FALSE) = q[a + 1]
        BY <3>2, <3>3, <3>4, Rewritten
      <4>2. b = TRUE \/ b = FALSE
        OBVIOUS
      <4> HIDE DEF w
      <4> QED BY <4>1, <4>2, Zenon
    <3>6. t.bytecode[a] = SetWasTrue(w, b) /\ \A x \in Addrs : x # a => t.bytecode[x] = s.bytecode[x]
      BY <1>1, <1>3, <3>1
    <3>7. \A x \in 0..(Len(q) - 1) : x \in Addrs
      BY SizesAssumption DEF Good, Verified, Addrs
    <3> SUFFICES ASSUME NEW x \in 0..(Len(q) - 1)
                 PROVE  \/ t.bytecode[x] = q[x + 1]
                        \/ /\ x \in DOMAIN l /\ Op(q[x + 1]) = 10
                           /\ t.bytecode[x] = SetWasTrue(q[x + 1], TRUE)
      BY DEF Intact
    <3>8. CASE x = a
      BY <3>2, <3>5, <3>6, <3>8, Zenon
    <3>9. CASE x # a
      <4>1. t.bytecode[x] = s.bytecode[x]
        BY <3>6, <3>7, <3>9
      <4> QED BY <4>1 DEF Intact
    <3> QED BY <3>8, <3>9
  <2> QED BY <2>1, <2>2, <2>3
<1> QED BY <1>1, <1>2, <1>3, StepKeepsCode

\* The size of the vector table, and the table, are never overwritten.
LEMMA TableStays ==
  ASSUME NEW s, NEW q, NEW l, Good(q, l), Intact(s, q, l)
  PROVE  /\ q[1] \in Nat /\ s.bytecode[0] = q[1]
         /\ \A a \in Nat : a < q[1] => s.bytecode[a] = q[a + 1]
<1>1. /\ q \in Seq(Words) /\ q # <<>> /\ Len(q) \in Nat /\ q[1] <= Len(q)
      /\ \A a \in DOMAIN l : a \in Nat /\ q[1] <= a
  BY DEF Good, Verified, Checks, Placed
<1>2. q[1] \in Nat /\ Len(q) >= 1
  <2>1. Len(q) >= 1
    BY <1>1
  <2>2. q[1] \in Words
    BY <1>1, <2>1
  <2> QED BY <2>1, <2>2, WordBounds
<1>3. ASSUME NEW a \in Nat, a < q[1] PROVE s.bytecode[a] = q[a + 1]
  <2>1. a \notin DOMAIN l /\ a \in 0..(Len(q) - 1)
    BY <1>1, <1>2, <1>3
  <2> QED BY <2>1 DEF Intact
<1>4. s.bytecode[0] = q[1]
  <2>1. CASE 0 < q[1]
    BY <1>3, <2>1
  <2>2. CASE q[1] = 0
    <3>1. Op(q[1]) # 10 /\ 0 \in 0..(Len(q) - 1) /\ q[0 + 1] = q[1]
      BY <1>1, <1>2, <2>2 DEF Op
    <3> QED BY <3>1 DEF Intact
  <2> QED BY <1>2, <2>1, <2>2
<1> QED BY <1>2, <1>3, <1>4

\* The entries of the table lead to events of the program.
LEMMA EventAddresses ==
  ASSUME NEW s, NEW q, NEW l, Good(q, l), Intact(s, q, l), NEW e, GetEventAddress(s, e) # 0
  PROVE  /\ GetEventAddress(s, e) \in DOMAIN l
         /\ l[GetEventAddress(s, e)].level = 0 /\ l[GetEventAddress(s, e)].depth = 0
<1>2. q[1] \in Nat
  BY TableStays
<1>3. ASSUME NEW a \in Nat, a < q[1] PROVE s.bytecode[a] = q[a + 1]
  BY <1>3, TableStays
<1>4. s.bytecode[0] = q[1]
  BY TableStays
<1> DEFINE hits == {i \in Addrs : /\ i % 2 = 1 /\ i < s.bytecode[0] /\ i + 1 \in Addrs
                                 /\ s.bytecode[i] = e}
<1>5. hits # {} /\ GetEventAddress(s, e) = s.bytecode[Min(hits) + 1]
  BY DEF GetEventAddress
<1>6. hits \subseteq Nat
  BY DEF Addrs
<1>7. Min(hits) \in hits
  BY <1>5, <1>6, LeastNumber
<1> DEFINE i == Min(hits)
<1>8. i \in Nat /\ i % 2 = 1 /\ i < q[1]
  BY <1>4, <1>6, <1>7
<1> HIDE DEF i
<1>9. i \in 1..(q[1] - 1)
  BY <1>2, <1>8
<1>10. i + 1 < q[1] /\ At(q, i + 1) \in DOMAIN l
       /\ l[At(q, i + 1)].level = 0 /\ l[At(q, i + 1)].depth = 0
  BY <1>8, <1>9 DEF Good, Verified, TableLeadsToEvents
<1>11. s.bytecode[i + 1] = At(q, i + 1)
  BY <1>3, <1>8, <1>10 DEF At
<1> QED BY <1>5, <1>10, <1>11 DEF i

LEMMA SetupInPlace ==
  ASSUME NEW s, Typed(s), NEW q, NEW l, HasProgram(s, q, l), NEW e
  PROVE  HasProgram(SetupEvent(s, e), q, l)
<1> DEFINE a == GetEventAddress(s, e)
           k == IF "active" \in s.flags THEN SayKilled(s) ELSE s
           u == EnterEvent(k, a)
<1>1. CASE a = 0
  <2>1. SetupEvent(s, e) = s
    BY <1>1 DEF SetupEvent
  <2> QED BY <2>1
<1>2. CASE a # 0
  <2>1. a \in DOMAIN l /\ l[a].level = 0 /\ l[a].depth = 0
    BY <1>2, EventAddresses DEF HasProgram
  <2>2. IsState(k)
    BY DEF Typed, IsState, Fields, SayKilled
  <2> HIDE DEF a, k
  <2>3. IsState(u) /\ u.pc = a /\ u.stack = <<>>
    BY <2>2 DEF EnterEvent, IsState, Fields
  <2>4. SayState(u).pc = a /\ SayState(u).stack = <<>>
    BY <2>3 DEF SayState, IsState, Fields
  <2>5. SetupEvent(s, e) = u \/ SetupEvent(s, e) = SayState(u)
    BY <1>2 DEF SetupEvent, a, k
  <2>6. \A t : t.pc = a /\ t.stack = <<>> => InPlace(t, l)
    <3> SUFFICES ASSUME NEW t, t.pc = a, t.stack = <<>> PROVE InPlace(t, l)
      OBVIOUS
    <3>1. Len(t.stack) = 0 + l[t.pc].depth
      BY <2>1
    <3>2. Within(0, l[t.pc].level) /\ Frames(t.stack, 0, l)
      BY <2>1 DEF Within, Frames
    <3>3. Recalled(t.stack, 0, l[t.pc].known)
      BY <2>1, NothingToRecall DEF HasProgram
    <3> QED BY <2>1, <3>1, <3>2, <3>3 DEF InPlace
  <2> HIDE DEF u
  <2>7. InPlace(SetupEvent(s, e), l)
    BY <2>3, <2>4, <2>5, <2>6
  <2>8. SetupEvent(s, e).bytecode = s.bytecode
    BY SetupKeepsCode DEF SameCode, Typed
  <2> QED BY <2>7, <2>8 DEF HasProgram, Intact
<1> QED BY <1>1, <1>2

\* What a reset makes of each word.
LEMMA ResetWords ==
  ASSUME NEW s, Typed(s), NEW a \in Addrs
  PROVE  \/ Reset(s).bytecode[a] = s.bytecode[a]
         \/ Op(s.bytecode[a]) = 10 /\ Reset(s).bytecode[a] = SetWasTrue(s.bytecode[a], FALSE)
<1> DEFINE code == ResetWhenFlags(s.bytecode)
           t == ResetFlags(s)
<1>1. \/ code[a] = s.bytecode[a]
      \/ Op(s.bytecode[a]) = 10 /\ code[a] = SetWasTrue(s.bytecode[a], FALSE)
  BY DEF ResetWhenFlags
<1> HIDE DEF code
<1>2. IsState(t) /\ t.bytecode = code
  BY DEF ResetFlags, Typed, IsState, Fields, code
<1> HIDE DEF t
<1>3. SameCode(t, SayState(t)) /\ SameCode(t, SetupEvent(t, EventInit))
  BY <1>2, HelpersKeepCode, SetupKeepsCode
<1>4. Reset(s) = SayState(t) \/ Reset(s) = SetupEvent(t, EventInit)
  BY DEF Reset, t
<1>5. Reset(s).bytecode = code
  BY <1>2, <1>3, <1>4 DEF SameCode
<1> QED BY <1>1, <1>5

LEMMA ResetInPlace ==
  ASSUME NEW s, Typed(s), NEW q, NEW l, Good(q, l), Intact(s, q, l)
  PROVE  HasProgram(Reset(s), q, l)
<1> DEFINE t == ResetFlags(s)
<1>1. \A a \in 0..(Len(q) - 1) : a \in Addrs
  BY SizesAssumption DEF Good, Verified, Addrs
<1>2. Intact(Reset(s), q, l)
  <2> SUFFICES ASSUME NEW a \in 0..(Len(q) - 1)
               PROVE  \/ Reset(s).bytecode[a] = q[a + 1]
                      \/ /\ a \in DOMAIN l /\ Op(q[a + 1]) = 10
                         /\ Reset(s).bytecode[a] = SetWasTrue(q[a + 1], TRUE)
    BY DEF Intact
  <2>1. CASE Reset(s).bytecode[a] = s.bytecode[a]
    BY <2>1 DEF Intact
  <2>2. CASE Op(s.bytecode[a]) = 10 /\ Reset(s).bytecode[a] = SetWasTrue(s.bytecode[a], FALSE)
    <3>1. \/ s.bytecode[a] = q[a + 1]
          \/ Op(q[a + 1]) = 10 /\ s.bytecode[a] = SetWasTrue(q[a + 1], TRUE)
      BY DEF Intact
    <3>2. Op(q[a + 1]) = 10
      BY <2>2, <3>1
    <3>3. SetWasTrue(s.bytecode[a], FALSE) = q[a + 1]
      BY <3>1, <3>2, Rewritten
    <3> QED BY <2>2, <3>3, Zenon
  <2> QED BY <1>1, <2>1, <2>2, ResetWords
<1>3. Typed(t) /\ t.flags = {"step"} /\ IsState(t)
  <2>1. ResetWhenFlags(s.bytecode) \in [Addrs -> Words]
    <3>1. \A a \in Addrs : s.bytecode[a] \in Words
      BY DEF Typed
    <3>2. \A a \in Addrs : SetWasTrue(s.bytecode[a], FALSE) \in Words
      BY <3>1, WasTrueIsWord
    <3> QED BY <3>1, <3>2 DEF ResetWhenFlags
  <2> DEFINE u == [s EXCEPT !.flags = {"step"}]
             code == ResetWhenFlags(s.bytecode)
  <2>2. Typed(u)
    BY FieldsKeepType DEF FlagSet
  <2> HIDE DEF code
  <2>3. t = [u EXCEPT !.bytecode = code] /\ t.flags = {"step"}
    BY DEF ResetFlags, code, Typed, IsState, Fields
  <2> HIDE DEF u, t
  <2>4. Typed(t)
    BY <2>1, <2>2, <2>3, FieldsKeepType DEF code
  <2> QED BY <2>3, <2>4 DEF Typed
<1> HIDE DEF t
<1>4. SayState(t).bytecode = t.bytecode /\ SayState(t).flags = {"step"}
  BY <1>3 DEF SayState, IsState, Fields
<1>5. Reset(s) = SayState(t) \/ Reset(s) = SetupEvent(t, EventInit)
  BY DEF Reset, t
<1>6. Reset(s).bytecode = t.bytecode
  BY <1>3, <1>4, <1>5, SetupKeepsCode DEF SameCode
<1>7. HasProgram(t, q, l)
  BY <1>2, <1>3, <1>6 DEF HasProgram, Intact
<1>8. HasProgram(SetupEvent(t, EventInit), q, l)
  BY <1>3, <1>7, SetupInPlace
<1>9. HasProgram(SayState(t), q, l)
  BY <1>4, <1>7 DEF HasProgram, Intact
<1> QED BY <1>5, <1>8, <1>9

LEMMA ResetKeepsFault ==
  ASSUME NEW s, IsState(s) PROVE Reset(s).fault = s.fault
<1> DEFINE t == ResetFlags(s)
<1>1. IsState(t) /\ t.fault = s.fault
  BY DEF ResetFlags, IsState, Fields
<1>2. Reset(s) = SayState(t) \/ Reset(s) = SetupEvent(t, EventInit)
  BY DEF Reset
<1> HIDE DEF t
<1> QED BY <1>1, <1>2, FaultKept

-----------------------------------------------------------------------------
(* The chunks of a program *)

\* The chunk c carries the word at address a.
Covers(c, a) == a - c.start + 1 \in DOMAIN c.words

\* sendBytecode: what a chunk carries is the program's word at that address,
LEMMA ChunkCovers ==
  ASSUME NEW p \in Programs, NEW c \in Chunks(p), NEW a \in Int, Covers(c, a)
  PROVE  a \in 0..(Len(p) - 1) /\ c.words[a - c.start + 1] = p[a + 1]
<1>1. p \in Seq(Words) /\ Payload \in Nat \ {0} /\ Len(p) \in Nat
  BY SizesAssumption
<1>2. PICK k \in 0..((Len(p) - 1) \div Payload) :
        c = [start |-> k * Payload, words |-> SubSeq(p, k * Payload + 1, Min({Len(p), (k + 1) * Payload}))]
  BY DEF Chunks
<1> DEFINE m == k * Payload
           x == (k + 1) * Payload
           n == Min({Len(p), x})
<1>3. m \in Nat /\ x \in Nat
  <2>1. \A i, j \in Nat : i * j \in Nat
    OBVIOUS
  <2>2. k \in Nat /\ k + 1 \in Nat
    BY <1>1, <1>2
  <2> QED BY <1>1, <2>1, <2>2
<1>4. c.start = m /\ c.words = SubSeq(p, m + 1, n)
  BY <1>2
<1> HIDE DEF m, x
<1>5. n \in {Len(p), x} /\ n <= Len(p)
  <2>1. \E z \in {Len(p), x} : \A y \in {Len(p), x} : z <= y
    BY <1>1, <1>3
  <2> QED BY <2>1 DEF Min
<1>6. n \in Nat
  BY <1>1, <1>3, <1>5
<1> HIDE DEF n
<1>7. c.words = [j \in 1..(1 + n - (m + 1)) |-> p[j + (m + 1) - 1]]
  BY <1>1, <1>3, <1>4, <1>6
<1> DEFINE i == a - m + 1
<1>8. i \in 1..(1 + n - (m + 1)) /\ c.words[i] = p[i + (m + 1) - 1]
  BY <1>4, <1>7 DEF Covers
<1>9. i + (m + 1) - 1 = a + 1 /\ a \in 0..(Len(p) - 1)
  BY <1>1, <1>3, <1>5, <1>6, <1>8
<1> QED BY <1>4, <1>8, <1>9

\* no chunk goes beyond the program,
LEMMA ChunkEnds ==
  ASSUME NEW p \in Programs, p # <<>>, NEW c \in Chunks(p)
  PROVE  /\ c.start \in Nat /\ Len(c.words) \in Nat
         /\ c.start + Len(c.words) <= Len(p)
<1>1. p \in Seq(Words) /\ Payload \in Nat \ {0} /\ Len(p) \in Nat /\ Len(p) > 0
  BY SizesAssumption
<1>2. PICK k \in 0..((Len(p) - 1) \div Payload) :
        c = [start |-> k * Payload, words |-> SubSeq(p, k * Payload + 1, Min({Len(p), (k + 1) * Payload}))]
  BY DEF Chunks
<1> DEFINE m == k * Payload
           x == (k + 1) * Payload
           n == Min({Len(p), x})
<1>3. m \in Nat /\ x = m + Payload /\ k \in Nat
  BY <1>1, <1>2
<1>4. c.start = m /\ c.words = SubSeq(p, m + 1, n)
  BY <1>2
<1>5. m <= Len(p)
  <2> DEFINE K == (Len(p) - 1) \div Payload
             M == K * Payload
  <2>1. M <= Len(p) - 1 /\ M \in Nat /\ K \in Nat /\ k <= K
    BY <1>1, <1>2
  <2>2. PICK d \in Nat : K = k + d
    <3> HIDE DEF K
    <3>1. K - k \in Nat /\ K = k + (K - k)
      BY <1>3, <2>1
    <3> QED BY <3>1
  <2>3. M = m + d * Payload /\ d * Payload \in Nat
    BY <1>1, <1>3, <2>2
  <2> HIDE DEF m, M
  <2> QED BY <1>1, <1>3, <2>1, <2>3
<1> HIDE DEF m, x
<1>6. n \in {Len(p), x} /\ n <= Len(p)
  <2>1. \E z \in {Len(p), x} : \A y \in {Len(p), x} : z <= y
    BY <1>1, <1>3
  <2> QED BY <2>1 DEF Min
<1>7. n \in Nat /\ m <= n
  BY <1>1, <1>3, <1>5, <1>6
<1> HIDE DEF n
<1>8. Len(c.words) = n - m
  BY <1>1, <1>3, <1>4, <1>6, <1>7
<1> QED BY <1>1, <1>3, <1>4, <1>6, <1>7, <1>8

\* and every word of the program is carried by a chunk.
LEMMA ChunksCover ==
  ASSUME NEW p \in Programs, NEW a \in 0..(Len(p) - 1)
  PROVE  \E c \in Chunks(p) : Covers(c, a)
<1>1. p \in Seq(Words) /\ Payload \in Nat \ {0} /\ Len(p) \in Nat
  BY SizesAssumption
<1> DEFINE k == a \div Payload
           K == (Len(p) - 1) \div Payload
           m == k * Payload
           x == (k + 1) * Payload
           n == Min({Len(p), x})
           M == K * Payload
<1>2. k \in Nat /\ K \in Nat
  BY <1>1
<1>3. m <= a /\ a < m + Payload /\ m \in Nat
  BY <1>1
<1>4. Len(p) - 1 < M + Payload /\ M \in Nat
  BY <1>1
<1>5. x = m + Payload
  BY <1>1, <1>2
<1> HIDE DEF k, K
<1>6. k <= K
  <2> SUFFICES ASSUME ~(k <= K) PROVE FALSE
    OBVIOUS
  <2>1. PICK d \in Nat : k = K + 1 + d
    <3>1. k - K - 1 \in Nat /\ k = K + 1 + (k - K - 1)
      BY <1>2
    <3> QED BY <3>1
  <2>2. m = M + Payload + d * Payload /\ d * Payload \in Nat
    BY <1>1, <1>2, <2>1
  <2> HIDE DEF m, M
  <2> QED BY <1>1, <1>3, <1>4, <2>2
<1> HIDE DEF m, x
<1>7. n \in {Len(p), x} /\ n \in Nat
  <2>1. \E z \in {Len(p), x} : \A y \in {Len(p), x} : z <= y
    BY <1>1, <1>3, <1>5
  <2>2. n \in {Len(p), x}
    BY <2>1 DEF Min
  <2> QED BY <1>1, <1>3, <1>5, <2>2
<1>8. a < n /\ n <= Len(p) + Payload
  BY <1>1, <1>3, <1>5, <1>7
<1> DEFINE c == [start |-> m, words |-> SubSeq(p, m + 1, n)]
<1>9. c \in Chunks(p)
  <2>1. k \in 0..K
    BY <1>2, <1>6
  <2> QED BY <2>1 DEF Chunks, k, K, m, x, n
<1> HIDE DEF n
<1>10. DOMAIN c.words = 1..(1 + n - (m + 1))
  BY <1>1, <1>3, <1>7
<1>11. Covers(c, a)
  <2>1. a - m + 1 \in 1..(1 + n - (m + 1))
    BY <1>3, <1>7, <1>8
  <2> QED BY <1>10, <2>1 DEF Covers
<1> QED BY <1>9, <1>11

\* Of the chunks of p only those of U are still on their way to the machine s.
Arrived(s, U, p) ==
  \A c \in Chunks(p) \ U : \A a \in Addrs : Covers(c, a) => s.bytecode[a] = p[a + 1]

LEMMA WrittenArrives ==
  ASSUME NEW s, Typed(s), NEW p \in Programs, NEW c \in Chunks(p), NEW U, Arrived(s, U, p)
  PROVE  Arrived(Written(s, c), U \ {c}, p)
<1> DEFINE code == [a \in Addrs |-> IF a - c.start + 1 \in DOMAIN c.words
                                   THEN c.words[a - c.start + 1] ELSE s.bytecode[a]]
<1>1. Written(s, c).bytecode = code
  BY DEF Written, Typed, IsState, Fields
<1>2. \A a \in Addrs : a \in Int
  BY DEF Addrs
<1> SUFFICES ASSUME NEW d \in Chunks(p) \ (U \ {c}), NEW a \in Addrs, Covers(d, a)
             PROVE  code[a] = p[a + 1]
  BY <1>1 DEF Arrived
<1>3. CASE Covers(c, a)
  <2>1. c.words[a - c.start + 1] = p[a + 1]
    BY <1>2, <1>3, ChunkCovers
  <2> QED BY <1>3, <2>1 DEF Covers
<1>4. CASE ~Covers(c, a)
  <2>1. d \in Chunks(p) \ U
    BY <1>4
  <2>2. s.bytecode[a] = p[a + 1]
    BY <2>1 DEF Arrived
  <2> QED BY <1>4, <2>2 DEF Covers
<1> QED BY <1>3, <1>4

\* A reset between two chunks finds no was-true bit to clear in those that arrived.
LEMMA ResetArrived ==
  ASSUME NEW s, Typed(s), NEW p \in Programs, Unremembered(p), NEW U, U \subseteq Chunks(p),
         Arrived(s, U, p)
  PROVE  Arrived(Reset(s), U, p)
<1>1. \A a \in Addrs : a \in Int
  BY DEF Addrs
<1> SUFFICES ASSUME NEW c \in Chunks(p) \ U, NEW a \in Addrs, Covers(c, a)
             PROVE  Reset(s).bytecode[a] = p[a + 1]
  BY DEF Arrived
<1> DEFINE w == s.bytecode[a]
<1>2. w = p[a + 1]
  BY DEF Arrived
<1>3. a \in 0..(Len(p) - 1)
  BY <1>1, ChunkCovers
<1>4. p[a + 1] \in Words /\ (Op(p[a + 1]) = 10 => Bit(p[a + 1], WasTrueBit) = 0)
  <2>1. p \in Seq(Words) /\ Len(p) \in Nat
    BY SizesAssumption
  <2>2. a + 1 \in 1..Len(p) /\ a + 1 \in DOMAIN p
    BY <1>3, <2>1
  <2> QED BY <2>1, <2>2 DEF Unremembered
<1>5. CASE Reset(s).bytecode[a] = w
  BY <1>2, <1>5
<1>6. CASE Op(w) = 10 /\ Reset(s).bytecode[a] = SetWasTrue(w, FALSE)
  <2>1. w \in Words /\ Op(w) = 10 /\ Bit(w, WasTrueBit) = 0
    BY <1>2, <1>4, <1>6
  <2> HIDE DEF w
  <2>2. SetWasTrue(w, FALSE) = w
    BY <2>1, WasTrueParts, Zenon
  <2> QED BY <1>2, <1>6, <2>2, Zenon
<1> QED BY <1>5, <1>6, ResetWords

\* Once every chunk has arrived the machine holds the program.
LEMMA ArrivedIsIntact ==
  ASSUME NEW s, NEW p \in Programs, NEW l, Good(p, l), Arrived(s, {}, p)
  PROVE  Intact(s, p, l)
<1> SUFFICES ASSUME NEW a \in 0..(Len(p) - 1) PROVE s.bytecode[a] = p[a + 1]
  BY DEF Intact
<1>1. a \in Addrs
  BY SizesAssumption DEF Good, Verified, Addrs
<1>2. \E c \in Chunks(p) : Covers(c, a)
  BY ChunksCover
<1> QED BY <1>1, <1>2 DEF Arrived

-----------------------------------------------------------------------------
(* The inductive invariant of the code *)

\* The program a machine holds to which p was sent last, {} chunks of it being on their
\* way; the space of a machine no program was sent to is that of a program without events.
Image(p) == IF p = <<>> THEN <<0>> ELSE p

Executes(s, p) == \E l : HasProgram(s, p, l)

Holding(s, U, p) ==
  /\ U = {} => Executes(s, Image(p))
  /\ U # {} => p \in Programs /\ U \subseteq Chunks(p) /\ Arrived(s, U, p)
  /\ U # {} /\ U = Chunks(p) => \E q : Executes(s, q)

\* The size of the vector table is that of a program, or of none, at any moment of an upload.
Vector(s) == s.bytecode[0] = 0 \/ \E p \in Programs : s.bytecode[0] = p[1]

CodeInv ==
  /\ Compiled /\ RequestsFit
  /\ vm.fault = "none"
  /\ Vector(vm)
  /\ Holding(vm, upload, loaded)

LEMMA ResetKeepsVector ==
  ASSUME NEW s, Typed(s), Vector(s), Compiled
  PROVE  Vector(Reset(s))
<1> DEFINE w == s.bytecode[0]
<1>1. 0 \in Addrs
  BY SizesAssumption DEF Addrs
<1>2. w \in Words /\ (Op(w) = 10 => Bit(w, WasTrueBit) = 0)
  <2>1. w \in Words
    BY <1>1 DEF Typed
  <2>2. CASE w = 0
    <3>1. Op(w) # 10
      BY <2>2 DEF Op
    <3> QED BY <2>1, <3>1
  <2>3. CASE \E p \in Programs : w = p[1]
    <3>1. PICK p \in Programs : w = p[1]
      BY <2>3
    <3>2. Unremembered(p) /\ p # <<>> /\ p \in Seq(Words)
      BY SizesAssumption DEF Compiled, Verified
    <3>3. 1 \in DOMAIN p
      BY <3>2
    <3> QED BY <2>1, <3>1, <3>2, <3>3 DEF Unremembered
  <2> QED BY <2>2, <2>3 DEF Vector
<1>3. CASE Reset(s).bytecode[0] = w
  BY <1>3 DEF Vector
<1>4. CASE Op(w) = 10 /\ Reset(s).bytecode[0] = SetWasTrue(w, FALSE)
  <2>1. w \in Words /\ Op(w) = 10 /\ Bit(w, WasTrueBit) = 0
    BY <1>2, <1>4
  <2> HIDE DEF w
  <2>2. SetWasTrue(w, FALSE) = w
    BY <2>1, WasTrueParts, Zenon
  <2>3. Reset(s).bytecode[0] = w
    BY <1>4, <2>2, Zenon
  <2> QED BY <2>3 DEF Vector, w
<1> QED BY <1>1, <1>3, <1>4, ResetWords

LEMMA WrittenKeepsVector ==
  ASSUME NEW s, Typed(s), Vector(s), NEW p \in Programs, NEW c \in Chunks(p)
  PROVE  Vector(Written(s, c))
<1>1. 0 \in Addrs
  BY SizesAssumption DEF Addrs
<1>2. Written(s, c).bytecode = [a \in Addrs |-> IF a - c.start + 1 \in DOMAIN c.words
                                               THEN c.words[a - c.start + 1] ELSE s.bytecode[a]]
  BY DEF Written, Typed, IsState, Fields
<1>3. CASE Covers(c, 0)
  <2>1. c.words[0 - c.start + 1] = p[0 + 1]
    BY <1>3, ChunkCovers
  <2>2. Written(s, c).bytecode[0] = c.words[0 - c.start + 1]
    BY <1>1, <1>2, <1>3 DEF Covers
  <2> QED BY <2>1, <2>2 DEF Vector
<1>4. CASE ~Covers(c, 0)
  <2>1. Written(s, c).bytecode[0] = s.bytecode[0]
    BY <1>1, <1>2, <1>4 DEF Covers
  <2> QED BY <2>1 DEF Vector
<1> QED BY <1>3, <1>4

\* The table a size that is a program's leaves room for lies in the bytecode space.
LEMMA VectorFits ==
  ASSUME NEW s, Vector(s), Compiled
  PROVE  \A i \in 1..(s.bytecode[0] - 1) : i % 2 = 1 => i + 1 \in Addrs
<1> SUFFICES ASSUME NEW i \in 1..(s.bytecode[0] - 1), i % 2 = 1 PROVE i + 1 \in Addrs
  OBVIOUS
<1>1. CASE s.bytecode[0] = 0
  <2>1. 1..(0 - 1) = {}
    OBVIOUS
  <2> QED BY <1>1, <2>1
<1>2. CASE \E p \in Programs : s.bytecode[0] = p[1]
  <2>1. PICK p \in Programs : s.bytecode[0] = p[1]
    BY <1>2
  <2>2. PICK l : Verified(p, l)
    BY DEF Compiled
  <2>3. /\ p \in Seq(Words) /\ p # <<>> /\ Len(p) \in Nat /\ p[1] <= Len(p) /\ Len(p) <= BytecodeSize
        /\ BytecodeSize \in Nat
    BY <2>2, SizesAssumption DEF Verified
  <2>4. p[1] \in Nat
    <3>1. p[1] \in Words
      BY <2>3
    <3> QED BY <3>1, WordBounds
  <2>5. i + 1 < p[1]
    BY <2>1, <2>2 DEF Verified, TableLeadsToEvents
  <2> QED BY <2>1, <2>3, <2>4, <2>5 DEF Addrs
<1> QED BY <1>1, <1>2 DEF Vector

\* The code stays, and so does what was said of the machine that executes it.
LEMMA HoldingKept ==
  ASSUME NEW s, NEW t, NEW U, NEW p, Holding(s, U, p), t.bytecode = s.bytecode,
         \A q, l : HasProgram(s, q, l) => HasProgram(t, q, l)
  PROVE  Holding(t, U, p)
<1>1. \A q : Executes(s, q) => Executes(t, q)
  BY DEF Executes
<1>2. Arrived(s, U, p) => Arrived(t, U, p)
  BY DEF Arrived
<1> QED BY <1>1, <1>2 DEF Holding

\* Flags may go, and others than "active" come.
LEMMA CalmKeepsProgram ==
  ASSUME NEW s, NEW t, t.bytecode = s.bytecode, t.pc = s.pc, t.stack = s.stack,
         "active" \in t.flags => "active" \in s.flags
  PROVE  \A q, l : HasProgram(s, q, l) => HasProgram(t, q, l)
BY DEF HasProgram, Intact, InPlace

LEMMA SetupKeepsHolding ==
  ASSUME NEW s, Typed(s), NEW e, NEW U, NEW p, Holding(s, U, p)
  PROVE  Holding(SetupEvent(s, e), U, p)
<1>1. SetupEvent(s, e).bytecode = s.bytecode
  BY SetupKeepsCode DEF Typed, SameCode
<1>2. \A q, l : HasProgram(s, q, l) => HasProgram(SetupEvent(s, e), q, l)
  BY SetupInPlace
<1> QED BY <1>1, <1>2, HoldingKept

LEMMA ResetKeepsHolding ==
  ASSUME NEW s, Typed(s), NEW U, NEW p, Holding(s, U, p), Compiled
  PROVE  Holding(Reset(s), U, p)
<1>1. \A q : Executes(s, q) => Executes(Reset(s), q)
  BY ResetInPlace DEF Executes, HasProgram
<1>2. p \in Programs => Unremembered(p)
  BY DEF Compiled
<1>3. U # {} => Arrived(Reset(s), U, p)
  BY <1>2, ResetArrived DEF Holding
<1> QED BY <1>1, <1>3 DEF Holding

\* A step is executed only of a program that is there.
LEMMA StepKeepsHolding ==
  ASSUME NEW s, Typed(s), s.fault = "none", "active" \in s.flags,
         NEW U, NEW p, Holding(s, U, p), U = {} \/ U = Chunks(p), NEW t \in AsebaVMStep(s)
  PROVE  t.fault = "none" /\ t.bytecode[0] = s.bytecode[0] /\ Holding(t, U, p)
<1>1. ASSUME NEW q, Executes(s, q)
      PROVE  t.fault = "none" /\ t.bytecode[0] = s.bytecode[0] /\ Executes(t, q)
  <2>1. PICK l : HasProgram(s, q, l)
    BY <1>1 DEF Executes
  <2>2. Good(q, l) /\ Intact(s, q, l) /\ InPlace(s, l) /\ s.pc \in DOMAIN l
    BY <2>1 DEF HasProgram, InPlace
  <2>3. t.fault = "none" /\ ("active" \in t.flags => InPlace(t, l))
    BY <2>2, StepInPlace
  <2>4. Intact(t, q, l)
    BY <2>2, StepKeepsIntact
  <2>5. s.bytecode[0] = q[1] /\ t.bytecode[0] = q[1]
    BY <2>2, <2>4, TableStays
  <2> QED BY <2>2, <2>3, <2>4, <2>5 DEF Executes, HasProgram
<1>2. CASE U = {}
  BY <1>1, <1>2 DEF Holding
<1>3. CASE U # {} /\ U = Chunks(p)
  <2>1. Arrived(t, U, p)
    BY <1>3 DEF Arrived
  <2> QED BY <1>1, <1>3, <2>1 DEF Holding
<1> QED BY <1>2, <1>3

\* The machine stands where it stood, and no event was made active.
Calm(s, t) ==
  /\ t.bytecode = s.bytecode /\ t.pc = s.pc /\ t.stack = s.stack /\ t.fault = s.fault
  /\ "active" \in t.flags => "active" \in s.flags

LEMMA CodeInitially == Compiled /\ RequestsFit /\ Init => CodeInv
<1> SUFFICES ASSUME Compiled, RequestsFit, Init PROVE CodeInv
  OBVIOUS
<1> DEFINE p == <<0>>
           l == <<>>
<1>1. p \in Seq(Words) /\ Len(p) = 1 /\ p[1] = 0 /\ p # <<>> /\ DOMAIN l = {} /\ DOMAIN p = {1}
  BY WordBounds
<1>2. BytecodeSize \in Nat /\ 1 <= BytecodeSize
  BY SizesAssumption
<1> HIDE DEF p, l
<1>3. Op(0) # 10
  BY DEF Op
<1>4. Unremembered(p)
  BY <1>1, <1>3 DEF Unremembered
<1>5. TableLeadsToEvents(p, l)
  <2>1. \A i \in 1..(p[1] - 1) : FALSE
    BY <1>1
  <2> QED BY <2>1 DEF TableLeadsToEvents
<1>6. Verified(p, l)
  BY <1>1, <1>2, <1>5 DEF Verified
<1>7. /\ vm.bytecode = [a \in Addrs |-> 0] /\ vm.flags = {} /\ vm.fault = "none"
      /\ upload = {} /\ loaded = <<>>
  BY DEF Init, VMInit
<1>8. Intact(vm, p, l)
  <2> SUFFICES ASSUME NEW a \in 0..(Len(p) - 1) PROVE vm.bytecode[a] = p[a + 1]
    BY DEF Intact
  <2>1. a = 0 /\ a \in Addrs
    BY <1>1, <1>2 DEF Addrs
  <2> QED BY <1>1, <1>7, <2>1
<1>9. HasProgram(vm, p, l)
  BY <1>1, <1>4, <1>6, <1>7, <1>8 DEF HasProgram, Good
<1>10. Image(loaded) = p
  BY <1>7 DEF Image, p
<1>11. Vector(vm)
  <2>1. 0 \in Addrs
    BY <1>2 DEF Addrs
  <2> QED BY <1>7, <2>1 DEF Vector
<1> QED BY <1>7, <1>9, <1>10, <1>11 DEF CodeInv, Holding, Executes

LEMMA CalmPreserves ==
  ASSUME CodeInv, Calm(vm, vm'), UNCHANGED <<upload, loaded>>
  PROVE  CodeInv'
<1> DEFINE t == vm'
<1>1. Calm(vm, t) /\ Holding(vm, upload, loaded)
  BY DEF CodeInv
<1>2. Holding(t, upload, loaded)
  BY <1>1, CalmKeepsProgram, HoldingKept DEF Calm
<1>3. t.fault = "none" /\ Compiled /\ RequestsFit /\ Vector(t)
  BY <1>1 DEF Calm, CodeInv, Vector
<1> QED BY <1>2, <1>3 DEF CodeInv

\* From s to t nothing changed but the variables.
LEMMA SetupPreserves ==
  ASSUME CodeInv, NEW t, Typed(t), Calm(vm, t), NEW e, vm' = SetupEvent(t, e),
         UNCHANGED <<upload, loaded>>
  PROVE  CodeInv'
<1>1. Holding(vm, upload, loaded) /\ vm.fault = "none" /\ Compiled
  BY DEF CodeInv
<1>2. Holding(t, upload, loaded)
  BY <1>1, CalmKeepsProgram, HoldingKept DEF Calm
<1>3. Holding(SetupEvent(t, e), upload, loaded)
  BY <1>2, SetupKeepsHolding
<1>4. SetupEvent(t, e).fault = "none" /\ SetupEvent(t, e).bytecode = t.bytecode
  BY <1>1, FaultKept, SetupKeepsCode DEF Typed, Calm, SameCode
<1>5. Vector(SetupEvent(t, e)) /\ RequestsFit
  BY <1>4 DEF CodeInv, Calm, Vector
<1> QED BY <1>1, <1>3, <1>4, <1>5 DEF CodeInv

\* The last chunk makes the program run; the others are kept until it has come.
LEMMA ChunkPreserves ==
  ASSUME TypeInv, CodeInv, NEW c \in upload, SetBytecode(c)
  PROVE  CodeInv'
<1> DEFINE w == Written(vm, c)
           U == upload \ {c}
           p == loaded
<1>1. /\ p \in Programs /\ upload \subseteq Chunks(p) /\ Arrived(vm, upload, p)
      /\ Compiled /\ RequestsFit /\ vm.fault = "none" /\ Vector(vm) /\ Typed(vm)
  BY DEF CodeInv, Holding, TypeInv
<1>2. c \in Chunks(p) /\ U \subseteq Chunks(p) /\ U # Chunks(p)
  BY <1>1
<1>3. Typed(w)
  <2>1. \A i \in DOMAIN c.words : c.words[i] \in Words
    BY <1>1, <1>2, ChunkWords
  <2> QED BY <1>1, <2>1, WrittenKeepsType
<1>4. Arrived(w, U, p)
  BY <1>1, <1>2, WrittenArrives
<1>5. w.fault = "none"
  <2>1. PICK l : p # <<>> /\ Len(p) <= BytecodeSize /\ Len(p) \in Nat /\ BytecodeSize \in Nat
    BY <1>1, SizesAssumption DEF Compiled, Verified
  <2>2. c.start + Len(c.words) <= Len(p)
    BY <1>1, <1>2, <2>1, ChunkEnds
  <2>3. c.start \in Int /\ Len(c.words) \in Int
    BY <1>1, <1>2, <2>1, ChunkEnds
  <2>4. ~(c.start + Len(c.words) > BytecodeSize)
    BY <2>1, <2>2, <2>3
  <2> QED BY <1>1, <2>4 DEF Written, Typed, IsState, Fields
<1>v. Vector(w)
  BY <1>1, <1>2, WrittenKeepsVector
<1> HIDE DEF w
<1>6. Arrived(Reset(w), U, p)
  BY <1>1, <1>2, <1>3, <1>4, ResetArrived DEF Compiled
<1>7. Reset(w).fault = "none"
  BY <1>3, <1>5, ResetKeepsFault DEF Typed
<1>8. PICK l : Good(p, l)
  BY <1>1, SizesAssumption DEF Compiled, Good
<1>9. Image(p) = p
  BY <1>8 DEF Image, Good, Verified
<1>10. U = {} => HasProgram(Reset(w), p, l)
  BY <1>1, <1>3, <1>4, <1>8, ArrivedIsIntact, ResetInPlace
<1>11. Holding(Reset(w), U, p)
  BY <1>1, <1>2, <1>6, <1>9, <1>10 DEF Holding, Executes
<1>12. vm' = Reset(w) /\ upload' = U /\ loaded' = p
  BY DEF SetBytecode, w
<1>13. Vector(Reset(w))
  BY <1>1, <1>3, <1>v, ResetKeepsVector
<1> QED BY <1>1, <1>7, <1>11, <1>12, <1>13 DEF CodeInv

LEMMA MessageKeepsCode ==
  ASSUME TypeInv, CodeInv, Message
  PROVE  CodeInv'
<1>s. /\ Typed(vm) /\ IsState(vm) /\ vm.fault = "none" /\ Compiled /\ RequestsFit /\ Vector(vm)
      /\ Holding(vm, upload, loaded)
  BY DEF TypeInv, CodeInv, Typed
<1>h. ASSUME NEW t, Calm(vm, t), Handle(t) PROVE CodeInv'
  BY <1>h, CalmPreserves DEF Handle
<1>f. ASSUME NEW F, "active" \in F => "active" \in vm.flags
      PROVE  Calm(vm, SayState([vm EXCEPT !.flags = F]))
  BY <1>s, <1>f DEF Calm, SayState, IsState, Fields
<1>1. CASE \E c \in upload : SetBytecode(c)
  BY <1>1, ChunkPreserves
<1>2. CASE ResetMsg
  <2>1. Holding(Reset(vm), upload, loaded) /\ Reset(vm).fault = "none" /\ Vector(Reset(vm))
    BY <1>s, ResetKeepsHolding, ResetKeepsFault, ResetKeepsVector
  <2>2. vm' = Reset(vm) /\ UNCHANGED <<upload, loaded>>
    BY <1>2 DEF ResetMsg, Handle
  <2> QED BY <1>s, <2>1, <2>2 DEF CodeInv
<1>3. CASE RunMsg
  <2>1. Handle(SayState([vm EXCEPT !.flags = vm.flags \ {"step"}]))
    BY <1>3 DEF RunMsg
  <2> QED BY <1>f, <1>h, <2>1
<1>4. CASE Pause
  <2>1. Handle(SayState([vm EXCEPT !.flags = vm.flags \cup {"step"}]))
    BY <1>4 DEF Pause
  <2> QED BY <1>f, <1>h, <2>1
<1>5. CASE StepMsg
  <2>1. PICK t \in AsebaVMStep(vm) : Handle(SayState(t))
    BY <1>5 DEF StepMsg
  <2>2. upload = {} /\ "active" \in vm.flags
    BY <1>5 DEF StepMsg
  <2>3. t.fault = "none" /\ Holding(t, upload, loaded) /\ Vector(t)
    BY <1>s, <2>2, StepKeepsHolding DEF Vector
  <2>4. IsState(t)
    BY <1>s, StepKeepsType DEF Typed
  <2> DEFINE u == SayState(t)
  <2>5. u.bytecode = t.bytecode /\ u.pc = t.pc /\ u.stack = t.stack /\ u.flags = t.flags
        /\ u.fault = t.fault
    BY <2>4 DEF SayState, IsState, Fields
  <2>6. vm' = u /\ UNCHANGED <<upload, loaded>>
    BY <2>1 DEF Handle
  <2> HIDE DEF u
  <2>7. Holding(u, upload, loaded)
    BY <2>3, <2>5, CalmKeepsProgram, HoldingKept
  <2>8. Vector(u)
    BY <2>3, <2>5 DEF Vector
  <2> QED BY <1>s, <2>3, <2>5, <2>6, <2>7, <2>8 DEF CodeInv
<1>6. CASE StopMsg
  <2>1. Handle(SayState([vm EXCEPT !.flags = {"step"}]))
    BY <1>6 DEF StopMsg
  <2> QED BY <1>f, <1>h, <2>1
<1>7. CASE GetExecutionState
  <2>1. Calm(vm, SayState(vm))
    BY <1>s DEF Calm, SayState, IsState, Fields
  <2> QED BY <1>7, <1>h, <2>1 DEF GetExecutionState
<1>b. \A b : Calm(vm, [vm EXCEPT !.breakpoints = b])
  BY <1>s DEF Calm, IsState, Fields
<1>8. CASE \E pc \in BreakpointPcs : BreakpointSet(pc) \/ BreakpointClear(pc)
  <2>1. PICK pc \in BreakpointPcs : BreakpointSet(pc) \/ BreakpointClear(pc)
    BY <1>8
  <2>2. \/ Handle(vm) \/ \E b : Handle([vm EXCEPT !.breakpoints = b])
    <3>1. CASE BreakpointSet(pc)
      BY <1>s, <3>1, BreakpointOutcome
    <3>2. CASE BreakpointClear(pc)
      BY <3>2 DEF BreakpointClear
    <3> QED BY <2>1, <3>1, <3>2
  <2>3. Calm(vm, vm)
    BY DEF Calm
  <2> QED BY <2>2, <2>3, <1>b, <1>h
<1>9. CASE BreakpointClearAll
  BY <1>9, <1>b, <1>h DEF BreakpointClearAll
<1>10. CASE VariablesMsg
  <2>1. Calm(vm, vm) /\ \A v : Calm(vm, [vm EXCEPT !.variables = v])
    BY <1>s DEF Calm, IsState, Fields
  <2> QED BY <1>10, <1>s, <2>1, <1>h, VariablesOutcome
<1>v. /\ \A a, v : v \in Values => Typed([vm EXCEPT !.variables[a] = v])
      /\ \A v \in ArgValues : v \in Values
  <2>1. Typed(vm)
    BY <1>s
  <2>2. \A a, v : v \in Values => Typed([vm EXCEPT !.variables[a] = v])
    BY <2>1, HelpersKeepType
  <2>3. \A v \in ArgValues : v \in Values
    BY SizesAssumption
  <2> QED BY <2>2, <2>3
<1>o. 0 \in Values /\ 1 \in Values
  BY WordBounds
<1>11. CASE \E e \in UserEvents, v \in ArgValues : UserEvent(e, v)
  <2>1. PICK e \in UserEvents, v \in ArgValues : UserEvent(e, v)
    BY <1>11
  <2> DEFINE t == [vm EXCEPT !.variables[SourceAddr] = 1]
             u == [t EXCEPT !.variables[SourceAddr + 1] = v]
  <2>2. Typed(t) /\ Calm(vm, t)
    BY <1>s, <1>o, <1>v DEF Calm, IsState, Fields
  <2>3. vm' = SetupEvent(u, e) /\ UNCHANGED <<upload, loaded>>
    BY <2>1 DEF UserEvent, Handle
  <2> HIDE DEF t
  <2>4. Typed(u)
    BY <1>v, <2>2, HelpersKeepType
  <2>5. Calm(vm, u)
    BY <2>2 DEF Calm, Typed, IsState, Fields
  <2> HIDE DEF u
  <2> QED BY <2>3, <2>4, <2>5, SetupPreserves
<1>12. CASE \E e \in LocalEvents : LocalEvent(e)
  <2>1. PICK e \in LocalEvents : LocalEvent(e)
    BY <1>12
  <2> DEFINE t == [vm EXCEPT !.variables[SourceAddr] = 0]
  <2>2. Typed(t) /\ Calm(vm, t)
    BY <1>s, <1>o, <1>v DEF Calm, IsState, Fields
  <2>3. vm' = SetupEvent(t, e) /\ UNCHANGED <<upload, loaded>>
    BY <2>1 DEF LocalEvent, Handle
  <2> HIDE DEF t
  <2> QED BY <2>2, <2>3, SetupPreserves
<1> QED
  BY <1>1, <1>2, <1>3, <1>4, <1>5, <1>6, <1>7, <1>8, <1>9, <1>10, <1>11, <1>12 DEF Message, VariablesMsg

LEMMA RunKeepsCode ==
  ASSUME IInv, TypeInv, CodeInv, Run
  PROVE  CodeInv'
<1>s. /\ Typed(vm) /\ IsState(vm) /\ vm.fault = "none" /\ Compiled /\ RequestsFit /\ Vector(vm)
      /\ Holding(vm, upload, loaded)
  BY DEF TypeInv, CodeInv, Typed
<1>1. CASE VMRun
  <2>1. vm' = vm \/ vm' = [vm EXCEPT !.flags = @ \cup {"running"}]
    BY <1>1 DEF VMRun
  <2>2. Calm(vm, vm')
    BY <1>s, <2>1 DEF Calm, IsState, Fields
  <2> QED BY <1>1, <2>2, CalmPreserves DEF VMRun
<1>2. CASE HitBreakpoint
  <2>1. vm' = SayState([vm EXCEPT !.flags = @ \cup {"step"}]) /\ UNCHANGED <<upload, loaded>>
    BY <1>2 DEF HitBreakpoint, PausedAtBreakpoint, InLoop
  <2>2. Calm(vm, vm')
    BY <1>s, <2>1 DEF Calm, SayState, IsState, Fields
  <2> QED BY <2>1, <2>2, CalmPreserves
<1>3. CASE LoopStep
  <2>1. UNCHANGED <<upload, loaded>> /\ "active" \in vm.flags /\ Looping
    BY <1>3 DEF LoopStep, InLoop, LoopCondition, Looping
  <2>2. upload = {} \/ upload = Chunks(loaded)
    BY <2>1 DEF IInv, HalfLoadedNeverRuns, Looping
  <2>3. PICK t \in AsebaVMStep(vm) :
          \/ vm' = [KillSlowEvent(t) EXCEPT !.flags = @ \ {"running"}]
          \/ vm' = t
    BY <1>3 DEF LoopStep
  <2>4. t.fault = "none" /\ Holding(t, upload, loaded) /\ Vector(t)
    BY <1>s, <2>1, <2>2, StepKeepsHolding DEF Vector
  <2>5. IsState(t)
    BY <1>s, StepKeepsType DEF Typed
  <2>6. Calm(t, vm')
    <3>1. CASE vm' = t
      BY <3>1 DEF Calm
    <3>2. CASE vm' = [KillSlowEvent(t) EXCEPT !.flags = @ \ {"running"}]
      BY <2>5, <3>2 DEF Calm, KillSlowEvent, SayKilled, IsState, Fields
    <3> QED BY <2>3, <3>1, <3>2
  <2>7. Holding(vm', upload, loaded)
    BY <2>4, <2>6, CalmKeepsProgram, HoldingKept DEF Calm
  <2>8. (vm').fault = "none" /\ Vector(vm')
    BY <2>4, <2>6 DEF Calm, Vector
  <2> QED BY <1>s, <2>1, <2>7, <2>8 DEF CodeInv
<1>4. CASE LoopEnd
  <2>1. vm' = [vm EXCEPT !.flags = @ \ {"running"}] /\ UNCHANGED <<upload, loaded>>
    BY <1>4 DEF LoopEnd, InLoop
  <2>2. Calm(vm, vm')
    BY <1>s, <2>1 DEF Calm, IsState, Fields
  <2> QED BY <2>1, <2>2, CalmPreserves
<1> QED BY <1>1, <1>2, <1>3, <1>4 DEF Run

LEMMA NextKeepsCode == IInv /\ TypeInv /\ CodeInv /\ [Next]_vars => CodeInv'
<1> SUFFICES ASSUME IInv, TypeInv, CodeInv, [Next]_vars PROVE CodeInv'
  OBVIOUS
<1>1. CASE Run
  BY <1>1, RunKeepsCode
<1>2. CASE Message
  BY <1>2, MessageKeepsCode
<1>3. CASE \E p \in Programs : Upload(p)
  <2>1. PICK p \in Programs : Upload(p)
    BY <1>3
  <2>2. /\ upload = {} /\ upload' = Chunks(p) /\ loaded' = p /\ vm' = vm
        /\ vm.fault = "none" /\ Compiled /\ RequestsFit /\ Vector(vm) /\ Executes(vm, Image(loaded))
    BY <2>1 DEF Upload, CodeInv, Holding
  <2>3. Chunks(p) # {}
    <3>1. p # <<>> /\ Len(p) \in Nat /\ p \in Seq(Words)
      BY <2>2, SizesAssumption DEF Compiled, Verified
    <3>2. 0 \in 0..(Len(p) - 1)
      BY <3>1
    <3> QED BY <3>2, ChunksCover
  <2>4. Arrived(vm, Chunks(p), p)
    BY DEF Arrived
  <2>5. Holding(vm, Chunks(p), p)
    BY <2>2, <2>3, <2>4 DEF Holding
  <2> QED BY <2>2, <2>5 DEF CodeInv
<1>4. CASE UNCHANGED vars
  BY <1>4 DEF vars, CodeInv
<1> QED BY <1>1, <1>2, <1>3, <1>4 DEF Next

LEMMA CodeInvariance == Compiled /\ RequestsFit /\ Spec => []CodeInv
<1>1. Spec => []TypeInv
  BY TypesInitially, NextKeepsType, PTL DEF Spec
<1> QED BY CodeInitially, NextKeepsCode, <1>1, Invariance, PTL DEF Spec

\* Of programs such as the compiler lets go, and of requests such as the Thymio device
\* manager makes, no assertion of vm.c fails, no access leaves the machine's arrays or the
\* packet buffer, and the event vector table lies in the bytecode space, wherever an event
\* is interrupted by a breakpoint, an error, a stop, a reset, another event or a program
\* half of which has come.
THEOREM NoFaultOfCompiled == Compiled /\ RequestsFit /\ Spec => []NoFault
<1>1. CodeInv => NoFault
  BY VectorFits DEF CodeInv, NoFault
<1> QED BY <1>1, CodeInvariance, PTL

\* Whatever such a program executes, and whatever resets come between its chunks, the
\* machine holds it as it was sent but for the was-true bits of its own branches.
THEOREM CodeIntactOfCompiled == Compiled /\ RequestsFit /\ Spec => []CodeIntact
<1>1. CodeInv => CodeIntact
  <2> SUFFICES ASSUME CodeInv, upload = {}, NEW a \in 0..(Len(loaded) - 1)
               PROVE  \/ vm.bytecode[a] = loaded[a + 1]
                      \/ /\ a \in Branches(loaded)
                         /\ vm.bytecode[a] = SetWasTrue(loaded[a + 1], TRUE)
    BY DEF CodeIntact
  <2>1. CASE loaded = <<>>
    BY <2>1
  <2>2. CASE loaded # <<>>
    <3>1. PICK l : HasProgram(vm, loaded, l)
      BY <2>2 DEF CodeInv, Holding, Executes, Image
    <3>2. \A x \in DOMAIN l : Op(loaded[x + 1]) = 10 => x \in Branches(loaded)
      BY <3>1 DEF HasProgram, Good, Verified, Checks, Placed, At
    <3>3. \/ vm.bytecode[a] = loaded[a + 1]
          \/ /\ a \in DOMAIN l /\ Op(loaded[a + 1]) = 10
             /\ vm.bytecode[a] = SetWasTrue(loaded[a + 1], TRUE)
      BY <3>1 DEF HasProgram, Intact
    <3> QED BY <3>2, <3>3, Zenon
  <2> QED BY <2>1, <2>2
<1> QED BY <1>1, CodeInvariance, PTL
=============================================================================
