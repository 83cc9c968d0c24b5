------------------------- MODULE CompiledPrograms -------------------------
(***************************************************************************)
(* What the virtual machine takes for granted of a program: what the       *)
(* compiler establishes before it lets one go.  Compiler::verifyStackCalls *)
(* bounds the stack along every chain of calls, Compiler::link lays events *)
(* and subroutines out behind the event vector table.                      *)
(*                                                                         *)
(* A layout l of a program maps the addresses of its instructions to the   *)
(* callDepth of the event or subroutine they belong to (level; 0 for an    *)
(* event), to the operands on the stack before them (depth) and to what    *)
(* the compiler knows of these: the immediates among them, by their place  *)
(* from the bottom (known).                                                *)
(***************************************************************************)
EXTENDS AsebaVM

\* The word of program p at address a.
At(p, a) == p[a + 1]

\* The operands an instruction takes from the stack, and those it leaves instead.
Taken(w) == CASE Op(w) \in {4, 5, 7} -> 1
              [] Op(w) \in {6, 8, 10} -> 2
              [] Op(w) = 12 -> NativePops[Low(w)]
              [] OTHER -> 0

Given(w) == IF Op(w) \in {1, 2, 3, 5, 7, 8} THEN 1 ELSE 0

\* Where execution may go on in the same event or subroutine.
Following(p, a) ==
  CASE Op(At(p, a)) \in {0, 14} -> {}
    [] Op(At(p, a)) = 9 -> {a + Imm12(At(p, a))}
    [] Op(At(p, a)) = 10 -> {a + 2, a + Int16(At(p, a + 1))}
    [] OTHER -> {a + Width(At(p, a))}

\* Variables and arrays lie in the variables, operators and native functions exist.
OperandsFit(p, a) ==
  LET w == At(p, a)
  IN  /\ Op(w) # 15
      /\ Op(w) \in {3, 4} => Low(w) < VariablesSize
      /\ Op(w) \in {5, 6} => Low(w) + At(p, a + 1) <= VariablesSize
      /\ Op(w) = 7 => w % 256 <= 2
      /\ Op(w) \in {8, 10} => w % 256 <= 17
      /\ Op(w) = 11 => /\ At(p, a + 1) + At(p, a + 2) <= VariablesSize
                       /\ 2 * At(p, a + 2) <= MaxEventArgSize
      /\ Op(w) = 12 => Low(w) \in DOMAIN NativePops

\* An operand is known where an immediate pushed it, and as long as it is not taken.
Immediate(p, a) ==
  CASE Op(At(p, a)) = 1 -> {Imm12(At(p, a))}
    [] Op(At(p, a)) = 2 -> {Int16(At(p, a + 1))}
    [] OTHER -> {}

KnownAfter(p, l, a, b) ==
  LET kept == l[a].depth - Taken(At(p, a))
  IN  \A j \in DOMAIN l[b].known :
         \/ j <= kept /\ j \in DOMAIN l[a].known /\ l[b].known[j] = l[a].known[j]
         \/ j = kept + 1 /\ l[b].known[j] \in Immediate(p, a)

\* CallNode pushes the addresses and the sizes of a native function's arguments, which
\* are variables at constant places.  LoadNativeArgNode, which computes the place of one
\* element of an array, is left out.
NativesKnown(p, l, a) ==
  LET id == Low(At(p, a))
  IN  Op(At(p, a)) = 12 =>
        /\ (l[a].depth - NativePops[id] + 1)..l[a].depth \subseteq DOMAIN l[a].known
        /\ NativeFits(l[a].known, l[a].depth, id)

\* Instructions lie one after the other behind the table, and do not overlap.
Placed(p, l, a) ==
  /\ p[1] <= a /\ a + Width(At(p, a)) <= Len(p)
  /\ \A k \in {1, 2} : k < Width(At(p, a)) => a + k \notin DOMAIN l
  /\ Op(At(p, a)) = 10 => a \in Branches(p)

\* A call is a statement of its own; the subroutine is deeper than its caller.
CallsDeeper(p, l, a) ==
  Op(At(p, a)) = 13 => LET sub == Low(At(p, a))
                       IN  /\ l[a].depth = 0 /\ sub \in DOMAIN l
                           /\ l[sub].level > l[a].level /\ l[sub].depth = 0

\* What holds of the instruction at a.
Checks(p, l, a) ==
  /\ Placed(p, l, a)
  /\ OperandsFit(p, a)
  /\ Taken(At(p, a)) <= l[a].depth /\ l[a].level + l[a].depth <= StackSize
  /\ \A b \in Following(p, a) :
        /\ b \in DOMAIN l /\ l[b].level = l[a].level
        /\ l[b].depth = l[a].depth - Taken(At(p, a)) + Given(At(p, a))
        /\ KnownAfter(p, l, a, b)
  /\ NativesKnown(p, l, a)
  /\ CallsDeeper(p, l, a)
  /\ Op(At(p, a)) = 14 => l[a].level > 0 /\ l[a].depth = 0

\* The entries of the event vector table lead to events.
TableLeadsToEvents(p, l) ==
  \A i \in 1..(p[1] - 1) :
     i % 2 = 1 => /\ i + 1 < p[1] /\ At(p, i + 1) \in DOMAIN l
                  /\ l[At(p, i + 1)].level = 0 /\ l[At(p, i + 1)].depth = 0

Verified(p, l) ==
  /\ p # <<>> /\ p[1] <= Len(p) /\ Len(p) <= BytecodeSize
  /\ DOMAIN l \subseteq Nat
  /\ \A a \in DOMAIN l : /\ l[a].level \in Nat /\ l[a].depth \in Nat
                         /\ DOMAIN l[a].known \subseteq 1..l[a].depth
  /\ \A a \in DOMAIN l : Checks(p, l, a)
  /\ TableLeadsToEvents(p, l)

\* No word of the program, instruction or operand, looks like a conditional branch that
\* remembers a true condition: AsebaVMResetWhenFlags leaves such words alone.
Unremembered(p) ==
  \A i \in DOMAIN p : Op(p[i]) = 10 => Bit(p[i], WasTrueBit) = 0

\* The programs are such as the compiler lets go.
Compiled == \A p \in Programs : Unremembered(p) /\ \E l : Verified(p, l)

\* The messages of a debugger are such as the Thymio device manager sends: breakpoints at
\* addresses of the bytecode (set_breakpoints), variables as the robot's description names
\* them (set_node_variables, request_variables), no more at a time than a message holds.
RequestsFit ==
  /\ BreakpointPcs \subseteq Addrs
  /\ \A x \in Spans : Inside(x) /\ 2 + 2 * x.length <= MaxEventArgSize
=============================================================================
