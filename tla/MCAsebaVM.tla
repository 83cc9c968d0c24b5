---------------------------- MODULE MCAsebaVM ----------------------------
(* Programs, in the layout Compiler::link gives them, for the runs of AsebaVM. *)
EXTENDS CompiledPrograms

Inst(op, low) == op * 4096 + (low % 4096)

When(op) == Inst(10, 256 + op)

\* onevent 0:  when arg > 0 do callsub divide end
\* onevent local:  x = 5000;  a[arg] = a[arg];  x = -x (kept in a[arg]);  native(x);  emit;
\*                 and again, without end
\* sub divide:  x = arg / x
MCWhole ==
  << 5, 0, 5, 65534, 11,
     Inst(3, 2), Inst(1, 0), When(12), 3, Inst(13, 28), 0,
     Inst(2, 0), 5000, Inst(3, 2), Inst(6, 3), 1, Inst(3, 2), Inst(5, 3), 1,
     Inst(7, 0), Inst(4, 3), Inst(1, 3), Inst(12, 0), Inst(11, 0), 3, 1, Inst(9, -15), 0,
     Inst(3, 2), Inst(3, 3), Inst(8, 5), Inst(4, 3), Inst(14, 0) >>

\* x = 5000;  x = -24000
MCLargeProgram ==
  << 3, 65535, 3, Inst(2, 0), 5000, Inst(4, 3), Inst(2, 0), 41536, Inst(4, 3), 0 >>

MCOne == {MCWhole}

MCLarge == {MCLargeProgram}

\* The layout of MCWhole: from 28 on it is the subroutine.
MCLayout ==
  LET at == {5, 6, 7, 9, 10, 11, 13, 14, 16, 17, 19, 20, 21, 22, 23, 26, 27, 28, 29, 30, 31, 32}
  IN  [a \in at |-> [level |-> IF a >= 28 THEN 1 ELSE 0,
                     depth |-> CASE a \in {7, 14, 30} -> 2
                                 [] a \in {6, 13, 17, 19, 20, 22, 29, 31} -> 1
                                 [] OTHER -> 0,
                     known |-> IF a = 22 THEN <<3>> ELSE <<>>]]

\* The program is one the compiler lets go, and not every program is.
ASSUME MCWholeIsVerified ==
  MCWhole \in Programs => Verified(MCWhole, MCLayout) /\ Unremembered(MCWhole)

ASSUME MCLargeIsNot ==
  MCLargeProgram \in Programs => ~Unremembered(MCLargeProgram)

\* The only native function takes one variable.
MCNativePops == [id \in {0} |-> 1]

MCNativeArgs == [id \in {0} |-> <<1>>]

\* The array a.
MCSpans == {[start |-> 3, length |-> 1]}

ASSUME MCRequestsFit == RequestsFit
=============================================================================
