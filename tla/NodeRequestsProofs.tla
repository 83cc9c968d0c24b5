------------------------- MODULE NodeRequestsProofs -------------------------
(***************************************************************************)
(* Requests of a robot, for any programs, any number of requests and any   *)
(* backlog: a robot that runs has one whole program, what the node knows   *)
(* of the robot and its breakpoints once all messages have arrived is      *)
(* true, and no request is answered twice.                                 *)
(***************************************************************************)
EXTENDS NodeRequests, FiniteSetTheorems, WellFoundedInduction, TLAPS

Modes == {"Running", "Paused", "Stopped"}

Addresses == Pcs \cup {0}

Robots ==
  [code : [PartNumbers -> AllPrograms], mode : Modes, pc : Addresses, bps : Seq(Pcs),
   steps : Nat, faults : Nat]

PlainTypes ==
  {"Run", "Reset", "Pause", "Step", "Stop", "Other", "GetExecutionState", "BreakpointClearAll"}

\* Messages to the robot and from it.
Down ==
  [type : PlainTypes]
  \cup [type : {"SetBytecode"}, program : AllPrograms, part : PartNumbers]
  \cup [type : {"BreakpointSet"}, pc : Pcs, id : Requests]
  \cup [type : {"BreakpointClear"}, pc : Pcs]

Up ==
  [type : {"ExecutionState"}, state : Modes, pc : Addresses]
  \cup [type : {"RuntimeError", "EventExecutionKilled"}, pc : Addresses]
  \cup [type : {"BreakpointSetResult"}, pc : Pcs, ok : BOOLEAN, id : Requests]

CallbackSet == {NoCallback} \cup [kind : {"answer", "load", "breakpoints"}, id : Requests]

Slots == [msg : Down, cb : CallbackSet]

BpRequests == [id : Requests, pending : SUBSET [pc : Pcs, line : Lines], set : SUBSET Lines]

StepRequests == [id : Requests, line : Lines \cup {0}]

Knowledge == [state : Modes, pc : Addresses, line : Lines \cup {0}]

Types ==
  /\ bytecode \in AllPrograms /\ breakpoints \in SUBSET Lines
  /\ bpreq \in {None} \cup BpRequests /\ stepreq \in {None} \cup StepRequests
  /\ loads \in Seq(Requests) /\ vm \in Knowledge
  /\ queue \in Seq(Slots) /\ posted \in Seq(CallbackSet \ {NoCallback}) /\ up \in Seq(Up)
  /\ robot \in Robots /\ Len(robot.bps) <= MaxBreakpoints
  /\ issued \in 0..MaxRequests /\ answered \in [Requests -> Nat]
  /\ excused \in SUBSET Requests /\ missed \in SUBSET Pcs /\ killed \in BOOLEAN

-----------------------------------------------------------------------------
(* Constants and helpers *)

LEMMA LeastNumber ==
  ASSUME NEW T \in SUBSET Nat, T # {} PROVE Min(T) \in T
<1>1. IsWellFoundedOn(OpToRel(<, Nat), Nat)
  BY NatLessThanWellFounded
<1>2. PICK x \in T : \A y \in T : ~ (<<y, x>> \in OpToRel(<, Nat))
  BY <1>1, WFMin
<1>3. \A y \in T : ~ (y < x)
  BY <1>2 DEF OpToRel
<1>4. \A y \in T : x =< y
  BY <1>3
<1> QED BY <1>4 DEF Min

LEMMA PartFacts ==
  /\ \A p \in AllPrograms : Parts[p] \in Nat /\ Parts[p] >= 1 /\ 1..Parts[p] \subseteq PartNumbers
  /\ PartNumbers \subseteq Nat \ {0} /\ 1 \in PartNumbers
  /\ NoProgram \in AllPrograms /\ StopProgram \in AllPrograms /\ Parts[NoProgram] = 1
<1>1. NoProgram \in AllPrograms /\ StopProgram \in AllPrograms
  BY DEF AllPrograms
<1>2. \A p \in AllPrograms : Parts[p] \in Nat /\ Parts[p] >= 1
  BY RequestsAssumption
<1>3. \A p \in AllPrograms : 1..Parts[p] \subseteq PartNumbers
  BY DEF PartNumbers
<1>4. PartNumbers \subseteq Nat \ {0}
  BY <1>2 DEF PartNumbers
<1>5. 1 \in PartNumbers
  BY <1>1, <1>2, <1>3
<1> QED BY <1>1, <1>2, <1>3, <1>4, <1>5, RequestsAssumption

LEMMA PcFacts ==
  /\ Pcs \subseteq Nat
  /\ \A p \in AllPrograms, l \in Lines : PcOf[p][l] # NoPc => PcOf[p][l] \in Pcs
BY RequestsAssumption DEF Pcs

LEMMA InitPcAddress ==
  ASSUME NEW p \in AllPrograms PROVE InitPc(p) \in Addresses
<1> DEFINE T == {PcOf[p][l] : l \in Lines} \ {NoPc}
<1>1. T \subseteq Pcs
  BY PcFacts
<1>2. CASE \A l \in Lines : PcOf[p][l] = NoPc
  BY <1>2 DEF InitPc, Addresses
<1>3. CASE ~ \A l \in Lines : PcOf[p][l] = NoPc
  <2>1. T # {} /\ T \in SUBSET Nat /\ InitPc(p) = Min(T)
    BY <1>1, <1>3, PcFacts DEF InitPc
  <2>2. Min(T) \in T
    BY <2>1, LeastNumber
  <2> QED BY <1>1, <2>1, <2>2 DEF Addresses
<1> QED BY <1>2, <1>3

LEMMA LineFromPcLine ==
  ASSUME NEW p, NEW pc PROVE LineFromPc(p, pc) \in Lines \cup {0}
BY DEF LineFromPc

LEMMA Joined ==
  ASSUME NEW S, NEW s \in Seq(S), NEW t \in Seq(S)
  PROVE  s \o t \in Seq(S) /\ Len(s \o t) = Len(s) + Len(t)
OBVIOUS

\* AsebaVMClearBreakpoint
LEMMA RemoveFirstSeq ==
  ASSUME NEW S, NEW s \in Seq(S), NEW e
  PROVE  RemoveFirst(s, e) \in Seq(S) /\ Len(RemoveFirst(s, e)) <= Len(s)
<1>1. CASE ~ \E i \in 1..Len(s) : s[i] = e
  BY <1>1 DEF RemoveFirst
<1>2. CASE \E i \in 1..Len(s) : s[i] = e
  <2> DEFINE I == {i \in 1..Len(s) : s[i] = e}
             k == Min(I)
  <2>1. I # {} /\ I \in SUBSET Nat
    BY <1>2
  <2>2. k \in 1..Len(s)
    BY <2>1, LeastNumber
  <2>3. RemoveFirst(s, e) = RemoveAt(s, k)
    BY <1>2, <2>1 DEF RemoveFirst, SelectInSeq
  <2> HIDE DEF k
  <2> DEFINE before == SubSeq(s, 1, k - 1)
             behind == SubSeq(s, k + 1, Len(s))
  <2>4. /\ before \in Seq(S) /\ Len(before) = k - 1
        /\ behind \in Seq(S) /\ Len(behind) = Len(s) - k
    BY <2>2
  <2>5. RemoveFirst(s, e) = before \o behind
    BY <2>3 DEF RemoveAt
  <2> HIDE DEF before, behind
  <2>6. before \o behind \in Seq(S) /\ Len(before \o behind) = Len(before) + Len(behind)
    BY <2>4
  <2> QED BY <2>2, <2>4, <2>5, <2>6
<1> QED BY <1>1, <1>2

\* write_messages: what is queued keeps its place, and the batch comes behind it, last first.
LEMMA QueuedSlots ==
  ASSUME NEW q \in Seq(Slots), NEW msgs \in Seq(Down), NEW cb \in CallbackSet
  PROVE  /\ Queued(q, msgs, cb) \in Seq(Slots)
         /\ Len(Queued(q, msgs, cb)) = Len(q) + Len(msgs)
         /\ \A i \in 1..Len(q) : Queued(q, msgs, cb)[i] = q[i]
         /\ \A i \in 1..Len(msgs) :
              Queued(q, msgs, cb)[Len(q) + i] =
                [msg |-> msgs[Len(msgs) - i + 1], cb |-> IF i = 1 THEN cb ELSE NoCallback]
<1> DEFINE new == [i \in 1..Len(msgs) |->
                     [msg |-> Reverse(msgs)[i], cb |-> IF i = 1 THEN cb ELSE NoCallback]]
<1>1. \A i \in 1..Len(msgs) : Reverse(msgs)[i] = msgs[Len(msgs) - i + 1] /\ Reverse(msgs)[i] \in Down
  BY DEF Reverse
<1>2. NoCallback \in CallbackSet
  BY DEF CallbackSet
<1>3. \A i \in 1..Len(msgs) :
         [msg |-> Reverse(msgs)[i], cb |-> IF i = 1 THEN cb ELSE NoCallback] \in Slots
  BY <1>1, <1>2 DEF Slots
<1>4. new \in Seq(Slots) /\ Len(new) = Len(msgs)
  BY <1>3
<1>5. Queued(q, msgs, cb) = q \o new
  BY DEF Queued
<1>6. \A i \in 1..Len(msgs) :
         new[i] = [msg |-> msgs[Len(msgs) - i + 1], cb |-> IF i = 1 THEN cb ELSE NoCallback]
  BY <1>1
<1> HIDE DEF new
<1>7. q \o new \in Seq(Slots) /\ Len(q \o new) = Len(q) + Len(msgs)
  BY <1>4
<1>8. \A i \in 1..Len(q) : (q \o new)[i] = q[i]
  BY <1>4
<1>9. \A i \in 1..Len(msgs) : (q \o new)[Len(q) + i] = new[i]
  BY <1>4
<1> QED BY <1>5, <1>6, <1>7, <1>8, <1>9

\* A slot that is added.
LEMMA QueuedLate ==
  ASSUME NEW q \in Seq(Slots), NEW msgs \in Seq(Down), NEW cb \in CallbackSet,
         NEW r, r = Queued(q, msgs, cb), NEW i \in 1..Len(r), i > Len(q)
  PROVE  /\ Len(msgs) - (i - Len(q)) + 1 \in 1..Len(msgs)
         /\ r[i].msg = msgs[Len(msgs) - (i - Len(q)) + 1]
         /\ r[i].cb = IF i = Len(q) + 1 THEN cb ELSE NoCallback
<1>1. Len(q) \in Nat /\ Len(msgs) \in Nat /\ Len(r) = Len(q) + Len(msgs)
  BY QueuedSlots
<1> DEFINE j == i - Len(q)
<1>2. j \in 1..Len(msgs) /\ Len(q) + j = i /\ Len(msgs) - j + 1 \in 1..Len(msgs)
  BY <1>1
<1> HIDE DEF j
<1>3. r[Len(q) + j] = [msg |-> msgs[Len(msgs) - j + 1], cb |-> IF j = 1 THEN cb ELSE NoCallback]
  BY <1>2, QueuedSlots
<1>4. j = 1 <=> i = Len(q) + 1
  BY <1>1, <1>2
<1> QED BY <1>2, <1>3, <1>4 DEF j

\* The same, slot by slot.
LEMMA QueuedMessages ==
  ASSUME NEW q \in Seq(Slots), NEW msgs \in Seq(Down), NEW cb \in CallbackSet,
         NEW r, r = Queued(q, msgs, cb)
  PROVE  /\ r \in Seq(Slots) /\ Len(r) = Len(q) + Len(msgs)
         /\ \A i \in 1..Len(q) : i \in 1..Len(r) /\ r[i] = q[i]
         /\ \A i \in 1..Len(r) : i > Len(q) =>
              /\ Len(msgs) - (i - Len(q)) + 1 \in 1..Len(msgs)
              /\ r[i].msg = msgs[Len(msgs) - (i - Len(q)) + 1]
              /\ r[i].cb = IF i = Len(q) + 1 THEN cb ELSE NoCallback
<1>1. /\ Len(q) \in Nat /\ Len(msgs) \in Nat
      /\ r \in Seq(Slots) /\ Len(r) = Len(q) + Len(msgs) /\ \A i \in 1..Len(q) : r[i] = q[i]
  BY QueuedSlots
<1>2. ASSUME NEW i \in 1..Len(r), i > Len(q)
      PROVE  /\ Len(msgs) - (i - Len(q)) + 1 \in 1..Len(msgs)
             /\ r[i].msg = msgs[Len(msgs) - (i - Len(q)) + 1]
             /\ r[i].cb = IF i = Len(q) + 1 THEN cb ELSE NoCallback
  BY <1>2, QueuedLate
<1>3. ASSUME NEW i \in 1..Len(q) PROVE i \in 1..Len(r) /\ r[i] = q[i]
  BY <1>1
<1> QED BY <1>1, <1>2, <1>3

LEMMA QueuedKeeps ==
  ASSUME NEW q \in Seq(Slots), NEW msgs \in Seq(Down), NEW cb \in CallbackSet,
         NEW r, r = Queued(q, msgs, cb), NEW i \in 1..Len(q)
  PROVE  i \in 1..Len(r) /\ r[i] = q[i]
BY QueuedMessages

LEMMA QueuedFirst ==
  ASSUME NEW q \in Seq(Slots), NEW msgs \in Seq(Down), NEW cb \in CallbackSet,
         NEW r, r = Queued(q, msgs, cb)
  PROVE  Len(msgs) = 1 =>
           Len(r) = Len(q) + 1 /\ r[Len(q) + 1].msg = msgs[1] /\ r[Len(q) + 1].cb = cb
<1>1. Len(r) = Len(q) + Len(msgs) /\ Len(q) \in Nat
  BY QueuedMessages
<1>2. ASSUME NEW i \in 1..Len(r), i > Len(q)
      PROVE  /\ r[i].msg = msgs[Len(msgs) - (i - Len(q)) + 1]
             /\ r[i].cb = IF i = Len(q) + 1 THEN cb ELSE NoCallback
  BY <1>2, QueuedLate
<1>3. ASSUME Len(msgs) = 1, NEW i, i = Len(q) + 1
      PROVE  i \in 1..Len(r) /\ i > Len(q) /\ Len(msgs) - (i - Len(q)) + 1 = 1
  BY <1>1, <1>3
<1> QED BY <1>1, <1>2, <1>3

LEMMA SendBytecodeDown ==
  ASSUME NEW p \in AllPrograms
  PROVE  /\ SendBytecode(p) \in Seq(Down) /\ Len(SendBytecode(p)) = Parts[p]
         /\ \A k \in 1..Parts[p] : SendBytecode(p)[k] = Chunk(p, k)
<1>1. Parts[p] \in Nat
  BY PartFacts
<1>2. \A k \in 1..Parts[p] : Chunk(p, k) \in Down
  BY PartFacts DEF Chunk, Down
<1> QED BY <1>1, <1>2 DEF SendBytecode

-----------------------------------------------------------------------------
(* The robot *)

Report(m) == m.type \in {"ExecutionState", "RuntimeError", "EventExecutionKilled"}

\* What a report says is true of the robot b.  That an event was killed says nothing of it.
Tells(m, b) ==
  /\ m.type = "ExecutionState" => m.state = b.mode /\ (b.mode # "Running" => m.pc = b.pc)
  /\ m.type = "RuntimeError" => b.mode = "Stopped" /\ m.pc = b.pc

\* The robot changes its state and address only with a report, the last of which is true.
Told(b, answers) ==
  \/ b.mode = robot.mode /\ b.pc = robot.pc /\ \A i \in 1..Len(answers) : ~Report(answers[i])
  \/ answers # <<>> /\ Report(answers[Len(answers)]) /\ Tells(answers[Len(answers)], b)

\* The robot b follows, with its answers.
Follows(b, answers) ==
  /\ b \in Robots /\ Len(b.bps) <= MaxBreakpoints /\ answers \in Seq(Up)
  /\ Told(b, answers) /\ Becomes(b, answers)

LEMMA StateTells ==
  ASSUME NEW b \in Robots
  PROVE  /\ <<State(b)>> \in Seq(Up) /\ <<Error(b)>> \in Seq(Up) /\ <<Error(b), State(b)>> \in Seq(Up)
         /\ Told(b, <<State(b)>>) /\ Told(b, <<Error(b), State(b)>>)
         /\ b.mode = "Stopped" => Told(b, <<Error(b)>>)
<1>1. State(b) \in Up /\ Error(b) \in Up
  BY DEF State, Error, Up, Robots
<1>2. <<State(b)>> \in Seq(Up) /\ <<Error(b)>> \in Seq(Up) /\ <<Error(b), State(b)>> \in Seq(Up)
  BY <1>1
<1>3. Report(State(b)) /\ Tells(State(b), b)
  BY DEF Report, Tells, State
<1>4. Report(Error(b)) /\ (b.mode = "Stopped" => Tells(Error(b), b))
  BY DEF Report, Tells, Error
<1>5. /\ <<State(b)>>[Len(<<State(b)>>)] = State(b)
      /\ <<Error(b)>>[Len(<<Error(b)>>)] = Error(b)
      /\ <<Error(b), State(b)>>[Len(<<Error(b), State(b)>>)] = State(b)
      /\ <<State(b)>> # <<>> /\ <<Error(b)>> # <<>> /\ <<Error(b), State(b)>> # <<>>
  OBVIOUS
<1> QED BY <1>2, <1>3, <1>4, <1>5 DEF Told

\* AsebaVMDebugMessage, for every message the node sends.
LEMMA RobotFollows ==
  ASSUME Types, NEW m \in Down, RobotReceives(m)
  PROVE  \E b, answers :
           /\ Follows(b, answers)
           /\ b.code = Stored(m).code
           /\ b.mode = "Running" => m.type = "Run" \/ (robot.mode = "Running" /\ m.type # "SetBytecode")
           /\ m.type = "GetExecutionState" => answers = <<State(robot)>>
<1> DEFINE Goal(b, answers) ==
      /\ Follows(b, answers)
      /\ b.code = Stored(m).code
      /\ b.mode = "Running" => m.type = "Run" \/ (robot.mode = "Running" /\ m.type # "SetBytecode")
      /\ m.type = "GetExecutionState" => answers = <<State(robot)>>
<1>1. robot \in Robots /\ Len(robot.bps) <= MaxBreakpoints /\ <<>> \in Seq(Up) /\ Told(robot, <<>>)
  BY DEF Types, Told
<1>2. m.type # "SetBytecode" => Stored(m) = robot
  BY DEF Stored
<1>3. CASE m.type \in {"SetBytecode", "Reset"} /\ RobotResets(Stored(m))
  <2>1. Stored(m) \in Robots /\ Stored(m).bps = robot.bps
    <3>1. CASE m.type = "SetBytecode" /\ m.program # NoProgram
      <4>1. m.program \in AllPrograms /\ m.part \in PartNumbers
        BY <3>1 DEF Down, PlainTypes
      <4> QED BY <1>1, <3>1, <4>1 DEF Stored, Robots
    <3>2. CASE ~ (m.type = "SetBytecode" /\ m.program # NoProgram)
      BY <1>1, <3>2 DEF Stored
    <3> QED BY <3>1, <3>2
  <2> DEFINE b == Stored(m)
  <2> HIDE DEF b
  <2>2. b \in Robots /\ b.bps = robot.bps /\ RobotResets(b) /\ b = Stored(m)
    BY <1>3, <2>1 DEF b
  <2>3. InitPc(b.code[1]) \in Addresses
    BY <2>2, InitPcAddress, PartFacts DEF Robots
  <2>4. PICK after \in {[b EXCEPT !.mode = "Stopped", !.steps = 0],
               [b EXCEPT !.mode = "Paused", !.pc = InitPc(b.code[1]), !.steps = 0]} :
          Becomes(after, <<State(after)>>)
    BY <2>2 DEF RobotResets
  <2>5. after \in Robots /\ after.bps = robot.bps /\ after.code = b.code /\ after.mode # "Running"
    <3>1. CASE after = [b EXCEPT !.mode = "Stopped", !.steps = 0]
      BY <2>2, <3>1 DEF Robots, Modes
    <3>2. CASE after = [b EXCEPT !.mode = "Paused", !.pc = InitPc(b.code[1]), !.steps = 0]
      BY <2>2, <2>3, <3>2 DEF Robots, Modes
    <3> QED BY <2>4, <3>1, <3>2
  <2>6. Goal(after, <<State(after)>>)
    BY <1>1, <1>3, <2>2, <2>4, <2>5, StateTells DEF Follows
  <2> QED BY <2>6
<1>4. CASE m.type = "Run" /\ RobotRuns
  <2> DEFINE after == [robot EXCEPT !.mode = "Running", !.steps = 0]
  <2>1. after \in Robots /\ after.bps = robot.bps /\ after.code = robot.code
    BY <1>1 DEF Robots, Modes
  <2>2. Goal(after, <<State(after)>>)
    BY <1>1, <1>2, <1>4, <2>1, StateTells DEF Follows, RobotRuns
  <2> QED BY <2>2
<1>5. CASE m.type = "Pause" /\ RobotPauses
  <2>1. PICK after \in IF robot.mode # "Running" THEN {robot}
                       ELSE {[robot EXCEPT !.mode = mode, !.steps = 0] : mode \in {"Paused", "Stopped"}} :
          Becomes(after, <<State(after)>>)
    BY <1>5 DEF RobotPauses
  <2>2. after \in Robots /\ after.bps = robot.bps /\ after.code = robot.code /\ after.mode # "Running"
    <3>1. CASE robot.mode # "Running"
      BY <1>1, <2>1, <3>1
    <3>2. CASE robot.mode = "Running"
      <4>1. PICK mode \in {"Paused", "Stopped"} : after = [robot EXCEPT !.mode = mode, !.steps = 0]
        BY <2>1, <3>2
      <4> QED BY <1>1, <4>1 DEF Robots, Modes
    <3> QED BY <3>1, <3>2
  <2>3. Goal(after, <<State(after)>>)
    BY <1>1, <1>2, <1>5, <2>1, <2>2, StateTells DEF Follows
  <2> QED BY <2>3
<1>6. CASE m.type = "Step" /\ RobotSteps
  <2>1. CASE Becomes(robot, <<>>)
    <3>1. Goal(robot, <<>>)
      BY <1>1, <1>2, <1>6, <2>1 DEF Follows
    <3> QED BY <3>1
  <2>2. CASE robot.mode = "Paused" /\ \E x \in Pcs :
               LET after == [robot EXCEPT !.pc = x, !.steps = @ + 1] IN Becomes(after, <<State(after)>>)
    <3>1. PICK x \in Pcs :
            Becomes([robot EXCEPT !.pc = x, !.steps = @ + 1], <<State([robot EXCEPT !.pc = x, !.steps = @ + 1])>>)
      BY <2>2
    <3> DEFINE after == [robot EXCEPT !.pc = x, !.steps = @ + 1]
    <3>2. after \in Robots /\ after.bps = robot.bps /\ after.code = robot.code /\ after.mode # "Running"
      <4>1. x \in Addresses /\ robot.steps + 1 \in Nat
        BY <1>1 DEF Addresses, Robots
      <4> QED BY <1>1, <2>2, <4>1 DEF Robots, Modes
    <3>3. Goal(after, <<State(after)>>)
      BY <1>1, <1>2, <1>6, <3>1, <3>2, StateTells DEF Follows
    <3> QED BY <3>3
  <2>3. CASE LET after == [robot EXCEPT !.mode = "Stopped", !.steps = 0]
             IN  Becomes(after, <<State(after)>>) \/ Becomes(after, <<Error(after), State(after)>>)
    <3> DEFINE after == [robot EXCEPT !.mode = "Stopped", !.steps = 0]
    <3>1. after \in Robots /\ after.bps = robot.bps /\ after.code = robot.code /\ after.mode = "Stopped"
      BY <1>1 DEF Robots, Modes
    <3>2. Goal(after, <<State(after)>>) \/ Goal(after, <<Error(after), State(after)>>)
      BY <1>1, <1>2, <1>6, <2>3, <3>1, StateTells DEF Follows
    <3> QED BY <3>2
  <2> QED BY <1>6, <2>1, <2>2, <2>3 DEF RobotSteps
<1>7. CASE m.type = "Stop" /\ RobotStops
  <2> DEFINE after == [robot EXCEPT !.mode = "Stopped", !.steps = 0]
  <2>1. after \in Robots /\ after.bps = robot.bps /\ after.code = robot.code /\ after.mode = "Stopped"
    BY <1>1 DEF Robots, Modes
  <2>2. Goal(after, <<State(after)>>)
    BY <1>1, <1>2, <1>7, <2>1, StateTells DEF Follows, RobotStops
  <2> QED BY <2>2
<1>8. CASE m.type = "GetExecutionState" /\ Becomes(robot, <<State(robot)>>)
  <2>1. Goal(robot, <<State(robot)>>)
    BY <1>1, <1>2, <1>8, StateTells DEF Follows
  <2> QED BY <2>1
<1>9. CASE m.type = "BreakpointSet" /\ RobotSetsBreakpoint(m)
  <2>1. m.pc \in Pcs /\ m.id \in Requests
    BY <1>9 DEF Down, PlainTypes
  <2> DEFINE ok == HasRoom(robot.bps)
             after == IF ok THEN [robot EXCEPT !.bps = Append(@, m.pc)] ELSE robot
             result == [type |-> "BreakpointSetResult", pc |-> m.pc, ok |-> ok, id |-> m.id]
  <2>2. ok \in BOOLEAN
    BY DEF HasRoom
  <2>3. <<result>> \in Seq(Up)
    <3>1. result \in Up
      BY <2>1, <2>2 DEF Up
    <3> QED BY <3>1
  <2>4. ~Report(result)
    BY DEF Report
  <2>5. /\ after \in Robots /\ Len(after.bps) <= MaxBreakpoints /\ after.code = robot.code
        /\ after.mode = robot.mode /\ after.pc = robot.pc
    <3>1. robot.bps \in Seq(Pcs)
      BY <1>1 DEF Robots
    <3>2. Append(robot.bps, m.pc) \in Seq(Pcs) /\ Len(Append(robot.bps, m.pc)) = Len(robot.bps) + 1
      BY <2>1, <3>1
    <3>3. CASE ok
      <4>1. Len(robot.bps) + 1 <= MaxBreakpoints
        BY <3>1, <3>3, RequestsAssumption DEF HasRoom
      <4> QED BY <1>1, <3>2, <3>3, <4>1 DEF Robots
    <3>4. CASE ~ok
      BY <1>1, <3>4
    <3> QED BY <3>3, <3>4
  <2>6. Becomes(after, <<result>>)
    BY <1>9 DEF RobotSetsBreakpoint
  <2> HIDE DEF result, after, ok
  <2>7. Told(after, <<result>>)
    BY <2>4, <2>5 DEF Told
  <2>8. Goal(after, <<result>>)
    BY <1>1, <1>2, <1>9, <2>3, <2>5, <2>6, <2>7 DEF Follows
  <2> QED BY <2>8
<1>10. CASE \/ m.type = "BreakpointClear" /\ Becomes([robot EXCEPT !.bps = RemoveFirst(@, m.pc)], <<>>)
            \/ m.type = "BreakpointClearAll" /\ Becomes([robot EXCEPT !.bps = <<>>], <<>>)
  <2>1. PICK bps \in {RemoveFirst(robot.bps, m.pc), <<>>} : Becomes([robot EXCEPT !.bps = bps], <<>>)
    BY <1>10
  <2>2. bps \in Seq(Pcs) /\ Len(bps) <= MaxBreakpoints
    <3>1. robot.bps \in Seq(Pcs) /\ MaxBreakpoints \in Nat /\ Len(robot.bps) \in Nat
      BY <1>1, RequestsAssumption DEF Robots
    <3>2. RemoveFirst(robot.bps, m.pc) \in Seq(Pcs) /\ Len(RemoveFirst(robot.bps, m.pc)) <= Len(robot.bps)
      BY <3>1, RemoveFirstSeq
    <3>3. CASE bps = <<>>
      BY <3>1, <3>3
    <3>4. CASE bps = RemoveFirst(robot.bps, m.pc)
      BY <1>1, <3>1, <3>2, <3>4
    <3> QED BY <2>1, <3>3, <3>4
  <2> DEFINE after == [robot EXCEPT !.bps = bps]
  <2>3. /\ after \in Robots /\ after.bps = bps /\ after.code = robot.code
        /\ after.mode = robot.mode /\ after.pc = robot.pc
    BY <1>1, <2>2 DEF Robots
  <2>4. Told(after, <<>>)
    BY <2>3 DEF Told
  <2>5. Goal(after, <<>>)
    BY <1>1, <1>2, <1>10, <2>1, <2>2, <2>3, <2>4 DEF Follows
  <2> QED BY <2>5
<1>11. CASE m.type = "Other" /\ Becomes(robot, <<>>)
  <2>1. Goal(robot, <<>>)
    BY <1>1, <1>2, <1>11 DEF Follows
  <2> QED BY <2>1
<1> QED BY <1>3, <1>4, <1>5, <1>6, <1>7, <1>8, <1>9, <1>10, <1>11 DEF RobotReceives

\* The events of the robot itself.
RobotEvent == RobotReachesBreakpoint \/ RobotSetsUpEvent \/ RobotKillsEvent \/ RobotFails

LEMMA EventFollows ==
  ASSUME Types, RobotEvent
  PROVE  /\ UNCHANGED <<nodeVars, queue, posted, histVars>>
         /\ \E b, answers : /\ Follows(b, answers) /\ b.code = robot.code
                            /\ b.mode = "Running" => robot.mode = "Running"
<1>1. robot \in Robots /\ Len(robot.bps) <= MaxBreakpoints
  BY DEF Types
<1>2. CASE RobotReachesBreakpoint
  <2>1. PICK x \in Range(robot.bps) :
          Becomes([robot EXCEPT !.mode = "Paused", !.pc = x, !.steps = 0],
                  <<State([robot EXCEPT !.mode = "Paused", !.pc = x, !.steps = 0])>>)
    BY <1>2 DEF RobotReachesBreakpoint
  <2>2. x \in Addresses
    BY <1>1, <2>1 DEF Robots, Range, Addresses
  <2> DEFINE after == [robot EXCEPT !.mode = "Paused", !.pc = x, !.steps = 0]
  <2>3. after \in Robots /\ after.bps = robot.bps /\ after.code = robot.code /\ after.mode = "Paused"
    BY <1>1, <2>2 DEF Robots, Modes
  <2>4. Follows(after, <<State(after)>>)
    BY <1>1, <2>1, <2>3, StateTells DEF Follows
  <2> QED BY <1>2, <2>3, <2>4 DEF RobotReachesBreakpoint
<1>5. CASE RobotSetsUpEvent
  <2> DEFINE x == InitPc(robot.code[1])
             after == [robot EXCEPT !.mode = "Paused", !.pc = x, !.faults = @ + 1]
  <2>1. Becomes(after, <<State(after)>>)
    BY <1>5 DEF RobotSetsUpEvent
  <2>2. x \in Addresses /\ robot.faults + 1 \in Nat
    BY <1>1, InitPcAddress, PartFacts DEF Robots
  <2>3. after \in Robots /\ after.bps = robot.bps /\ after.code = robot.code /\ after.mode = "Paused"
    BY <1>1, <2>2 DEF Robots, Modes
  <2>4. Follows(after, <<State(after)>>)
    BY <1>1, <2>1, <2>3, StateTells DEF Follows
  <2> QED BY <1>5, <2>3, <2>4 DEF RobotSetsUpEvent
<1>3. CASE RobotKillsEvent
  <2> DEFINE after == [robot EXCEPT !.faults = @ + 1]
             report == [type |-> "EventExecutionKilled", pc |-> after.pc]
  <2>1. after \in Robots /\ after.bps = robot.bps /\ after.code = robot.code
    BY <1>1 DEF Robots
  <2>2. report \in Up /\ Report(report) /\ Tells(report, after)
    BY <2>1 DEF Up, Report, Tells, Robots
  <2>3. Becomes(after, <<report>>)
    BY <1>3 DEF RobotKillsEvent
  <2> HIDE DEF after, report
  <2>4. Follows(after, <<report>>)
    BY <1>1, <2>1, <2>2, <2>3 DEF Follows, Told
  <2> QED BY <1>3, <2>1, <2>4 DEF RobotKillsEvent
<1>4. CASE RobotFails
  <2> DEFINE after == [robot EXCEPT !.mode = "Stopped", !.faults = @ + 1]
  <2>1. after \in Robots /\ after.bps = robot.bps /\ after.code = robot.code /\ after.mode = "Stopped"
    <3>1. robot.faults + 1 \in Nat
      BY <1>1 DEF Robots
    <3> QED BY <1>1, <3>1 DEF Robots, Modes
  <2>2. Follows(after, <<Error(after)>>)
    BY <1>1, <1>4, <2>1, StateTells DEF Follows, RobotFails
  <2> QED BY <1>4, <2>1, <2>2 DEF RobotFails
<1> QED BY <1>2, <1>3, <1>4, <1>5 DEF RobotEvent

LEMMA FollowTypes ==
  ASSUME Types, NEW b, NEW answers, Follows(b, answers)
  PROVE  robot' = b /\ up' = up \o answers /\ up' \in Seq(Up)
<1>1. robot' = b /\ up' = up \o answers /\ answers \in Seq(Up) /\ up \in Seq(Up)
  BY DEF Follows, Becomes, Types
<1> QED BY <1>1

-----------------------------------------------------------------------------
(* Requests *)

\* A batch is the messages of one program, or has none of those.
Batch(msgs) ==
  /\ msgs \in Seq(Down)
  /\ \/ \A i \in 1..Len(msgs) : msgs[i].type # "SetBytecode"
     \/ \E p \in AllPrograms : msgs = SendBytecode(p)

\* The queue gets one batch.
Enqueues == \E msgs, cb : Batch(msgs) /\ cb \in CallbackSet /\ queue' = Queued(queue, msgs, cb)

LEMMA PlainBatch ==
  /\ Batch(<<>>)
  /\ \A type \in PlainTypes : Batch(<<Msg(type)>>)
  /\ \A n \in Nat : Batch([i \in 1..n |-> Msg("Other")])
<1>1. \A type \in PlainTypes : Msg(type) \in Down /\ Msg(type).type = type /\ type # "SetBytecode"
  BY DEF Msg, Down, PlainTypes
<1>2. <<>> \in Seq(Down)
  OBVIOUS
<1>3. ASSUME NEW type \in PlainTypes PROVE Batch(<<Msg(type)>>)
  <2>1. Msg(type) \in Down /\ Msg(type).type # "SetBytecode"
    BY <1>1
  <2> QED BY <2>1 DEF Batch
<1>4. ASSUME NEW n \in Nat PROVE Batch([i \in 1..n |-> Msg("Other")])
  <2>1. Msg("Other") \in Down /\ Msg("Other").type # "SetBytecode"
    BY <1>1 DEF PlainTypes
  <2>2. [i \in 1..n |-> Msg("Other")] \in Seq(Down)
    BY <2>1
  <2> QED BY <2>1, <2>2 DEF Batch
<1> QED BY <1>2, <1>3, <1>4 DEF Batch

LEMMA BytecodeBatch == \A p \in AllPrograms : Batch(SendBytecode(p))
BY SendBytecodeDown DEF Batch

LEMMA IssueFacts ==
  ASSUME Types, NEW n \in Nat, NEW done, Issue(n, done)
  PROVE  /\ This \in Requests /\ issued' = This /\ issued' \in 0..MaxRequests /\ This = issued + 1
         /\ This \notin 0..issued
         /\ answered' \in [Requests -> Nat]
         /\ \A r \in Requests : answered'[r] = IF r = This THEN n
                                               ELSE answered[r] + (IF r \in done THEN 1 ELSE 0)
<1>1. /\ issued \in 0..MaxRequests /\ MaxRequests \in Nat /\ issued < MaxRequests
      /\ answered \in [Requests -> Nat]
  BY RequestsAssumption DEF Types, Issue
<1>2. This \in Requests /\ issued' = This /\ issued' \in 0..MaxRequests /\ This \notin 0..issued
  BY <1>1 DEF Issue, This, Requests
<1>3. answered' = [r \in Requests |-> IF r = This THEN n ELSE answered[r] + (IF r \in done THEN 1 ELSE 0)]
  BY DEF Issue
<1>4. \A r \in Requests : (IF r = This THEN n ELSE answered[r] + (IF r \in done THEN 1 ELSE 0)) \in Nat
  BY <1>1
<1> QED BY <1>2, <1>3, <1>4 DEF This

LEMMA CallbackFacts ==
  ASSUME NEW r \in Requests, NEW kind \in {"answer", "load", "breakpoints"}
  PROVE  /\ Callback(kind, r) \in CallbackSet /\ NoCallback \in CallbackSet
         /\ Callback(kind, r).kind = kind /\ Callback(kind, r).id = r
BY DEF Callback, CallbackSet

\* handle_step_request, for a request that is there.
LEMMA HandleStepFacts ==
  ASSUME NEW s \in {None} \cup StepRequests, NEW known
  PROVE  /\ HandleStep(s, known).request \in {None, s}
         /\ Batch(HandleStep(s, known).sent)
         /\ \/ s = None /\ HandleStep(s, known).done = {} /\ HandleStep(s, known).request = None
            \/ /\ s # None
               /\ \/ HandleStep(s, known).done = {s.id} /\ HandleStep(s, known).request = None
                  \/ HandleStep(s, known).done = {} /\ HandleStep(s, known).request = s
<1>1. Batch(<<>>) /\ Batch(<<Msg("Step")>>)
  BY PlainBatch DEF PlainTypes
<1> QED BY <1>1 DEF HandleStep

LEMMA NoneFacts ==
  /\ \A r \in BpRequests : r # None /\ r.id \in Requests
  /\ \A r \in StepRequests : r # None /\ r.id \in Requests
  /\ 0 \notin Requests
BY RequestsAssumption DEF BpRequests, StepRequests, None, Requests

\* What a request changes besides the answers.
Requested ==
  /\ bytecode' \in AllPrograms /\ breakpoints' \in SUBSET Lines
  /\ bpreq' \in {None} \cup BpRequests /\ stepreq' \in {None} \cup StepRequests
  /\ issued' \in 0..MaxRequests /\ answered' \in [Requests -> Nat] /\ excused' \in SUBSET Requests
  /\ missed' \in SUBSET Pcs /\ UNCHANGED <<loads, vm, posted, up, robot, killed>>

LEMMA CancelFacts ==
  ASSUME Cancel
  PROVE  /\ breakpoints' \in SUBSET Lines /\ bpreq' = None /\ stepreq' = None
         /\ bpreq' \in {None} \cup BpRequests /\ stepreq' \in {None} \cup StepRequests
BY DEF Cancel

LEMMA ProgramRequests ==
  ASSUME Types, NEW p \in Programs \cup {NoProgram},
         CompileAndSend(p) \/ CompileAndSave(p) \/ CompileUnsupported \/ SaveUnsupported
  PROVE  Requested /\ (Enqueues \/ UNCHANGED queue)
<1>1. p \in AllPrograms
  BY DEF AllPrograms
<1>2. CASE CompileAndSend(p)
  <2>1. /\ Issue(0, Cancelled) /\ Cancel /\ bytecode' = p
        /\ queue' = Queued(queue, SendBytecode(p), Callback("load", This))
        /\ UNCHANGED <<loads, vm, posted, up, robot, excused, missed, killed>>
    BY <1>2 DEF CompileAndSend
  <2>2. Callback("load", This) \in CallbackSet
    BY <2>1, IssueFacts, CallbackFacts
  <2>3. Enqueues
    BY <1>1, <2>1, <2>2, BytecodeBatch DEF Enqueues
  <2> QED BY <1>1, <2>1, <2>3, IssueFacts, CancelFacts DEF Requested, Types
<1>3. CASE CompileAndSave(p)
  BY <1>1, <1>3, IssueFacts, CancelFacts DEF CompileAndSave, Requested, Types
<1>4. CASE CompileUnsupported
  BY <1>4, IssueFacts, CancelFacts DEF CompileUnsupported, Requested, Types
<1>5. CASE SaveUnsupported
  <2>1. /\ Issue(2, Cancelled) /\ Cancel /\ excused' = excused \cup {This}
        /\ UNCHANGED <<bytecode, loads, vm, queue, posted, up, robot, missed, killed>>
    BY <1>5 DEF SaveUnsupported
  <2> QED BY <2>1, IssueFacts, CancelFacts DEF Requested, Types
<1> QED BY <1>2, <1>3, <1>4, <1>5

\* Requests that are one batch and leave the node alone.
LEMMA BatchRequest ==
  ASSUME Types, NEW n \in Nat, Issue(n, {}), NEW msgs, Batch(msgs),
         queue' = Queued(queue, msgs, Callback("answer", This)),
         excused' \in {excused, excused \cup {This}},
         UNCHANGED <<nodeVars, posted, up, robot, missed, killed>>
  PROVE  Requested /\ Enqueues
<1>1. Callback("answer", This) \in CallbackSet
  BY IssueFacts, CallbackFacts
<1>2. Enqueues
  BY <1>1 DEF Enqueues
<1>3. excused' \in SUBSET Requests
  BY IssueFacts DEF Types
<1> QED BY <1>2, <1>3, IssueFacts DEF Requested, Types, nodeVars

LEMMA CommandRequests ==
  ASSUME Types, (\E type \in {"Run", "Reset", "Pause", "Step", "Other"} : Command(type))
                \/ \E n \in 0..1 : SetVariables(n) \/ EmitEvents(n)
  PROVE  Requested /\ Enqueues
<1>1. ASSUME NEW type \in {"Run", "Reset", "Pause", "Step", "Other"}, Command(type)
      PROVE  Requested /\ Enqueues
  <2>1. Batch(<<Msg(type)>>)
    BY PlainBatch DEF PlainTypes
  <2> QED BY <1>1, <2>1, BatchRequest DEF Command
<1>2. ASSUME NEW n \in 0..1, SetVariables(n) \/ EmitEvents(n) PROVE Requested /\ Enqueues
  <2>1. Batch([i \in 1..n |-> Msg("Other")])
    BY PlainBatch
  <2>2. CASE SetVariables(n)
    BY <2>1, <2>2, BatchRequest DEF SetVariables
  <2>3. CASE EmitEvents(n)
    <3>1. PICK k \in Nat : Issue(k, {})
      BY <2>3 DEF EmitEvents
    <3> QED BY <2>1, <2>3, <3>1, BatchRequest DEF EmitEvents
  <2> QED BY <1>2, <2>2, <2>3
<1> QED BY <1>1, <1>2

LEMMA EmitRefusedRequest ==
  ASSUME Types, EmitRefused PROVE Requested /\ UNCHANGED queue
BY IssueFacts DEF EmitRefused, Requested, Types, nodeVars

LEMMA SetRefusedRequest ==
  ASSUME Types, SetVariablesRefused PROVE Requested /\ UNCHANGED queue
BY IssueFacts DEF SetVariablesRefused, Requested, Types, nodeVars

LEMMA StepRequest ==
  ASSUME Types, StepToNextLine PROVE Requested /\ Enqueues
<1> DEFINE s == [id |-> This, line |-> vm.line]
           h == HandleStep(s, vm)
           n == IF This \in h.done THEN 1 ELSE 0
<1>1. Issue(n, Pending(stepreq)) /\ n \in Nat
  BY DEF StepToNextLine
<1>2. s \in StepRequests
  <2>1. This \in Requests /\ vm.line \in Lines \cup {0}
    BY <1>1, IssueFacts DEF Types, Knowledge
  <2> QED BY <2>1 DEF StepRequests
<1>3. /\ stepreq' = h.request /\ queue' = Queued(queue, h.sent, NoCallback)
      /\ UNCHANGED <<bytecode, breakpoints, bpreq, loads, vm, posted, up, robot, excused, missed, killed>>
  BY DEF StepToNextLine
<1> HIDE DEF s
<1>4. h.request \in {None} \cup StepRequests /\ Batch(h.sent)
  BY <1>2, HandleStepFacts
<1> HIDE DEF h, n
<1>5. Enqueues
  BY <1>3, <1>4 DEF Enqueues, CallbackSet
<1> QED BY <1>1, <1>3, <1>4, <1>5, IssueFacts DEF Requested, Types

LEMMA OrderOfLines ==
  ASSUME NEW S \in SUBSET Lines, NEW s \in SetToSeqs(S)
  PROVE  s \in Seq(S) /\ DOMAIN s = 1..Len(s)
<1>1. IsFiniteSet(S)
  BY RequestsAssumption, FS_Subset
<1>2. Cardinality(S) \in Nat
  BY <1>1, FS_CardinalityType
<1>3. s \in [1..Cardinality(S) -> S]
  BY DEF SetToSeqs
<1> QED BY <1>2, <1>3

\* The messages of set_breakpoints.
BreakpointMessages(want, set, clear) ==
  IF want = {} THEN <<Msg("BreakpointClearAll")>>
  ELSE [i \in DOMAIN set |-> BpSet(PcOf[bytecode][set[i]], This)]
       \o [i \in DOMAIN clear |-> BpClear(PcOf[bytecode][clear[i]])]

LEMMA BreakpointBatch ==
  ASSUME Types, This \in Requests, NEW want \in SUBSET Lines,
         NEW set \in SetToSeqs(Fresh(want)), NEW clear \in SetToSeqs(Stale(want))
  PROVE  Batch(BreakpointMessages(want, set, clear))
<1>1. CASE want = {}
  BY <1>1, PlainBatch DEF BreakpointMessages, PlainTypes
<1>2. CASE want # {}
  <2>1. bytecode \in AllPrograms /\ breakpoints \subseteq Lines
    BY DEF Types
  <2>2. /\ Fresh(want) \in SUBSET Lines /\ \A l \in Fresh(want) : PcOf[bytecode][l] \in Pcs
        /\ Stale(want) \in SUBSET Lines /\ \A l \in Stale(want) : PcOf[bytecode][l] \in Pcs
    BY <2>1, PcFacts DEF Fresh, Stale
  <2> DEFINE s == [i \in DOMAIN set |-> BpSet(PcOf[bytecode][set[i]], This)]
             c == [i \in DOMAIN clear |-> BpClear(PcOf[bytecode][clear[i]])]
  <2>3. /\ set \in Seq(Fresh(want)) /\ DOMAIN set = 1..Len(set)
        /\ clear \in Seq(Stale(want)) /\ DOMAIN clear = 1..Len(clear)
    BY <2>2, OrderOfLines
  <2>4. \A i \in 1..Len(set) :
           /\ BpSet(PcOf[bytecode][set[i]], This) \in Down
           /\ BpSet(PcOf[bytecode][set[i]], This).type # "SetBytecode"
    <3> SUFFICES ASSUME NEW i \in 1..Len(set)
                 PROVE  /\ BpSet(PcOf[bytecode][set[i]], This) \in Down
                        /\ BpSet(PcOf[bytecode][set[i]], This).type # "SetBytecode"
      OBVIOUS
    <3>1. PcOf[bytecode][set[i]] \in Pcs
      BY <2>2, <2>3
    <3> QED BY <3>1 DEF BpSet, Down
  <2>5. \A i \in 1..Len(clear) :
           /\ BpClear(PcOf[bytecode][clear[i]]) \in Down
           /\ BpClear(PcOf[bytecode][clear[i]]).type # "SetBytecode"
    <3> SUFFICES ASSUME NEW i \in 1..Len(clear)
                 PROVE  /\ BpClear(PcOf[bytecode][clear[i]]) \in Down
                        /\ BpClear(PcOf[bytecode][clear[i]]).type # "SetBytecode"
      OBVIOUS
    <3>1. PcOf[bytecode][clear[i]] \in Pcs
      BY <2>2, <2>3
    <3> QED BY <3>1 DEF BpClear, Down
  <2>6. /\ s \in Seq(Down) /\ Len(s) = Len(set) /\ \A i \in 1..Len(s) : s[i].type # "SetBytecode"
    BY <2>3, <2>4
  <2>7. /\ c \in Seq(Down) /\ Len(c) = Len(clear) /\ \A i \in 1..Len(c) : c[i].type # "SetBytecode"
    BY <2>3, <2>5
  <2>8. BreakpointMessages(want, set, clear) = s \o c
    BY <1>2 DEF BreakpointMessages
  <2> HIDE DEF s, c
  <2>9. s \o c \in Seq(Down) /\ \A i \in 1..Len(s \o c) : (s \o c)[i].type # "SetBytecode"
    <3>1. s \o c \in Seq(Down) /\ Len(s \o c) = Len(s) + Len(c)
      BY <2>6, <2>7, Joined
    <3>2. ASSUME NEW i \in 1..Len(s \o c) PROVE (s \o c)[i].type # "SetBytecode"
      <4>1. CASE i <= Len(s)
        BY <2>6, <2>7, <3>1, <4>1
      <4>2. CASE i > Len(s)
        <5>1. (s \o c)[i] = c[i - Len(s)] /\ i - Len(s) \in 1..Len(c)
          BY <2>6, <2>7, <3>1, <4>2
        <5> QED BY <2>7, <5>1
      <4> QED BY <2>6, <3>1, <4>1, <4>2
    <3> QED BY <3>1, <3>2
  <2> QED BY <2>8, <2>9 DEF Batch
<1> QED BY <1>1, <1>2

\* set_breakpoints, with its local variables named.
Breakpoints(want, msgs, n) ==
  /\ Batch(msgs) /\ n = (IF msgs = <<>> THEN 1 ELSE 0)
  /\ Issue(n, Pending(bpreq))
  /\ breakpoints' = IF msgs = <<>> THEN want \cap breakpoints ELSE want
  /\ bpreq' = IF msgs = <<>> THEN None
              ELSE [id |-> This,
                    pending |-> {[pc |-> PcOf[bytecode][l], line |-> l] : l \in Fresh(want)},
                    set |-> want \cap breakpoints]
  /\ queue' = Queued(queue, msgs, Callback("breakpoints", This))
  /\ missed' = missed \cup Overlooked(want \cap breakpoints)
  /\ UNCHANGED <<bytecode, stepreq, loads, vm, posted, up, robot, excused, killed>>

LEMMA BreakpointStep ==
  ASSUME Types, NEW want \in SUBSET Lines, SetBreakpoints(want)
  PROVE  \E msgs, n : Breakpoints(want, msgs, n)
<1>1. PICK set \in SetToSeqs(Fresh(want)), clear \in SetToSeqs(Stale(want)) :
        LET msgs == BreakpointMessages(want, set, clear)
            n == IF msgs = <<>> THEN 1 ELSE 0
        IN  /\ Issue(n, Pending(bpreq))
            /\ breakpoints' = IF msgs = <<>> THEN want \cap breakpoints ELSE want
            /\ bpreq' = IF msgs = <<>> THEN None
                        ELSE [id |-> This,
                              pending |-> {[pc |-> PcOf[bytecode][l], line |-> l] : l \in Fresh(want)},
                              set |-> want \cap breakpoints]
            /\ queue' = Queued(queue, msgs, Callback("breakpoints", This))
            /\ missed' = missed \cup Overlooked(want \cap breakpoints)
            /\ UNCHANGED <<bytecode, stepreq, loads, vm, posted, up, robot, excused, killed>>
  BY DEF SetBreakpoints, BreakpointMessages
<1> DEFINE msgs == BreakpointMessages(want, set, clear)
           n == IF msgs = <<>> THEN 1 ELSE 0
<1>2. This \in Requests
  <2>1. Issue(n, Pending(bpreq)) /\ n \in Nat
    BY <1>1
  <2> QED BY <2>1, IssueFacts
<1>3. Batch(msgs)
  BY <1>2, BreakpointBatch
<1>4. Breakpoints(want, msgs, n)
  BY <1>1, <1>3 DEF Breakpoints
<1> QED BY <1>4

LEMMA BreakpointRequest ==
  ASSUME Types, NEW want \in SUBSET Lines, SetBreakpoints(want)
  PROVE  Requested /\ Enqueues
<1>1. PICK msgs, n : Breakpoints(want, msgs, n)
  BY BreakpointStep
<1>2. n \in Nat /\ Issue(n, Pending(bpreq)) /\ bytecode \in AllPrograms /\ breakpoints \subseteq Lines
  BY <1>1 DEF Breakpoints, Types
<1>3. This \in Requests /\ issued' \in 0..MaxRequests /\ answered' \in [Requests -> Nat]
  BY <1>2, IssueFacts
<1>4. Callback("breakpoints", This) \in CallbackSet
  BY <1>3, CallbackFacts
<1>5. Enqueues
  BY <1>1, <1>4 DEF Breakpoints, Enqueues
<1>6. bpreq' \in {None} \cup BpRequests
  <2> DEFINE pending == {[pc |-> PcOf[bytecode][l], line |-> l] : l \in Fresh(want)}
  <2>1. pending \in SUBSET [pc : Pcs, line : Lines]
    BY <1>2, PcFacts DEF Fresh
  <2> HIDE DEF pending
  <2>2. [id |-> This, pending |-> pending, set |-> want \cap breakpoints] \in BpRequests
    BY <1>3, <2>1 DEF BpRequests
  <2> QED BY <1>1, <2>2 DEF Breakpoints, pending
<1>7. missed' \in SUBSET Pcs
  <2>1. Overlooked(want \cap breakpoints) \in SUBSET Pcs
    BY <1>2, PcFacts DEF Overlooked
  <2> QED BY <1>1, <2>1 DEF Breakpoints, Types
<1> QED BY <1>1, <1>2, <1>3, <1>5, <1>6, <1>7 DEF Breakpoints, Requested, Types

\* Stop: the motors' program, Run and Stop, in three batches.
LEMMA StopRequest ==
  ASSUME Types, Stop
  PROVE  /\ Requested /\ StopCommand \in AllPrograms
         /\ \E q1, q2 \in Seq(Slots) :
              /\ q1 = Queued(queue, SendBytecode(StopCommand), NoCallback)
              /\ q2 = Queued(q1, <<Msg("Run")>>, Callback("answer", This))
              /\ queue' = Queued(q2, <<Msg("Stop")>>, NoCallback)
<1>1. Issue(0, {}) /\ This \in Requests /\ StopCommand \in AllPrograms
  BY IssueFacts, PartFacts DEF Stop, StopCommand
<1>2. Requested
  BY <1>1, IssueFacts DEF Requested, Stop, Types
<1> DEFINE q1 == Queued(queue, SendBytecode(StopCommand), NoCallback)
           q2 == Queued(q1, <<Msg("Run")>>, Callback("answer", This))
<1>3. Callback("answer", This) \in CallbackSet /\ NoCallback \in CallbackSet
  BY <1>1, CallbackFacts
<1>4. q1 \in Seq(Slots)
  BY <1>1, <1>3, QueuedSlots, SendBytecodeDown DEF Types
<1>5. q2 \in Seq(Slots)
  <2>1. <<Msg("Run")>> \in Seq(Down)
    BY PlainBatch DEF Batch, PlainTypes
  <2> HIDE DEF q1
  <2> QED BY <1>3, <1>4, <2>1, QueuedSlots
<1>6. queue' = Queued(q2, <<Msg("Stop")>>, NoCallback)
  BY DEF Stop, StopMessages
<1> QED BY <1>1, <1>2, <1>4, <1>5, <1>6

-----------------------------------------------------------------------------
(* Types *)

LEMMA EnqueuedSlots ==
  ASSUME Types, Enqueues PROVE queue' \in Seq(Slots)
BY QueuedSlots DEF Enqueues, Batch, Types

LEMMA TypesInit == Init => Types
<1> SUFFICES ASSUME Init PROVE Types
  OBVIOUS
<1>1. queue \in Seq(Slots)
  <2>1. Batch(<<Msg("GetExecutionState")>>) /\ NoCallback \in CallbackSet /\ <<>> \in Seq(Slots)
    BY PlainBatch DEF PlainTypes, CallbackSet
  <2> QED BY <2>1, QueuedSlots DEF Init, Batch
<1>2. robot \in Robots /\ Len(robot.bps) <= MaxBreakpoints
  <2>1. PICK found \in RobotsFound :
          robot = [code |-> [k \in PartNumbers |-> NoProgram], mode |-> found.mode, pc |-> 0,
                   bps |-> found.bps, steps |-> 0, faults |-> 0]
    BY DEF Init
  <2>2. found.mode \in Modes /\ found.bps \in Seq(Pcs) /\ Len(found.bps) <= MaxBreakpoints
    BY RobotsAssumption DEF Modes
  <2> QED BY <2>1, <2>2, PartFacts DEF Robots, Addresses
<1>3. vm \in Knowledge
  BY DEF Init, Knowledge, Modes, Addresses
<1>4. bytecode \in AllPrograms /\ issued \in 0..MaxRequests /\ answered \in [Requests -> Nat]
  BY PartFacts, RequestsAssumption DEF Init
<1>5. killed \in BOOLEAN
  BY Zenon DEF Init
<1> QED BY <1>1, <1>2, <1>3, <1>4, <1>5 DEF Init, Types

\* The head of the queue, and what follows it.
LEMMA FirstSlot ==
  ASSUME Types, queue # <<>>
  PROVE  /\ Head(queue) \in Slots /\ Head(queue) = queue[1]
         /\ Head(queue).msg \in Down /\ Head(queue).cb \in CallbackSet
         /\ Tail(queue) \in Seq(Slots) /\ Len(Tail(queue)) = Len(queue) - 1
         /\ \A i \in 1..Len(Tail(queue)) : Tail(queue)[i] = queue[i + 1]
<1>1. queue \in Seq(Slots)
  BY DEF Types
<1>2. Head(queue) \in Slots
  BY <1>1
<1>3. Head(queue).msg \in Down /\ Head(queue).cb \in CallbackSet
  BY <1>2 DEF Slots
<1> QED BY <1>1, <1>2, <1>3

LEMMA WriteTypes ==
  ASSUME Types, HandleWrite PROVE Types'
<1> DEFINE cb == Head(queue).cb
<1>1. queue # <<>> /\ cb \in CallbackSet /\ Head(queue).msg \in Down /\ Tail(queue) \in Seq(Slots)
  BY FirstSlot DEF HandleWrite
<1>2. /\ queue' = Tail(queue) /\ RobotReceives(Head(queue).msg)
      /\ answered' = IF cb.kind = "answer" THEN [answered EXCEPT ![cb.id] = @ + 1] ELSE answered
      /\ posted' = IF cb.kind \in {"load", "breakpoints"} THEN Append(posted, cb) ELSE posted
      /\ UNCHANGED <<nodeVars, issued, excused, missed, killed>>
  BY DEF HandleWrite
<1> HIDE DEF cb
<1>3. PICK b, answers : Follows(b, answers)
  BY <1>1, <1>2, RobotFollows
<1>4. robot' \in Robots /\ Len(robot'.bps) <= MaxBreakpoints /\ up' \in Seq(Up)
  BY <1>3, FollowTypes DEF Follows
<1>5. cb.kind # "none" => cb \in CallbackSet \ {NoCallback} /\ cb.id \in Requests
  BY <1>1 DEF CallbackSet, NoCallback, Callback
<1>6. answered' \in [Requests -> Nat]
  <2>1. answered \in [Requests -> Nat]
    BY DEF Types
  <2>2. CASE cb.kind = "answer"
    <3>1. cb.id \in Requests /\ answered[cb.id] + 1 \in Nat
      BY <1>5, <2>1, <2>2
    <3> QED BY <1>2, <2>1, <2>2, <3>1
  <2> QED BY <1>2, <2>1, <2>2
<1>7. posted' \in Seq(CallbackSet \ {NoCallback})
  <2>1. CASE cb.kind \in {"load", "breakpoints"}
    BY <1>2, <1>5, <2>1 DEF Types
  <2>2. CASE cb.kind \notin {"load", "breakpoints"}
    BY <1>2, <2>2 DEF Types
  <2> QED BY <2>1, <2>2
<1> QED BY <1>1, <1>2, <1>4, <1>6, <1>7 DEF Types, nodeVars

LEMMA PostedTypes ==
  ASSUME Types, RunPosted PROVE Types'
<1> DEFINE cb == Head(posted)
           settles == cb.kind = "breakpoints" /\ bpreq # None /\ bpreq.id = cb.id /\ bpreq.pending = {}
<1>1. /\ posted # <<>> /\ posted' = Tail(posted)
      /\ loads' = IF cb.kind = "load" THEN Append(loads, cb.id) ELSE loads
      /\ breakpoints' = IF settles THEN bpreq.set ELSE breakpoints
      /\ bpreq' = IF settles THEN None ELSE bpreq
      /\ answered' = IF settles THEN [answered EXCEPT ![cb.id] = @ + 1] ELSE answered
      /\ UNCHANGED <<bytecode, stepreq, vm, queue, up, robot, issued, excused, missed, killed>>
  BY DEF RunPosted
<1>2. posted \in Seq(CallbackSet \ {NoCallback})
  BY DEF Types
<1>3. cb \in CallbackSet \ {NoCallback} /\ posted' \in Seq(CallbackSet \ {NoCallback})
  BY <1>1, <1>2
<1> HIDE DEF cb
<1>4. cb.id \in Requests
  BY <1>3 DEF CallbackSet
<1>5. loads' \in Seq(Requests)
  BY <1>1, <1>4 DEF Types
<1>6. settles => bpreq \in BpRequests /\ bpreq.set \in SUBSET Lines
  BY DEF Types, BpRequests
<1>7. breakpoints' \in SUBSET Lines /\ bpreq' \in {None} \cup BpRequests
  BY <1>1, <1>6 DEF Types
<1>8. answered' \in [Requests -> Nat]
  BY <1>1, <1>4 DEF Types
<1> QED BY <1>1, <1>3, <1>5, <1>7, <1>8 DEF Types

\* A message of the robot is taken.
LEMMA ReceivedFacts ==
  ASSUME Types, NEW types, Received(types)
  PROVE  /\ Head(up) \in Up /\ Head(up) = up[1] /\ Head(up).type \in types
         /\ up # <<>> /\ up' = Tail(up) /\ up' \in Seq(Up) /\ Len(up') = Len(up) - 1
         /\ \A i \in 1..Len(up') : up'[i] = up[i + 1]
<1>1. up \in Seq(Up) /\ up # <<>> /\ up' = Tail(up) /\ Head(up).type \in types
  BY DEF Types, Received
<1>2. Head(up) \in Up /\ Tail(up) \in Seq(Up)
  BY <1>1
<1> QED BY <1>1, <1>2

LEMMA StateTypes ==
  ASSUME Types, OnExecutionState PROVE Types' /\ Enqueues
<1> DEFINE h == HandleStep(stepreq, vm')
<1>1. /\ Received({"ExecutionState"})
      /\ vm' = [state |-> Head(up).state, pc |-> Head(up).pc, line |-> LineFromPc(bytecode, Head(up).pc)]
      /\ killed' = FALSE /\ loads' = <<>>
      /\ stepreq' = h.request /\ queue' = Queued(queue, h.sent, NoCallback)
      /\ answered' = [r \in Requests |->
                        answered[r] + (IF r \in Range(loads) \cup h.done THEN 1 ELSE 0)]
      /\ UNCHANGED <<bytecode, breakpoints, bpreq, posted, robot, issued, excused, missed>>
  BY DEF OnExecutionState
<1>2. Head(up) \in Up /\ Head(up).type = "ExecutionState" /\ up' \in Seq(Up)
  BY <1>1, ReceivedFacts
<1>3. vm' \in Knowledge
  <2>1. Head(up).state \in Modes /\ Head(up).pc \in Addresses
    BY <1>2 DEF Up
  <2> QED BY <1>1, <2>1, LineFromPcLine DEF Knowledge
<1>4. h.request \in {None} \cup StepRequests /\ Batch(h.sent)
  <2>1. stepreq \in {None} \cup StepRequests
    BY DEF Types
  <2> QED BY <2>1, HandleStepFacts
<1> HIDE DEF h
<1>5. Enqueues
  BY <1>1, <1>4 DEF Enqueues, CallbackSet
<1>6. answered' \in [Requests -> Nat]
  <2>1. \A r \in Requests : answered[r] + (IF r \in Range(loads) \cup h.done THEN 1 ELSE 0) \in Nat
    BY DEF Types
  <2> QED BY <1>1, <2>1
<1>7. loads' \in Seq(Requests) /\ killed' \in BOOLEAN
  <2>1. loads' \in Seq(Requests)
    BY <1>1
  <2>2. killed' \in BOOLEAN
    BY <1>1, Zenon
  <2> QED BY <2>1, <2>2
<1> QED BY <1>1, <1>2, <1>3, <1>4, <1>5, <1>6, <1>7, EnqueuedSlots DEF Types

LEMMA ErrorTypes ==
  ASSUME Types, OnRuntimeError PROVE Types'
<1>1. /\ Received({"RuntimeError", "EventExecutionKilled"})
      /\ answered' = [r \in Requests |-> answered[r] + (IF r \in Pending(stepreq) THEN 1 ELSE 0)]
      /\ stepreq' = None /\ vm' = StateAfterError(vm, Head(up).pc)
      /\ UNCHANGED <<bytecode, breakpoints, bpreq, loads, queue, posted, robot, issued, excused, missed>>
  BY DEF OnRuntimeError
<1>2. /\ Head(up) \in Up /\ Head(up).type \in {"RuntimeError", "EventExecutionKilled"}
      /\ up' \in Seq(Up)
  BY <1>1, ReceivedFacts
<1>3. vm' \in Knowledge
  <2>1. Head(up).pc \in Addresses
    BY <1>2 DEF Up
  <2> QED BY <1>1, <2>1, LineFromPcLine DEF Knowledge, StateAfterError, Modes
<1>4. answered' \in [Requests -> Nat]
  <2>1. \A r \in Requests : answered[r] + (IF r \in Pending(stepreq) THEN 1 ELSE 0) \in Nat
    BY DEF Types
  <2> QED BY <1>1, <2>1
<1>5. killed' \in BOOLEAN
  BY Zenon DEF OnRuntimeError
<1> QED BY <1>1, <1>2, <1>3, <1>4, <1>5 DEF Types

\* on_breakpoint_set_result: the request stays, goes on with fewer results to wait for, or is
\* answered.
LEMMA ResultFacts ==
  ASSUME Types, OnBreakpointSetResult
  PROVE  /\ Received({"BreakpointSetResult"}) /\ missed' \in SUBSET Pcs
         /\ breakpoints' \in SUBSET Lines
         /\ UNCHANGED <<bytecode, stepreq, loads, vm, queue, posted, robot, issued, excused, killed>>
         /\ \/ bpreq' = bpreq /\ answered' = answered
            \/ /\ bpreq \in BpRequests /\ bpreq' \in BpRequests /\ bpreq'.id = bpreq.id
               /\ answered' = answered
            \/ /\ bpreq \in BpRequests /\ bpreq' = None
               /\ answered' = [answered EXCEPT ![bpreq.id] = @ + 1]
<1> DEFINE res   == Head(up)
           match == IF bpreq = None THEN {} ELSE {e \in bpreq.pending : e.pc = res.pc}
           set   == SetByResult(bpreq.set, (CHOOSE e \in match : TRUE).line, res.ok)
           left  == bpreq.pending \ match
<1>1. /\ Received({"BreakpointSetResult"})
      /\ missed' = IF ~res.ok /\ (match = {} \/ bpreq.id # res.id) THEN missed \cup {res.pc} ELSE missed
      /\ match = {} => UNCHANGED <<breakpoints, bpreq, answered>>
      /\ match # {} =>
           /\ bpreq' = IF left = {} THEN None ELSE [bpreq EXCEPT !.pending = left, !.set = set]
           /\ breakpoints' = IF left = {} THEN set ELSE breakpoints
           /\ answered' = IF left = {} THEN [answered EXCEPT ![bpreq.id] = @ + 1] ELSE answered
      /\ UNCHANGED <<bytecode, stepreq, loads, vm, queue, posted, robot, issued, excused, killed>>
  BY DEF OnBreakpointSetResult
<1>2. res.pc \in Pcs
  <2>1. Head(up) \in Up /\ Head(up).type = "BreakpointSetResult"
    BY <1>1, ReceivedFacts
  <2> QED BY <2>1 DEF Up
<1>3. missed' \in SUBSET Pcs
  <2> HIDE DEF match, res
  <2> QED BY <1>1, <1>2 DEF Types
<1>4. CASE match = {}
  <2> HIDE DEF match
  <2> QED BY <1>1, <1>3, <1>4 DEF Types
<1>5. CASE match # {}
  <2>1. bpreq \in BpRequests /\ match \subseteq bpreq.pending
    BY <1>5 DEF Types
  <2>2. (CHOOSE e \in match : TRUE) \in match
    BY <1>5
  <2>3. (CHOOSE e \in match : TRUE).line \in Lines
    BY <2>1, <2>2 DEF BpRequests
  <2>4. set \in SUBSET Lines
    <3> DEFINE l == (CHOOSE e \in match : TRUE).line
    <3> HIDE DEF l
    <3>1. l \in Lines /\ set = SetByResult(bpreq.set, l, res.ok) /\ bpreq.set \in SUBSET Lines
      BY <2>1, <2>3 DEF l, BpRequests
    <3> QED BY <3>1 DEF SetByResult
  <2>5. left \in SUBSET [pc : Pcs, line : Lines]
    BY <2>1 DEF BpRequests
  <2> HIDE DEF set, left, match
  <2>6. /\ [bpreq EXCEPT !.pending = left, !.set = set] \in BpRequests
        /\ [bpreq EXCEPT !.pending = left, !.set = set].id = bpreq.id
    BY <2>1, <2>4, <2>5 DEF BpRequests
  <2>7. breakpoints' \in SUBSET Lines
    BY <1>1, <1>5, <2>4 DEF Types
  <2> QED BY <1>1, <1>3, <1>5, <2>1, <2>6, <2>7
<1> QED BY <1>4, <1>5

LEMMA ResultTypes ==
  ASSUME Types, OnBreakpointSetResult PROVE Types'
<1>1. up' \in Seq(Up)
  BY ResultFacts, ReceivedFacts
<1>2. bpreq' \in {None} \cup BpRequests
  BY ResultFacts DEF Types
<1>3. answered' \in [Requests -> Nat]
  <2>1. \A r \in Requests : [answered EXCEPT ![r] = @ + 1] \in [Requests -> Nat]
    BY DEF Types
  <2> QED BY <2>1, ResultFacts, NoneFacts DEF Types
<1> QED BY <1>1, <1>2, <1>3, ResultFacts DEF Types

LEMMA PollFacts ==
  ASSUME Types, Poll PROVE Enqueues /\ UNCHANGED <<nodeVars, posted, up, robot, histVars>>
<1>1. Batch(<<Msg("GetExecutionState")>>) /\ NoCallback \in CallbackSet
  BY PlainBatch DEF PlainTypes, CallbackSet
<1> QED BY <1>1 DEF Poll, Enqueues

\* Every request is one of these.
LEMMA AnyRequest ==
  ASSUME Types, Request
  PROVE  Requested /\ (Enqueues \/ UNCHANGED queue \/ Stop)
<1>1. ASSUME NEW p \in Programs \cup {NoProgram}, CompileAndSend(p) \/ CompileAndSave(p)
      PROVE  Requested /\ (Enqueues \/ UNCHANGED queue)
  BY <1>1, ProgramRequests
<1>2. CASE CompileUnsupported \/ SaveUnsupported
  <2>1. NoProgram \in Programs \cup {NoProgram}
    OBVIOUS
  <2> QED BY <1>2, <2>1, ProgramRequests
<1>3. CASE \/ \E type \in {"Run", "Reset", "Pause", "Step", "Other"} : Command(type)
           \/ \E n \in 0..1 : SetVariables(n)
           \/ \E n \in 0..1 : EmitEvents(n)
  BY <1>3, CommandRequests
<1>4. CASE EmitRefused
  BY <1>4, EmitRefusedRequest
<1>8. CASE SetVariablesRefused
  BY <1>8, SetRefusedRequest
<1>5. CASE StepToNextLine
  BY <1>5, StepRequest
<1>6. CASE Stop
  BY <1>6, StopRequest
<1>7. ASSUME NEW want \in SUBSET Lines, SetBreakpoints(want) PROVE Requested /\ Enqueues
  BY <1>7, BreakpointRequest
<1> QED BY <1>1, <1>2, <1>3, <1>4, <1>5, <1>6, <1>7, <1>8 DEF Request

LEMMA StopSlots ==
  ASSUME Types, Stop PROVE queue' \in Seq(Slots)
<1>1. PICK q1, q2 \in Seq(Slots) : queue' = Queued(q2, <<Msg("Stop")>>, NoCallback)
  BY StopRequest
<1>2. Batch(<<Msg("Stop")>>) /\ NoCallback \in CallbackSet
  BY PlainBatch DEF PlainTypes, CallbackSet
<1> QED BY <1>1, <1>2, QueuedSlots DEF Batch

LEMMA TypesInductive == Types /\ [Next]_vars => Types'
<1> SUFFICES ASSUME Types, [Next]_vars PROVE Types'
  OBVIOUS
<1>1. CASE UNCHANGED vars
  BY <1>1 DEF Types, vars, nodeVars, histVars
<1>2. CASE Request
  <2>1. Requested /\ queue' \in Seq(Slots)
    BY <1>2, AnyRequest, EnqueuedSlots, StopSlots DEF Types
  <2> QED BY <2>1 DEF Requested, Types
<1>3. CASE RobotEvent
  <2>1. UNCHANGED <<nodeVars, queue, posted, histVars>>
    BY <1>3, EventFollows
  <2>2. PICK b, answers : Follows(b, answers)
    BY <1>3, EventFollows
  <2>3. robot' \in Robots /\ Len(robot'.bps) <= MaxBreakpoints /\ up' \in Seq(Up)
    BY <2>2, FollowTypes DEF Follows
  <2> QED BY <2>1, <2>3 DEF Types, nodeVars, histVars
<1>4. CASE Poll
  BY <1>4, PollFacts, EnqueuedSlots DEF Types, nodeVars, histVars
<1> QED BY <1>1, <1>2, <1>3, <1>4, WriteTypes, PostedTypes, StateTypes, ErrorTypes, ResultTypes
      DEF Next, Receive, RobotEvent

\* Every reachable state has the types the other arguments read.
THEOREM TypesInvariance == Spec => []Types
BY TypesInit, TypesInductive, PTL DEF Spec

\* The state of the node, of its queue and of the robot is well formed: among others no more
\* breakpoints are set in the robot than AsebaVMSetBreakpoint has room for.
THEOREM TypeOKAlways == Spec => []TypeOK
<1>1. Types => TypeOK
  <2> SUFFICES ASSUME Types PROVE TypeOK
    OBVIOUS
  <2>1. MaxRequests \in Nat
    BY RequestsAssumption
  <2>2. CallbackSet \subseteq Callbacks
    BY <2>1 DEF CallbackSet, Callbacks, NoCallback, Callback, Requests
  <2>3. \A i \in DOMAIN queue : queue[i].cb \in Callbacks
    <3>1. \A i \in DOMAIN queue : queue[i] \in Slots
      BY DEF Types
    <3> QED BY <2>2, <3>1 DEF Slots
  <2>4. posted \in Seq(Callbacks)
    BY <2>2 DEF Types
  <2>5. bpreq = None \/ (bpreq.id \in Requests /\ bpreq.set \subseteq Lines)
    BY DEF Types, BpRequests
  <2>6. robot.code \in [PartNumbers -> AllPrograms] /\ robot.bps \in Seq(Pcs)
    BY DEF Types, Robots
  <2> QED BY <2>3, <2>4, <2>5, <2>6 DEF Types, TypeOK, StepRequests, Knowledge, Modes, Addresses
<1> QED BY TypesInvariance, <1>1, PTL

-----------------------------------------------------------------------------
(* Whole programs *)

IsChunk(slot) == slot.msg.type = "SetBytecode"

\* The messages of a program are next to each other in the queue, the last part first; those
\* written already are missing at its front.
Ordered(q) ==
  /\ \A i \in 1..Len(q) : IsChunk(q[i]) => q[i].msg.part \in 1..Parts[q[i].msg.program]
  /\ \A i \in 1..Len(q) : IsChunk(q[i]) /\ q[i].msg.part > 1 =>
       i < Len(q) /\ q[i + 1].msg = Chunk(q[i].msg.program, q[i].msg.part - 1)
  /\ \A i \in 2..Len(q) : IsChunk(q[i]) /\ q[i].msg.part < Parts[q[i].msg.program] =>
       q[i - 1].msg = Chunk(q[i].msg.program, q[i].msg.part + 1)

\* Some messages of a program have been written, others have not.
Loading(q) == q # <<>> /\ IsChunk(q[1]) /\ q[1].msg.part < Parts[q[1].msg.program]

Whole(b) ==
  \/ \A k \in PartNumbers : b.code[k] = NoProgram
  \/ \E p \in AllPrograms \ {NoProgram} : \A k \in 1..Parts[p] : b.code[k] = p

LoadInv ==
  /\ Ordered(queue)
  /\ Loading(queue) =>
       /\ robot.mode # "Running"
       /\ \A k \in PartNumbers :
            k > queue[1].msg.part /\ k <= Parts[queue[1].msg.program] =>
              robot.code[k] = queue[1].msg.program
  /\ ~Loading(queue) => Whole(robot)

\* A batch keeps the order, and never shows up as a program that is being loaded.
LEMMA OrderedQueued ==
  ASSUME NEW q \in Seq(Slots), Ordered(q), NEW msgs, Batch(msgs), NEW cb \in CallbackSet,
         NEW r, r = Queued(q, msgs, cb)
  PROVE  Ordered(r) /\ (Loading(r) => Loading(q) /\ r[1] = q[1]) /\ (Loading(q) => Loading(r))
<1>1. msgs \in Seq(Down) /\ Len(q) \in Nat /\ Len(msgs) \in Nat
  BY DEF Batch
<1>2. /\ r \in Seq(Slots) /\ Len(r) = Len(q) + Len(msgs)
      /\ \A i \in 1..Len(q) : i \in 1..Len(r) /\ r[i] = q[i]
      /\ \A i \in 1..Len(r) : i > Len(q) =>
           /\ Len(msgs) - (i - Len(q)) + 1 \in 1..Len(msgs)
           /\ r[i].msg = msgs[Len(msgs) - (i - Len(q)) + 1]
  <2>1. r \in Seq(Slots) /\ Len(r) = Len(q) + Len(msgs) /\ \A i \in 1..Len(q) : i \in 1..Len(r) /\ r[i] = q[i]
    BY <1>1, QueuedSlots
  <2>2. ASSUME NEW i \in 1..Len(r), i > Len(q)
        PROVE  /\ Len(msgs) - (i - Len(q)) + 1 \in 1..Len(msgs)
               /\ r[i].msg = msgs[Len(msgs) - (i - Len(q)) + 1]
    BY <1>1, <2>2, QueuedLate
  <2> QED BY <2>1, <2>2
<1>3. ASSUME Loading(q) PROVE Loading(r)
  <2>1. 1 \in 1..Len(q)
    BY <1>1, <1>3 DEF Loading
  <2>2. r[1] = q[1] /\ r # <<>>
    BY <1>1, <1>2, <2>1
  <2> QED BY <1>3, <2>2 DEF Loading
<1>4. ASSUME Loading(r), Len(q) >= 1 PROVE Loading(q) /\ r[1] = q[1]
  <2>1. 1 \in 1..Len(q) /\ q # <<>>
    BY <1>1, <1>4
  <2>2. r[1] = q[1]
    BY <1>2, <2>1
  <2> QED BY <1>4, <2>1, <2>2 DEF Loading
<1>5. ASSUME NEW i \in 1..Len(q), IsChunk(r[i]), r[i].msg.part > 1
      PROVE  i < Len(r) /\ r[i + 1].msg = Chunk(r[i].msg.program, r[i].msg.part - 1)
  <2>1. r[i] = q[i]
    BY <1>2
  <2>2. i < Len(q) /\ q[i + 1].msg = Chunk(q[i].msg.program, q[i].msg.part - 1)
    BY <1>5, <2>1 DEF Ordered
  <2>3. i + 1 \in 1..Len(q) /\ i < Len(r)
    BY <1>1, <1>2, <2>2
  <2>4. r[i + 1] = q[i + 1]
    BY <1>2, <2>3
  <2> QED BY <2>1, <2>2, <2>3, <2>4
<1>6. ASSUME NEW i \in 2..Len(q), IsChunk(r[i]), r[i].msg.part < Parts[r[i].msg.program]
      PROVE  r[i - 1].msg = Chunk(r[i].msg.program, r[i].msg.part + 1)
  <2>1. i \in 1..Len(q) /\ i - 1 \in 1..Len(q)
    BY <1>1
  <2>2. r[i] = q[i] /\ r[i - 1] = q[i - 1]
    BY <1>2, <2>1
  <2> QED BY <1>6, <2>2 DEF Ordered
<1>7. ASSUME \A i \in 1..Len(msgs) : msgs[i].type # "SetBytecode"
      PROVE  Ordered(r) /\ (Loading(r) => Loading(q) /\ r[1] = q[1])
  <2>1. \A i \in 1..Len(r) : i > Len(q) => ~IsChunk(r[i])
    BY <1>2, <1>7 DEF IsChunk
  <2>2. \A i \in 1..Len(r) : IsChunk(r[i]) => i \in 1..Len(q)
    BY <1>1, <2>1
  <2>3. \A i \in 1..Len(r) : IsChunk(r[i]) => r[i].msg.part \in 1..Parts[r[i].msg.program]
    BY <1>2, <2>2 DEF Ordered
  <2>4. \A i \in 2..Len(r) : i \in 1..Len(r) /\ (i \in 1..Len(q) => i \in 2..Len(q))
    BY <1>1, <1>2
  <2>5. Ordered(r)
    BY <1>5, <1>6, <2>2, <2>3, <2>4 DEF Ordered
  <2>6. ASSUME Loading(r) PROVE Len(q) >= 1
    <3>1. 1 \in 1..Len(r) /\ IsChunk(r[1])
      BY <1>2, <2>6 DEF Loading
    <3> QED BY <1>1, <2>2, <3>1
  <2> QED BY <1>4, <2>5, <2>6
<1>8. ASSUME NEW p \in AllPrograms, msgs = SendBytecode(p)
      PROVE  Ordered(r) /\ (Loading(r) => Loading(q) /\ r[1] = q[1])
  <2> DEFINE n == Parts[p]
  <2>1. n \in Nat /\ n >= 1 /\ Len(msgs) = n /\ \A k \in 1..n : msgs[k] = Chunk(p, k)
    BY <1>8, PartFacts, SendBytecodeDown
  <2> HIDE DEF n
  <2>2. \A i \in 1..Len(r) : i > Len(q) =>
           r[i].msg = Chunk(p, n - (i - Len(q)) + 1) /\ n - (i - Len(q)) + 1 \in 1..n
    <3> SUFFICES ASSUME NEW i \in 1..Len(r), i > Len(q)
                 PROVE  r[i].msg = Chunk(p, n - (i - Len(q)) + 1) /\ n - (i - Len(q)) + 1 \in 1..n
      OBVIOUS
    <3> DEFINE k == n - (i - Len(q)) + 1
    <3>1. k \in 1..n /\ r[i].msg = msgs[k]
      BY <1>2, <2>1
    <3> HIDE DEF k
    <3>2. r[i].msg = Chunk(p, k)
      BY <2>1, <3>1
    <3> QED BY <3>1, <3>2 DEF k
  <2>3. \A i \in 1..Len(r) : i > Len(q) =>
           r[i].msg.program = p /\ r[i].msg.part = n - (i - Len(q)) + 1
    <3>1. \A k \in 1..n : Chunk(p, k).program = p /\ Chunk(p, k).part = k
      BY DEF Chunk
    <3> QED BY <2>2, <3>1
  <2>4. \A i \in 1..Len(r) : IsChunk(r[i]) => r[i].msg.part \in 1..Parts[r[i].msg.program]
    <3> SUFFICES ASSUME NEW i \in 1..Len(r), IsChunk(r[i])
                 PROVE  r[i].msg.part \in 1..Parts[r[i].msg.program]
      OBVIOUS
    <3>1. CASE i > Len(q)
      BY <2>2, <2>3, <3>1 DEF n
    <3>2. CASE ~ (i > Len(q))
      <4>1. i \in 1..Len(q)
        BY <1>1, <3>2
      <4> QED BY <1>2, <4>1 DEF Ordered
    <3> QED BY <3>1, <3>2
  <2>5. ASSUME NEW i \in 1..Len(r), IsChunk(r[i]), r[i].msg.part > 1
        PROVE  i < Len(r) /\ r[i + 1].msg = Chunk(r[i].msg.program, r[i].msg.part - 1)
    <3>1. CASE i > Len(q)
      <4>1. r[i].msg.program = p /\ r[i].msg.part = n - (i - Len(q)) + 1
        BY <2>3, <3>1
      <4>2. i < Len(r) /\ i + 1 \in 1..Len(r) /\ i + 1 > Len(q)
        BY <1>1, <1>2, <2>1, <2>5, <3>1, <4>1
      <4>3. r[i + 1].msg = Chunk(p, n - (i + 1 - Len(q)) + 1)
        BY <2>2, <4>2
      <4>4. n - (i + 1 - Len(q)) + 1 = r[i].msg.part - 1
        BY <1>1, <2>1, <4>1
      <4> QED BY <4>1, <4>2, <4>3, <4>4
    <3>2. CASE ~ (i > Len(q))
      <4>1. i \in 1..Len(q)
        BY <1>1, <3>2
      <4> QED BY <1>5, <2>5, <4>1
    <3> QED BY <3>1, <3>2
  <2>6. ASSUME NEW i \in 2..Len(r), IsChunk(r[i]), r[i].msg.part < Parts[r[i].msg.program]
        PROVE  r[i - 1].msg = Chunk(r[i].msg.program, r[i].msg.part + 1)
    <3>1. CASE i > Len(q)
      <4>1. i \in 1..Len(r)
        BY <1>1, <1>2
      <4>2. r[i].msg.program = p /\ r[i].msg.part = n - (i - Len(q)) + 1 /\ r[i].msg.part < n
        BY <2>3, <2>6, <3>1, <4>1 DEF n
      <4>3. i - 1 \in 1..Len(r) /\ i - 1 > Len(q)
        BY <1>1, <1>2, <2>1, <3>1, <4>2
      <4>4. r[i - 1].msg = Chunk(p, n - (i - 1 - Len(q)) + 1)
        BY <2>2, <4>3
      <4>5. n - (i - 1 - Len(q)) + 1 = r[i].msg.part + 1
        BY <1>1, <2>1, <4>2
      <4> QED BY <4>2, <4>4, <4>5
    <3>2. CASE ~ (i > Len(q))
      <4>1. i \in 2..Len(q)
        BY <1>1, <3>2
      <4> QED BY <1>6, <2>6, <4>1
    <3> QED BY <3>1, <3>2
  <2>7. Ordered(r)
    BY <2>4, <2>5, <2>6 DEF Ordered
  <2>8. ASSUME Loading(r) PROVE Len(q) >= 1
    <3> SUFFICES ASSUME Len(q) = 0 PROVE FALSE
      BY <1>1
    <3>1. 1 \in 1..Len(r) /\ r[1].msg.part < Parts[r[1].msg.program]
      BY <1>2, <2>8 DEF Loading
    <3>2. r[1].msg.program = p /\ r[1].msg.part = n
      BY <2>1, <2>3, <3>1
    <3> QED BY <2>1, <3>1, <3>2 DEF n
  <2> QED BY <1>4, <2>7, <2>8
<1> QED BY <1>3, <1>7, <1>8 DEF Batch

\* Queues that grow by batches, while the robot waits.
LEMMA LoadKept ==
  ASSUME LoadInv, robot' = robot, Ordered(queue'),
         Loading(queue') => Loading(queue) /\ queue'[1] = queue[1],
         Loading(queue) => Loading(queue')
  PROVE  LoadInv'
<1>1. CASE Loading(queue')
  BY <1>1 DEF LoadInv
<1>2. CASE ~Loading(queue')
  BY <1>2 DEF LoadInv
<1> QED BY <1>1, <1>2

LEMMA EnqueuedLoad ==
  ASSUME Types, LoadInv, robot' = robot, Enqueues PROVE LoadInv'
<1>1. queue \in Seq(Slots) /\ Ordered(queue)
  BY DEF Types, LoadInv
<1>2. PICK msgs, cb : Batch(msgs) /\ cb \in CallbackSet /\ queue' = Queued(queue, msgs, cb)
  BY DEF Enqueues
<1>3. /\ Ordered(queue') /\ (Loading(queue') => Loading(queue) /\ queue'[1] = queue[1])
      /\ (Loading(queue) => Loading(queue'))
  BY <1>1, <1>2, OrderedQueued
<1> QED BY <1>3, LoadKept

LEMMA StopLoad ==
  ASSUME Types, LoadInv, Stop PROVE LoadInv'
<1>1. queue \in Seq(Slots) /\ Ordered(queue) /\ robot' = robot
  BY DEF Types, LoadInv, Stop
<1>2. PICK q1, q2 \in Seq(Slots) :
        /\ q1 = Queued(queue, SendBytecode(StopCommand), NoCallback)
        /\ q2 = Queued(q1, <<Msg("Run")>>, Callback("answer", This))
        /\ queue' = Queued(q2, <<Msg("Stop")>>, NoCallback)
  BY StopRequest
<1>3. /\ Batch(SendBytecode(StopCommand)) /\ Batch(<<Msg("Run")>>) /\ Batch(<<Msg("Stop")>>)
      /\ NoCallback \in CallbackSet /\ Callback("answer", This) \in CallbackSet
  <2>1. This \in Requests
    BY IssueFacts DEF Stop
  <2> QED BY <2>1, StopRequest, BytecodeBatch, PlainBatch, CallbackFacts DEF PlainTypes
<1>4. /\ Ordered(q1) /\ (Loading(q1) => Loading(queue) /\ q1[1] = queue[1])
      /\ (Loading(queue) => Loading(q1))
  BY <1>1, <1>2, <1>3, OrderedQueued
<1>5. /\ Ordered(q2) /\ (Loading(q2) => Loading(q1) /\ q2[1] = q1[1])
      /\ (Loading(q1) => Loading(q2))
  BY <1>2, <1>3, <1>4, OrderedQueued
<1>6. /\ Ordered(queue') /\ (Loading(queue') => Loading(q2) /\ queue'[1] = q2[1])
      /\ (Loading(q2) => Loading(queue'))
  BY <1>2, <1>3, <1>5, OrderedQueued
<1> QED BY <1>1, <1>4, <1>5, <1>6, LoadKept

LEMMA OrderedTail ==
  ASSUME NEW q \in Seq(Slots), q # <<>>, Ordered(q)
  PROVE  Ordered(Tail(q))
<1> DEFINE t == Tail(q)
<1>1. Len(q) \in Nat /\ Len(t) = Len(q) - 1 /\ \A i \in 1..Len(t) : i + 1 \in 2..Len(q) /\ t[i] = q[i + 1]
  OBVIOUS
<1> HIDE DEF t
<1>2. \A i \in 1..Len(t) : IsChunk(t[i]) => t[i].msg.part \in 1..Parts[t[i].msg.program]
  <2>1. \A i \in 2..Len(q) : i \in 1..Len(q)
    BY <1>1
  <2> QED BY <1>1, <2>1 DEF Ordered
<1>3. ASSUME NEW i \in 1..Len(t), IsChunk(t[i]), t[i].msg.part > 1
      PROVE  i < Len(t) /\ t[i + 1].msg = Chunk(t[i].msg.program, t[i].msg.part - 1)
  <2>1. i + 1 \in 1..Len(q) /\ t[i] = q[i + 1]
    BY <1>1
  <2>2. i + 1 < Len(q) /\ q[i + 1 + 1].msg = Chunk(t[i].msg.program, t[i].msg.part - 1)
    BY <1>3, <2>1 DEF Ordered
  <2>3. i + 1 \in 1..Len(t) /\ i < Len(t)
    BY <1>1, <2>2
  <2> QED BY <1>1, <2>2, <2>3
<1>4. ASSUME NEW i \in 2..Len(t), IsChunk(t[i]), t[i].msg.part < Parts[t[i].msg.program]
      PROVE  t[i - 1].msg = Chunk(t[i].msg.program, t[i].msg.part + 1)
  <2>1. i \in 1..Len(t) /\ i - 1 \in 1..Len(t) /\ i + 1 \in 2..Len(q) /\ (i + 1) - 1 = (i - 1) + 1
    BY <1>1
  <2>2. t[i] = q[i + 1] /\ t[i - 1] = q[(i - 1) + 1]
    BY <1>1, <2>1
  <2>3. q[(i + 1) - 1].msg = Chunk(t[i].msg.program, t[i].msg.part + 1)
    BY <1>4, <2>1, <2>2 DEF Ordered
  <2> QED BY <2>1, <2>2, <2>3
<1> QED BY <1>2, <1>3, <1>4 DEF Ordered, t

\* A write completes: the robot gets the next part, or something that is no part when it has
\* them all.
LEMMA WriteLoad ==
  ASSUME Types, LoadInv, HandleWrite PROVE LoadInv'
<1> DEFINE m == queue[1].msg
<1>1. /\ queue # <<>> /\ queue' = Tail(queue) /\ m \in Down /\ RobotReceives(m)
      /\ queue \in Seq(Slots) /\ Len(queue) \in Nat /\ Len(queue) >= 1
      /\ Len(queue') = Len(queue) - 1 /\ \A i \in 1..Len(queue') : queue'[i] = queue[i + 1]
  <2>1. queue # <<>> /\ queue' = Tail(queue) /\ RobotReceives(Head(queue).msg) /\ queue \in Seq(Slots)
    BY DEF HandleWrite, Types
  <2>2. Len(queue) \in Nat /\ Len(queue) >= 1
    BY <2>1
  <2> QED BY <2>1, <2>2, FirstSlot
<1>2. PICK b, answers :
        /\ Follows(b, answers) /\ b.code = Stored(m).code
        /\ b.mode = "Running" => m.type = "Run" \/ (robot.mode = "Running" /\ m.type # "SetBytecode")
  BY <1>1, RobotFollows
<1>3. robot' = b /\ robot \in Robots
  BY <1>2, FollowTypes DEF Types
<1>4. Ordered(queue') /\ Ordered(queue)
  BY <1>1, OrderedTail DEF LoadInv
<1>5. /\ IsChunk(queue[1]) <=> m.type = "SetBytecode"
      /\ Loading(queue) <=> m.type = "SetBytecode" /\ m.part < Parts[m.program]
  BY <1>1 DEF IsChunk, Loading
\* What is second is a part that is not the last of its program only behind the part after it.
<1>6. ASSUME Loading(queue')
      PROVE  /\ m.type = "SetBytecode" /\ m.part > 1
             /\ queue'[1].msg = Chunk(m.program, m.part - 1)
  <2>1. 1 \in 1..Len(queue') /\ 2 \in 2..Len(queue) /\ 2 \in 1..Len(queue)
    BY <1>1, <1>6 DEF Loading
  <2>2. queue'[1] = queue[2]
    BY <1>1, <2>1
  <2>3. IsChunk(queue[2]) /\ queue[2].msg.part < Parts[queue[2].msg.program]
    BY <1>6, <2>2 DEF Loading
  <2>4. queue[2 - 1].msg = Chunk(queue[2].msg.program, queue[2].msg.part + 1)
    BY <1>4, <2>1, <2>3 DEF Ordered
  <2>5. m = Chunk(queue[2].msg.program, queue[2].msg.part + 1)
    BY <2>4
  <2>6. queue[2].msg.part \in 1..Parts[queue[2].msg.program]
    BY <1>4, <2>1, <2>3 DEF Ordered
  <2>7. m.type = "SetBytecode" /\ m.part = queue[2].msg.part + 1 /\ m.part > 1
    BY <2>5, <2>6 DEF Chunk
  <2>8. queue[1 + 1].msg = Chunk(m.program, m.part - 1)
    <3>1. 1 \in 1..Len(queue) /\ IsChunk(queue[1])
      BY <1>1, <1>5, <2>7
    <3> QED BY <1>4, <2>7, <3>1 DEF Ordered
  <2> QED BY <2>2, <2>7, <2>8
<1>7. CASE m.type = "SetBytecode"
  <2>1. /\ m.program \in AllPrograms /\ m.part \in 1..Parts[m.program] /\ m.part \in PartNumbers
        /\ Parts[m.program] \in Nat
    <3>1. m.program \in AllPrograms
      BY <1>1, <1>7 DEF Down, PlainTypes
    <3>2. m.part \in 1..Parts[m.program]
      BY <1>1, <1>4, <1>5, <1>7 DEF Ordered
    <3> QED BY <3>1, <3>2, PartFacts
  <2>2. b.mode # "Running"
    BY <1>2, <1>7
  <2>3. CASE m.program = NoProgram
    <3>1. m.part = 1 /\ ~Loading(queue)
      BY <1>5, <2>1, <2>3, PartFacts
    <3>2. ~Loading(queue')
      BY <1>6, <3>1
    <3>3. b.code = robot.code
      BY <1>2, <2>3 DEF Stored
    <3>4. Whole(robot')
      BY <1>3, <3>1, <3>3 DEF LoadInv, Whole
    <3> QED BY <1>4, <3>2, <3>4 DEF LoadInv
  <2>4. CASE m.program # NoProgram
    <3>1. b.code = [robot.code EXCEPT ![m.part] = m.program] /\ robot.code \in [PartNumbers -> AllPrograms]
      BY <1>2, <1>3, <1>7, <2>4 DEF Stored, Robots
    <3>2. \A k \in PartNumbers : k > m.part /\ k <= Parts[m.program] => robot.code[k] = m.program
      <4>1. CASE Loading(queue)
        BY <4>1 DEF LoadInv
      <4>2. CASE ~Loading(queue)
        BY <1>5, <1>7, <2>1, <4>2, PartFacts
      <4> QED BY <4>1, <4>2
    <3>3. \A k \in PartNumbers : k >= m.part /\ k <= Parts[m.program] => b.code[k] = m.program
      <4> SUFFICES ASSUME NEW k \in PartNumbers, k >= m.part, k <= Parts[m.program]
                   PROVE  b.code[k] = m.program
        OBVIOUS
      <4>1. k = m.part \/ k > m.part
        <5>1. k \in Nat /\ m.part \in Nat
          BY <2>1, PartFacts
        <5> HIDE DEF m
        <5> QED BY <5>1
      <4>2. CASE k = m.part
        BY <2>1, <3>1, <4>2
      <4>3. CASE k > m.part
        <5>1. k # m.part
          BY <2>1, <4>3, PartFacts
        <5> QED BY <2>1, <3>1, <3>2, <4>3, <5>1
      <4> QED BY <4>1, <4>2, <4>3
    <3>4. CASE Loading(queue')
      <4>1. /\ queue'[1].msg = Chunk(m.program, m.part - 1)
            /\ queue'[1].msg.program = m.program /\ queue'[1].msg.part = m.part - 1
        BY <1>6, <3>4 DEF Chunk
      <4>2. \A k \in PartNumbers : k > m.part - 1 => k >= m.part
        <5>1. PartNumbers \subseteq Nat /\ m.part \in Nat
          BY <2>1, PartFacts
        <5> HIDE DEF m
        <5> QED BY <5>1
      <4> QED BY <1>3, <1>4, <2>2, <3>3, <3>4, <4>1, <4>2 DEF LoadInv
    <3>5. CASE ~Loading(queue')
      <4>1. m.part = 1
        <5> SUFFICES ASSUME m.part > 1 PROVE Loading(queue')
          BY <2>1, <3>5
        <5>1. 1 \in 1..Len(queue) /\ IsChunk(queue[1])
          BY <1>1, <1>5, <1>7
        <5>2. 1 < Len(queue) /\ queue[1 + 1].msg = Chunk(m.program, m.part - 1)
          BY <1>4, <5>1 DEF Ordered
        <5>3. 1 \in 1..Len(queue') /\ queue' # <<>>
          <6>1. Len(queue') >= 1 /\ Len(queue') \in Nat
            BY <1>1, <5>2
          <6> QED BY <6>1
        <5>4. queue'[1].msg = Chunk(m.program, m.part - 1)
          BY <1>1, <5>2, <5>3
        <5>5. IsChunk(queue'[1]) /\ queue'[1].msg.part = m.part - 1 /\ queue'[1].msg.program = m.program
          BY <5>4 DEF IsChunk, Chunk
        <5> QED BY <2>1, <5>3, <5>5 DEF Loading
      <4>2. Whole(b)
        BY <2>1, <2>4, <3>3, <4>1, PartFacts DEF Whole
      <4> QED BY <1>3, <1>4, <3>5, <4>2 DEF LoadInv
    <3> QED BY <3>4, <3>5
  <2> QED BY <2>3, <2>4
<1>8. CASE m.type # "SetBytecode"
  <2>1. ~Loading(queue) /\ ~Loading(queue')
    BY <1>5, <1>6, <1>8
  <2>2. b.code = robot.code
    BY <1>2, <1>8 DEF Stored
  <2>3. Whole(robot')
    BY <1>3, <2>1, <2>2 DEF LoadInv, Whole
  <2> QED BY <1>4, <2>1, <2>3 DEF LoadInv
<1> QED BY <1>7, <1>8

LEMMA LoadInit == Init => LoadInv
<1> SUFFICES ASSUME Init PROVE LoadInv
  OBVIOUS
<1>1. Batch(<<Msg("GetExecutionState")>>) /\ NoCallback \in CallbackSet /\ <<>> \in Seq(Slots)
  BY PlainBatch DEF PlainTypes, CallbackSet
<1>2. Ordered(<<>>) /\ ~Loading(<<>>)
  BY DEF Ordered, Loading
<1>3. queue = Queued(<<>>, <<Msg("GetExecutionState")>>, NoCallback)
  BY DEF Init
<1>4. Ordered(queue) /\ ~Loading(queue)
  <2> DEFINE q == <<>>
             msgs == <<Msg("GetExecutionState")>>
  <2>1. /\ q \in Seq(Slots) /\ Ordered(q) /\ ~Loading(q) /\ Batch(msgs)
        /\ NoCallback \in CallbackSet /\ queue = Queued(q, msgs, NoCallback)
    BY <1>1, <1>2, <1>3
  <2> HIDE DEF q, msgs
  <2> QED BY <2>1, OrderedQueued
<1>5. Whole(robot)
  BY DEF Init, Whole
<1> QED BY <1>4, <1>5 DEF LoadInv

LEMMA LoadInductive == Types /\ LoadInv /\ [Next]_vars => LoadInv'
<1> SUFFICES ASSUME Types, LoadInv, [Next]_vars PROVE LoadInv'
  OBVIOUS
<1>1. ASSUME UNCHANGED <<queue, robot>> PROVE LoadInv'
  BY <1>1 DEF LoadInv
<1>2. CASE Request
  BY <1>1, <1>2, AnyRequest, EnqueuedLoad, StopLoad DEF Requested
<1>3. CASE HandleWrite
  BY <1>3, WriteLoad
<1>4. CASE RobotEvent
  <2>1. queue' = queue
    BY <1>4, EventFollows
  <2>2. PICK b, answers : /\ Follows(b, answers) /\ b.code = robot.code
                          /\ b.mode = "Running" => robot.mode = "Running"
    BY <1>4, EventFollows
  <2>3. robot'.code = robot.code /\ (robot'.mode = "Running" => robot.mode = "Running")
    BY <2>2, FollowTypes
  <2> QED BY <2>1, <2>3 DEF LoadInv, Whole
<1>5. CASE RunPosted
  BY <1>1, <1>5 DEF RunPosted
<1>6. CASE Receive
  <2>1. CASE OnExecutionState
    BY <2>1, StateTypes, EnqueuedLoad DEF OnExecutionState
  <2>2. CASE OnRuntimeError \/ OnBreakpointSetResult
    BY <1>1, <2>2 DEF OnRuntimeError, OnBreakpointSetResult
  <2> QED BY <1>6, <2>1, <2>2 DEF Receive
<1>7. CASE Poll
  BY <1>7, PollFacts, EnqueuedLoad
<1>8. CASE UNCHANGED vars
  BY <1>1, <1>8 DEF vars
<1> QED BY <1>2, <1>3, <1>4, <1>5, <1>6, <1>7, <1>8 DEF Next, RobotEvent

\* A robot never runs a program of which it has some parts only: however requests to load, run
\* and stop are interleaved, write_messages keeps the parts of a program together and in front
\* of what was asked after them, and each SET_BYTECODE stops the robot.
THEOREM RunsWholeProgramAlways == Spec => []RunsWholeProgram
<1>1. LoadInv => RunsWholeProgram
  BY DEF LoadInv, Whole, RunsWholeProgram
<1>2. Spec => []LoadInv
  BY TypesInvariance, LoadInit, LoadInductive, PTL DEF Spec
<1> QED BY <1>1, <1>2, PTL

-----------------------------------------------------------------------------
(* What the node knows of the robot *)

LastReport(i) ==
  Report(up[i]) /\ \A j \in 1..Len(up) : j > i => ~Report(up[j])

Asked == \E i \in 1..Len(queue) : queue[i].msg.type = "GetExecutionState"

Known == vm.state = robot.mode /\ (robot.mode # "Running" => vm.pc = robot.pc)

\* The last report on its way is true; with none on its way the node knows already, took the
\* end of an event for that of the program, or has a question in its queue.
KnowInv ==
  /\ \A i \in 1..Len(up) : LastReport(i) => Tells(up[i], robot)
  /\ (\A i \in 1..Len(up) : ~Report(up[i])) => killed \/ Known \/ Asked

LEMMA KnowInit == Init => KnowInv
<1> SUFFICES ASSUME Init PROVE KnowInv
  OBVIOUS
<1>1. Asked
  <2> DEFINE q == <<>>
             msgs == <<Msg("GetExecutionState")>>
  <2>1. q \in Seq(Slots) /\ msgs \in Seq(Down) /\ NoCallback \in CallbackSet
    BY PlainBatch DEF Batch, PlainTypes, CallbackSet
  <2>2. Len(q) = 0 /\ Len(msgs) = 1 /\ msgs[1].type = "GetExecutionState"
    BY DEF Msg
  <2>3. queue = Queued(q, msgs, NoCallback)
    BY DEF Init
  <2> HIDE DEF q, msgs
  <2>4. Len(msgs) = 1 => Len(queue) = Len(q) + 1 /\ queue[Len(q) + 1].msg = msgs[1]
    BY <2>1, <2>3, QueuedFirst
  <2>5. Len(queue) = 1 /\ queue[1].msg = msgs[1]
    BY <2>2, <2>4
  <2> QED BY <2>2, <2>5 DEF Asked
<1> QED BY <1>1 DEF Init, KnowInv

\* The robot takes a step, and its last report, if any, is true.
LEMMA FollowKnow ==
  ASSUME Types, KnowInv, NEW b, NEW answers, Follows(b, answers), UNCHANGED <<vm, killed>>,
         Asked => Asked' \/ (answers # <<>> /\ Report(answers[Len(answers)]))
  PROVE  KnowInv'
<1>1. /\ robot' = b /\ up' = up \o answers /\ up \in Seq(Up) /\ answers \in Seq(Up)
      /\ Len(up) \in Nat /\ Len(answers) \in Nat
  BY FollowTypes DEF Follows, Types
<1>2. /\ Len(up') = Len(up) + Len(answers)
      /\ \A i \in 1..Len(up) : i \in 1..Len(up') /\ up'[i] = up[i]
      /\ \A i \in 1..Len(up') : i > Len(up) =>
           i - Len(up) \in 1..Len(answers) /\ up'[i] = answers[i - Len(up)]
  BY <1>1
<1>3. CASE answers # <<>> /\ Report(answers[Len(answers)])
  <2>1. Len(answers) >= 1 /\ Len(up') \in 1..Len(up') /\ Len(up') > Len(up)
    BY <1>1, <1>2, <1>3
  <2>2. up'[Len(up')] = answers[Len(answers)]
    BY <1>1, <1>2, <2>1
  <2>3. Tells(answers[Len(answers)], b)
    <3>1. Len(answers) \in 1..Len(answers)
      BY <1>1, <2>1
    <3> QED BY <1>3, <3>1 DEF Follows, Told
  <2>4. \A i \in 1..Len(up') : LastReport(i)' => i = Len(up')
    <3>1. Report(up'[Len(up')])
      BY <1>3, <2>2
    <3>2. ASSUME NEW i \in 1..Len(up'), LastReport(i)' PROVE i = Len(up')
      <4>1. \A j \in 1..Len(up') : j > i => ~Report(up'[j])
        BY <3>2 DEF LastReport
      <4>2. ~(Len(up') > i)
        BY <2>1, <3>1, <4>1
      <4> QED BY <1>1, <1>2, <4>2
    <3> QED BY <3>2
  <2> QED BY <1>1, <1>3, <2>1, <2>2, <2>3, <2>4 DEF KnowInv
<1>4. CASE ~ (answers # <<>> /\ Report(answers[Len(answers)]))
  <2>1. b.mode = robot.mode /\ b.pc = robot.pc /\ \A i \in 1..Len(answers) : ~Report(answers[i])
    BY <1>4 DEF Follows, Told
  <2>2. \A i \in 1..Len(up') : Report(up'[i]) => i \in 1..Len(up)
    BY <1>1, <1>2, <2>1
  <2>3. ASSUME NEW i \in 1..Len(up'), LastReport(i)' PROVE Tells(up'[i], robot')
    <3>1. i \in 1..Len(up) /\ up'[i] = up[i]
      BY <1>2, <2>2, <2>3 DEF LastReport
    <3>2. LastReport(i)
      BY <1>2, <2>3, <3>1 DEF LastReport
    <3>3. Tells(up[i], robot)
      BY <3>1, <3>2 DEF KnowInv
    <3> QED BY <1>1, <2>1, <3>1, <3>3 DEF Tells
  <2>4. ASSUME \A i \in 1..Len(up') : ~Report(up'[i]) PROVE killed' \/ Known' \/ Asked'
    <3>1. killed \/ Known \/ Asked
      BY <1>2, <2>4 DEF KnowInv
    <3> QED BY <1>1, <1>4, <2>1, <3>1 DEF Known
  <2> QED BY <2>3, <2>4 DEF KnowInv
<1> QED BY <1>3, <1>4

LEMMA WriteKnow ==
  ASSUME Types, KnowInv, HandleWrite PROVE KnowInv'
<1> DEFINE m == Head(queue).msg
<1>1. /\ queue # <<>> /\ queue' = Tail(queue) /\ m \in Down /\ RobotReceives(m) /\ m = queue[1].msg
      /\ queue \in Seq(Slots) /\ Len(queue') = Len(queue) - 1
      /\ \A i \in 1..Len(queue') : queue'[i] = queue[i + 1]
      /\ UNCHANGED <<vm, killed>>
  BY FirstSlot DEF HandleWrite, Types, nodeVars
<1>2. PICK b, answers :
        Follows(b, answers) /\ (m.type = "GetExecutionState" => answers = <<State(robot)>>)
  BY <1>1, RobotFollows
<1>3. ASSUME Asked, ~Asked' PROVE answers # <<>> /\ Report(answers[Len(answers)])
  <2>1. PICK i \in 1..Len(queue) : queue[i].msg.type = "GetExecutionState"
    BY <1>3 DEF Asked
  <2>2. CASE i = 1
    <3>1. answers = <<State(robot)>>
      BY <1>1, <1>2, <2>1, <2>2
    <3>2. Report(State(robot))
      BY DEF Report, State
    <3> QED BY <3>1, <3>2
  <2>3. CASE i # 1
    <3>1. i - 1 \in 1..Len(queue') /\ (i - 1) + 1 = i
      BY <1>1, <2>3
    <3>2. queue'[i - 1] = queue[i]
      BY <1>1, <3>1
    <3> QED BY <1>3, <2>1, <3>1, <3>2 DEF Asked
  <2> QED BY <2>2, <2>3
<1> QED BY <1>1, <1>2, <1>3, FollowKnow

\* A report is taken: what the node knows then is what the report said.
LEMMA ReceiveKnow ==
  ASSUME Types, KnowInv, NEW types, Received(types), robot' = robot,
         Asked => Asked', Asked' \in BOOLEAN,
         Report(Head(up)) => killed' \/ (Tells(Head(up), robot) => Known'),
         ~Report(Head(up)) => UNCHANGED <<vm, killed>>
  PROVE  KnowInv'
<1>1. /\ Head(up) = up[1] /\ up # <<>> /\ up \in Seq(Up) /\ Len(up') = Len(up) - 1
      /\ \A i \in 1..Len(up') : up'[i] = up[i + 1]
  BY ReceivedFacts DEF Types
<1>2. Len(up) \in Nat /\ Len(up) >= 1 /\ \A i \in 1..Len(up') : i + 1 \in 1..Len(up)
  BY <1>1
<1>3. \A j \in 1..Len(up) : j > 1 => j - 1 \in 1..Len(up') /\ up'[j - 1] = up[j]
  BY <1>1, <1>2
<1>4. ASSUME NEW i \in 1..Len(up'), LastReport(i)' PROVE Tells(up'[i], robot')
  <2>1. up'[i] = up[i + 1] /\ i + 1 \in 1..Len(up)
    BY <1>1, <1>2
  <2>2. ASSUME NEW j \in 1..Len(up), j > i + 1 PROVE ~Report(up[j])
    <3>1. j - 1 \in 1..Len(up') /\ up'[j - 1] = up[j] /\ j - 1 > i
      BY <1>2, <1>3, <2>2
    <3> QED BY <1>4, <3>1 DEF LastReport
  <2>3. LastReport(i + 1)
    BY <1>4, <2>1, <2>2 DEF LastReport
  <2> QED BY <2>1, <2>3 DEF KnowInv
<1>5. ASSUME \A i \in 1..Len(up') : ~Report(up'[i]) PROVE killed' \/ Known' \/ Asked'
  <2>1. \A j \in 1..Len(up) : j > 1 => ~Report(up[j])
    BY <1>3, <1>5
  <2>2. CASE Report(Head(up))
    <3>1. LastReport(1) /\ 1 \in 1..Len(up)
      BY <1>1, <1>2, <2>1, <2>2 DEF LastReport
    <3>2. Tells(Head(up), robot)
      BY <1>1, <3>1 DEF KnowInv
    <3> QED BY <2>2, <3>2
  <2>3. CASE ~Report(Head(up))
    <3>1. \A j \in 1..Len(up) : ~Report(up[j])
      BY <1>1, <1>2, <2>1, <2>3
    <3>2. killed \/ Known \/ Asked
      BY <3>1 DEF KnowInv
    <3> QED BY <2>3, <3>2 DEF Known
  <2> QED BY <2>2, <2>3
<1> QED BY <1>4, <1>5 DEF KnowInv

\* Nothing in the queue is lost when a batch is added.
LEMMA StillAsked ==
  ASSUME Types, Asked, Enqueues \/ UNCHANGED queue \/ Stop PROVE Asked'
<1>1. PICK i \in 1..Len(queue) : queue[i].msg.type = "GetExecutionState"
  BY DEF Asked
<1>2. queue \in Seq(Slots)
  BY DEF Types
<1>3. CASE Enqueues
  <2>1. PICK msgs, cb : Batch(msgs) /\ cb \in CallbackSet /\ queue' = Queued(queue, msgs, cb)
    BY <1>3 DEF Enqueues
  <2>2. i \in 1..Len(queue') /\ queue'[i] = queue[i]
    BY <1>2, <2>1, QueuedMessages DEF Batch
  <2> QED BY <1>1, <2>2 DEF Asked
<1>4. CASE Stop
  <2>1. PICK q1, q2 \in Seq(Slots) :
          /\ q1 = Queued(queue, SendBytecode(StopCommand), NoCallback)
          /\ q2 = Queued(q1, <<Msg("Run")>>, Callback("answer", This))
          /\ queue' = Queued(q2, <<Msg("Stop")>>, NoCallback)
    BY <1>4, StopRequest
  <2>2. /\ SendBytecode(StopCommand) \in Seq(Down) /\ <<Msg("Run")>> \in Seq(Down)
        /\ <<Msg("Stop")>> \in Seq(Down)
        /\ NoCallback \in CallbackSet /\ Callback("answer", This) \in CallbackSet
    <3>1. This \in Requests
      BY <1>4, IssueFacts DEF Stop
    <3> QED BY <1>4, <3>1, StopRequest, SendBytecodeDown, PlainBatch, CallbackFacts DEF PlainTypes, Batch
  <2> DEFINE m1 == SendBytecode(StopCommand)
             m2 == <<Msg("Run")>>
             m3 == <<Msg("Stop")>>
             cb == Callback("answer", This)
             none == NoCallback
  <2>a. q1 \in Seq(Slots) /\ q2 \in Seq(Slots)
    BY <2>1
  <2>b. m1 \in Seq(Down) /\ none \in CallbackSet /\ q1 = Queued(queue, m1, none)
    BY <2>1, <2>2
  <2>c. m2 \in Seq(Down) /\ cb \in CallbackSet /\ q2 = Queued(q1, m2, cb)
    BY <2>1, <2>2
  <2>d. m3 \in Seq(Down) /\ queue' = Queued(q2, m3, none)
    BY <2>1, <2>2
  <2> HIDE DEF m1, m2, m3, cb, none
  <2>3. i \in 1..Len(q1) /\ q1[i] = queue[i]
    BY <1>1, <1>2, <2>b, QueuedKeeps
  <2>4. i \in 1..Len(q2) /\ q2[i] = q1[i]
    BY <2>3, <2>a, <2>c, QueuedKeeps
  <2>5. i \in 1..Len(queue') /\ queue'[i] = q2[i]
    BY <2>4, <2>a, <2>b, <2>d, QueuedKeeps
  <2> QED BY <1>1, <2>3, <2>4, <2>5 DEF Asked
<1>5. CASE UNCHANGED queue
  BY <1>5 DEF Asked
<1> QED BY <1>3, <1>4, <1>5

LEMMA KnowKept ==
  ASSUME KnowInv, UNCHANGED <<up, robot, vm, killed>>, Asked => Asked' PROVE KnowInv'
BY DEF KnowInv, LastReport, Known

LEMMA KnowInductive == Types /\ KnowInv /\ [Next]_vars => KnowInv'
<1> SUFFICES ASSUME Types, KnowInv, [Next]_vars PROVE KnowInv'
  OBVIOUS
<1>1. CASE Request
  BY <1>1, AnyRequest, StillAsked, KnowKept DEF Requested
<1>2. CASE HandleWrite
  BY <1>2, WriteKnow
<1>3. CASE RobotEvent
  <2>1. UNCHANGED <<nodeVars, queue, posted, histVars>>
    BY <1>3, EventFollows
  <2>2. PICK b, answers : Follows(b, answers)
    BY <1>3, EventFollows
  <2>3. Asked' = Asked /\ UNCHANGED <<vm, killed>>
    BY <2>1 DEF Asked, nodeVars, histVars
  <2> QED BY <2>2, <2>3, FollowKnow
<1>4. CASE RunPosted
  <2>1. UNCHANGED <<up, robot, vm, killed, queue>>
    BY <1>4 DEF RunPosted
  <2> QED BY <2>1, StillAsked, KnowKept
<1>5. CASE OnExecutionState
  <2>1. /\ Received({"ExecutionState"}) /\ robot' = robot
        /\ vm'.state = Head(up).state /\ vm'.pc = Head(up).pc
    BY <1>5 DEF OnExecutionState
  <2>2. Head(up).type = "ExecutionState"
    BY <2>1 DEF Received
  <2>3. Report(Head(up)) /\ (Tells(Head(up), robot) => Known')
    BY <2>1, <2>2 DEF Report, Tells, Known
  <2>4. (Asked => Asked') /\ Asked' \in BOOLEAN
    BY <1>5, StateTypes, StillAsked DEF Asked
  <2> QED BY <2>1, <2>3, <2>4, ReceiveKnow
<1>6. CASE OnRuntimeError
  <2>1. /\ Received({"RuntimeError", "EventExecutionKilled"}) /\ UNCHANGED <<robot, queue>>
        /\ vm' = StateAfterError(vm, Head(up).pc)
        /\ killed' = (Head(up).type = "EventExecutionKilled")
    BY <1>6 DEF OnRuntimeError
  <2>2. Head(up).type \in {"RuntimeError", "EventExecutionKilled"}
    BY <2>1 DEF Received
  <2>3. Report(Head(up)) /\ (killed' \/ (Tells(Head(up), robot) => Known'))
    BY <2>1, <2>2 DEF Report, Tells, Known, StateAfterError
  <2>4. (Asked => Asked') /\ Asked' \in BOOLEAN
    BY <2>1 DEF Asked
  <2> QED BY <2>1, <2>3, <2>4, ReceiveKnow
<1>7. CASE OnBreakpointSetResult
  <2>1. Received({"BreakpointSetResult"}) /\ UNCHANGED <<robot, queue, vm, killed>>
    BY <1>7 DEF OnBreakpointSetResult
  <2>2. ~Report(Head(up))
    BY <2>1 DEF Received, Report
  <2>3. (Asked => Asked') /\ Asked' \in BOOLEAN
    BY <2>1 DEF Asked
  <2> QED BY <2>1, <2>2, <2>3, ReceiveKnow
<1>8. CASE Poll
  <2>1. Enqueues /\ UNCHANGED <<up, robot, vm, killed>>
    BY <1>8, PollFacts DEF nodeVars, histVars
  <2> QED BY <2>1, StillAsked, KnowKept
<1>9. CASE UNCHANGED vars
  <2>1. UNCHANGED <<up, robot, vm, killed, queue>>
    BY <1>9 DEF vars, nodeVars, histVars
  <2> QED BY <2>1, StillAsked, KnowKept
<1> QED BY <1>1, <1>2, <1>3, <1>4, <1>5, <1>6, <1>7, <1>8, <1>9 DEF Next, Receive, RobotEvent

\* When nothing is on its way any more, the node knows whether the robot runs and where it is
\* paused, unless an event was killed: the robot reports every change of its state and its
\* reports are applied in their order, whatever is asked of it in between.
THEOREM StateKnownAlways == Spec => []StateKnown
<1>1. KnowInv => StateKnown
  <2> SUFFICES ASSUME KnowInv, Quiet, ~killed PROVE Known
    BY DEF StateKnown, Known
  <2>1. Len(queue) = 0 /\ Len(up) = 0
    BY DEF Quiet
  <2>2. ~Asked
    BY <2>1 DEF Asked
  <2> QED BY <2>1, <2>2 DEF KnowInv
<1>2. Spec => []KnowInv
  BY TypesInvariance, KnowInit, KnowInductive, PTL DEF Spec
<1> QED BY <1>1, <1>2, PTL
-----------------------------------------------------------------------------
(* Answers *)

\* A callback that will answer its request, whatever happens to the others.
Owes(cb) == cb.kind \in {"answer", "load"}

OwedIn(q, r) == \E i \in 1..Len(q) : Owes(q[i].cb) /\ q[i].cb.id = r

LoadIn(s, r) == \E i \in 1..Len(s) : s[i].kind = "load" /\ s[i].id = r

\* No two callbacks answer the same request.
OwedOnce(q) ==
  \A i, j \in 1..Len(q) : Owes(q[i].cb) /\ Owes(q[j].cb) /\ q[i].cb.id = q[j].cb.id => i = j

LoadOnce(s) ==
  \A i, j \in 1..Len(s) : s[i].kind = "load" /\ s[j].kind = "load" /\ s[i].id = s[j].id => i = j

LEMMA QueuedOwes ==
  ASSUME NEW q \in Seq(Slots), NEW msgs \in Seq(Down), NEW cb \in CallbackSet,
         NEW s, s = Queued(q, msgs, cb), OwedOnce(q), Owes(cb) => ~OwedIn(q, cb.id)
  PROVE  OwedOnce(s) /\ \A r : OwedIn(s, r) => OwedIn(q, r) \/ (Owes(cb) /\ cb.id = r)
<1>1. ASSUME NEW i \in 1..Len(s), Owes(s[i].cb)
      PROVE  \/ i \in 1..Len(q) /\ s[i] = q[i]
             \/ i = Len(q) + 1 /\ s[i].cb = cb
  <2>1. CASE i > Len(q)
    <3>1. s[i].cb = IF i = Len(q) + 1 THEN cb ELSE NoCallback
      BY <2>1, QueuedLate
    <3>2. ~Owes(NoCallback)
      BY DEF Owes, NoCallback, Callback
    <3> QED BY <1>1, <3>1, <3>2
  <2>2. CASE ~ (i > Len(q))
    <3>1. i \in 1..Len(q)
      BY <2>2
    <3> QED BY <3>1, QueuedKeeps
  <2> QED BY <2>1, <2>2
<1>2. \A i \in 1..Len(q) : Owes(q[i].cb) => OwedIn(q, q[i].cb.id)
  BY DEF OwedIn
<1>3. OwedOnce(s)
  <2> SUFFICES ASSUME NEW i \in 1..Len(s), NEW j \in 1..Len(s), Owes(s[i].cb), Owes(s[j].cb),
                      s[i].cb.id = s[j].cb.id
               PROVE  i = j
    BY DEF OwedOnce
  <2>1. CASE i \in 1..Len(q) /\ s[i] = q[i] /\ j \in 1..Len(q) /\ s[j] = q[j]
    BY <2>1 DEF OwedOnce
  <2>2. CASE i \in 1..Len(q) /\ s[i] = q[i] /\ j = Len(q) + 1 /\ s[j].cb = cb
    BY <1>2, <2>2
  <2>3. CASE j \in 1..Len(q) /\ s[j] = q[j] /\ i = Len(q) + 1 /\ s[i].cb = cb
    BY <1>2, <2>3
  <2>4. CASE i = Len(q) + 1 /\ j = Len(q) + 1
    BY <2>4
  <2> QED BY <1>1, <2>1, <2>2, <2>3, <2>4
<1>4. ASSUME NEW r, OwedIn(s, r) PROVE OwedIn(q, r) \/ (Owes(cb) /\ cb.id = r)
  <2>1. PICK i \in 1..Len(s) : Owes(s[i].cb) /\ s[i].cb.id = r
    BY <1>4 DEF OwedIn
  <2> QED BY <1>1, <1>2, <2>1
<1> QED BY <1>3, <1>4

\* The callback of the first slot is taken out of the queue.
LEMMA WrittenOwes ==
  ASSUME Types, queue # <<>>, OwedOnce(queue), queue' = Tail(queue)
  PROVE  /\ OwedOnce(queue') /\ \A r : OwedIn(queue', r) => OwedIn(queue, r)
         /\ Owes(Head(queue).cb) =>
              OwedIn(queue, Head(queue).cb.id) /\ ~OwedIn(queue', Head(queue).cb.id)
<1>1. /\ Head(queue) = queue[1] /\ Len(queue') = Len(queue) - 1 /\ Len(queue) \in Nat
      /\ \A i \in 1..Len(queue') : queue'[i] = queue[i + 1]
  BY FirstSlot DEF Types
<1>2. 1 \in 1..Len(queue) /\ \A i \in 1..Len(queue') : i + 1 \in 1..Len(queue) /\ i + 1 # 1
  BY <1>1 DEF Types
<1>3. OwedOnce(queue')
  <2> SUFFICES ASSUME NEW i \in 1..Len(queue'), NEW j \in 1..Len(queue'), Owes(queue'[i].cb),
                      Owes(queue'[j].cb), queue'[i].cb.id = queue'[j].cb.id
               PROVE  i = j
    BY DEF OwedOnce
  <2>1. i + 1 \in 1..Len(queue) /\ j + 1 \in 1..Len(queue)
    BY <1>2
  <2>2. i + 1 = j + 1
    BY <1>1, <2>1 DEF OwedOnce
  <2> QED BY <2>2
<1>4. \A r : OwedIn(queue', r) => OwedIn(queue, r)
  BY <1>1, <1>2 DEF OwedIn
<1>5. ASSUME Owes(Head(queue).cb) PROVE ~OwedIn(queue', Head(queue).cb.id)
  BY <1>1, <1>2, <1>5 DEF OwedIn, OwedOnce
<1>6. Owes(Head(queue).cb) => OwedIn(queue, Head(queue).cb.id)
  BY <1>1, <1>2 DEF OwedIn
<1> QED BY <1>3, <1>4, <1>5, <1>6

\* The callback of a load is posted, and later run.
LEMMA PostedLoad ==
  ASSUME NEW s \in Seq(CallbackSet), NEW cb \in CallbackSet, LoadOnce(s),
         cb.kind = "load" => ~LoadIn(s, cb.id)
  PROVE  /\ LoadOnce(Append(s, cb))
         /\ \A r : LoadIn(Append(s, cb), r) => LoadIn(s, r) \/ (cb.kind = "load" /\ cb.id = r)
<1> DEFINE t == Append(s, cb)
<1>1. /\ Len(t) = Len(s) + 1 /\ Len(s) \in Nat /\ t[Len(s) + 1] = cb
      /\ \A i \in 1..Len(s) : t[i] = s[i]
  OBVIOUS
<1> HIDE DEF t
<1>2. \A i \in 1..Len(t) : i \in 1..Len(s) \/ i = Len(s) + 1
  BY <1>1
<1>3. LoadOnce(t)
  BY <1>1, <1>2 DEF LoadOnce, LoadIn
<1>4. \A r : LoadIn(t, r) => LoadIn(s, r) \/ (cb.kind = "load" /\ cb.id = r)
  BY <1>1, <1>2 DEF LoadIn
<1> QED BY <1>3, <1>4 DEF t

LEMMA RunLoad ==
  ASSUME NEW s \in Seq(CallbackSet), s # <<>>, LoadOnce(s)
  PROVE  /\ LoadOnce(Tail(s)) /\ \A r : LoadIn(Tail(s), r) => LoadIn(s, r)
         /\ Head(s).kind = "load" => LoadIn(s, Head(s).id) /\ ~LoadIn(Tail(s), Head(s).id)
<1> DEFINE t == Tail(s)
<1>1. /\ Len(t) = Len(s) - 1 /\ Len(s) \in Nat /\ Head(s) = s[1] /\ 1 \in 1..Len(s)
      /\ \A i \in 1..Len(t) : t[i] = s[i + 1]
  OBVIOUS
<1> HIDE DEF t
<1>2. \A i \in 1..Len(t) : i + 1 \in 1..Len(s) /\ i + 1 # 1
  BY <1>1
<1>3. LoadOnce(t)
  <2> SUFFICES ASSUME NEW i \in 1..Len(t), NEW j \in 1..Len(t), t[i].kind = "load",
                      t[j].kind = "load", t[i].id = t[j].id
               PROVE  i = j
    BY DEF LoadOnce
  <2>1. i + 1 = j + 1
    BY <1>1, <1>2 DEF LoadOnce
  <2> QED BY <2>1
<1>4. \A r : LoadIn(t, r) => LoadIn(s, r)
  BY <1>1, <1>2 DEF LoadIn
<1>5. ASSUME Head(s).kind = "load" PROVE ~LoadIn(t, Head(s).id)
  BY <1>1, <1>2, <1>5 DEF LoadIn, LoadOnce
<1>6. Head(s).kind = "load" => LoadIn(s, Head(s).id)
  BY <1>1 DEF LoadIn
<1> QED BY <1>3, <1>4, <1>5, <1>6 DEF t
\* A request waits in at most one place: in the queue, posted, for the next execution state,
\* for results of breakpoints, or for the end of a step.
Apart ==
  \A r \in Requests :
    /\ OwedIn(queue, r) => ~LoadIn(posted, r) /\ r \notin Range(loads)
    /\ LoadIn(posted, r) => r \notin Range(loads)
    /\ OwedIn(queue, r) \/ LoadIn(posted, r) \/ r \in Range(loads) =>
         r \notin Pending(bpreq) /\ r \notin Pending(stepreq)
    /\ ~ (r \in Pending(bpreq) /\ r \in Pending(stepreq))

Waiting(r) ==
  \/ OwedIn(queue, r) \/ LoadIn(posted, r) \/ r \in Range(loads)
  \/ r \in Pending(bpreq) \/ r \in Pending(stepreq)

\* A request that waits has been made and has no answer yet.
AnswerInv ==
  /\ OwedOnce(queue) /\ LoadOnce(posted) /\ Apart /\ AnsweredOnce
  /\ \A r \in Requests : Waiting(r) => r <= issued /\ answered[r] = 0

LEMMA AnswerInit == Init => AnswerInv
<1> SUFFICES ASSUME Init PROVE AnswerInv
  OBVIOUS
<1> DEFINE q == <<>>
           msgs == <<Msg("GetExecutionState")>>
<1>1. q \in Seq(Slots) /\ msgs \in Seq(Down) /\ NoCallback \in CallbackSet
  BY PlainBatch DEF Batch, PlainTypes, CallbackSet
<1>2. OwedOnce(q) /\ ~Owes(NoCallback) /\ \A r : ~OwedIn(q, r)
  BY DEF OwedOnce, OwedIn, Owes, NoCallback, Callback
<1>3. queue = Queued(q, msgs, NoCallback)
  BY DEF Init
<1> HIDE DEF q, msgs
<1>4. OwedOnce(queue) /\ \A r : ~OwedIn(queue, r)
  BY <1>1, <1>2, <1>3, QueuedOwes
<1>5. LoadOnce(posted) /\ \A r : ~LoadIn(posted, r)
  BY DEF Init, LoadOnce, LoadIn
<1>6. \A r : r \notin Range(loads) /\ r \notin Pending(bpreq) /\ r \notin Pending(stepreq)
  BY DEF Init, Range, Pending
<1>7. AnsweredOnce
  BY DEF Init, AnsweredOnce
<1> QED BY <1>4, <1>5, <1>6, <1>7 DEF AnswerInv, Apart, Waiting

\* A request is made: it waits in one place, if it is not answered at once, and those it
\* cancels are answered and wait no more.
LEMMA IssueAnswers ==
  ASSUME Types, AnswerInv, NEW n \in Nat, NEW done, Issue(n, done), UNCHANGED <<posted, loads>>,
         excused' \in {excused, excused \cup {This}}, n <= 1 \/ This \in excused',
         NEW place \in {"queue", "bpreq", "stepreq", "none"}, place # "none" => n = 0,
         OwedOnce(queue'), \A r : OwedIn(queue', r) => OwedIn(queue, r) \/ (place = "queue" /\ r = This),
         done \subseteq Pending(bpreq) \cup Pending(stepreq),
         \A r \in Pending(bpreq') : (r \in Pending(bpreq) /\ r \notin done) \/ (place = "bpreq" /\ r = This),
         \A r \in Pending(stepreq') :
           (r \in Pending(stepreq) /\ r \notin done) \/ (place = "stepreq" /\ r = This)
  PROVE  AnswerInv'
<1>1. /\ This \in Requests /\ issued' = This /\ This = issued + 1 /\ answered' \in [Requests -> Nat]
      /\ issued \in Nat /\ answered \in [Requests -> Nat]
      /\ \A r \in Requests : answered'[r] = IF r = This THEN n
                                            ELSE answered[r] + (IF r \in done THEN 1 ELSE 0)
  BY IssueFacts DEF Types
<1>2. \A r \in Requests : Waiting(r) => r <= issued /\ answered[r] = 0 /\ r # This
  BY <1>1 DEF AnswerInv, Requests
<1>3. \A r \in Requests : LoadIn(posted', r) = LoadIn(posted, r) /\ (r \in Range(loads') <=> r \in Range(loads))
  OBVIOUS
<1>4. \A r \in Requests : Waiting(r)' => (Waiting(r) /\ r \notin done) \/ (place # "none" /\ r = This)
  <2> SUFFICES ASSUME NEW r \in Requests, Waiting(r)', ~ (place # "none" /\ r = This)
               PROVE  Waiting(r) /\ r \notin done
    OBVIOUS
  <2>1. CASE OwedIn(queue', r) \/ LoadIn(posted', r) \/ r \in Range(loads')
    BY <1>3, <2>1 DEF AnswerInv, Apart, Waiting
  <2>2. CASE r \in Pending(bpreq') \/ r \in Pending(stepreq')
    BY <2>2 DEF Waiting
  <2> QED BY <2>1, <2>2 DEF Waiting
<1>5. Apart'
  <2> SUFFICES ASSUME NEW r \in Requests
      PROVE /\ OwedIn(queue', r) => ~LoadIn(posted', r) /\ r \notin Range(loads')
            /\ LoadIn(posted', r) => r \notin Range(loads')
            /\ OwedIn(queue', r) \/ LoadIn(posted', r) \/ r \in Range(loads') =>
                 r \notin Pending(bpreq') /\ r \notin Pending(stepreq')
            /\ ~ (r \in Pending(bpreq') /\ r \in Pending(stepreq'))
    BY DEF Apart
  <2>1. CASE r = This
    <3>1. ~Waiting(r)
      BY <1>2, <2>1
    <3> QED BY <1>3, <2>1, <3>1 DEF Waiting
  <2>2. CASE r # This
    BY <1>3, <2>2 DEF AnswerInv, Apart
  <2> QED BY <2>1, <2>2
<1>6. \A r \in Requests : Waiting(r)' => r <= issued' /\ answered'[r] = 0
  <2> SUFFICES ASSUME NEW r \in Requests, Waiting(r)' PROVE r <= issued' /\ answered'[r] = 0
    OBVIOUS
  <2>1. CASE Waiting(r) /\ r \notin done
    BY <1>1, <1>2, <2>1 DEF Requests
  <2>2. CASE place # "none" /\ r = This
    BY <1>1, <2>2
  <2> QED BY <1>4, <2>1, <2>2
<1>7. AnsweredOnce'
  <2> SUFFICES ASSUME NEW r \in Requests, r \notin excused' PROVE answered'[r] <= 1
    BY DEF AnsweredOnce
  <2>1. CASE r = This
    BY <1>1, <2>1
  <2>2. CASE r # This /\ r \in done
    BY <1>1, <1>2, <2>2 DEF Waiting
  <2>3. CASE r # This /\ r \notin done
    BY <1>1, <2>3 DEF AnswerInv, AnsweredOnce
  <2> QED BY <2>1, <2>2, <2>3
<1>8. LoadOnce(posted')
  BY DEF AnswerInv
<1>9. OwedOnce(queue)'
  OBVIOUS
<1> QED BY <1>5, <1>6, <1>7, <1>8, <1>9 DEF AnswerInv
LEMMA OwesFacts ==
  /\ ~Owes(NoCallback) /\ ~Owes(Callback("breakpoints", This))
  /\ Owes(Callback("load", This)) /\ Callback("load", This).id = This
  /\ Owes(Callback("answer", This)) /\ Callback("answer", This).id = This
BY DEF Owes, NoCallback, Callback

\* The request that is made is not in the queue yet.
LEMMA ThisIsNew ==
  ASSUME Types, AnswerInv, NEW n \in Nat, NEW done, Issue(n, done)
  PROVE  This \in Requests /\ ~OwedIn(queue, This)
<1>1. This \in Requests /\ This = issued + 1 /\ issued \in Nat
  BY IssueFacts DEF Types
<1>2. ~ (This <= issued)
  BY <1>1
<1> QED BY <1>1, <1>2 DEF AnswerInv, Waiting

\* A batch in the queue: only its own callback is new.
LEMMA BatchOwes ==
  ASSUME Types, AnswerInv, NEW msgs, Batch(msgs), NEW cb \in CallbackSet,
         queue' = Queued(queue, msgs, cb), Owes(cb) => ~OwedIn(queue, cb.id)
  PROVE  OwedOnce(queue') /\ \A r : OwedIn(queue', r) => OwedIn(queue, r) \/ (Owes(cb) /\ cb.id = r)
<1>1. queue \in Seq(Slots) /\ msgs \in Seq(Down) /\ OwedOnce(queue)
  BY DEF Types, Batch, AnswerInv
<1> QED BY <1>1, QueuedOwes

\* compile_and_send_program, compile_and_save and their refusals.
LEMMA ProgramAnswers ==
  ASSUME Types, AnswerInv, NEW p \in Programs \cup {NoProgram},
         CompileAndSend(p) \/ CompileAndSave(p) \/ CompileUnsupported \/ SaveUnsupported
  PROVE  AnswerInv'
<1>1. Cancelled = Pending(bpreq) \cup Pending(stepreq)
  BY DEF Cancelled
<1>2. Cancel => Pending(bpreq') = {} /\ Pending(stepreq') = {}
  BY DEF Cancel, Pending
<1>3. CASE CompileAndSend(p)
  <2>1. /\ Issue(0, Cancelled) /\ Cancel /\ UNCHANGED <<posted, loads, excused>>
        /\ queue' = Queued(queue, SendBytecode(p), Callback("load", This))
    BY <1>3 DEF CompileAndSend
  <2>2. This \in Requests /\ ~OwedIn(queue, This)
    BY <2>1, ThisIsNew
  <2>3. Callback("load", This) \in CallbackSet /\ Batch(SendBytecode(p))
    BY <2>2, CallbackFacts, BytecodeBatch DEF AllPrograms
  <2>4. OwedOnce(queue') /\ \A r : OwedIn(queue', r) => OwedIn(queue, r) \/ r = This
    BY <2>1, <2>2, <2>3, BatchOwes, OwesFacts
  <2> QED BY <1>1, <1>2, <2>1, <2>4, IssueAnswers
<1>4. CASE CompileAndSave(p) \/ CompileUnsupported
  <2>1. Issue(1, Cancelled) /\ Cancel /\ UNCHANGED <<posted, loads, excused, queue>>
    BY <1>4 DEF CompileAndSave, CompileUnsupported
  <2>2. OwedOnce(queue') /\ \A r : OwedIn(queue', r) => OwedIn(queue, r)
    BY <2>1 DEF AnswerInv
  <2> QED BY <1>1, <1>2, <2>1, <2>2, IssueAnswers
<1>5. CASE SaveUnsupported
  <2>1. /\ Issue(2, Cancelled) /\ Cancel /\ UNCHANGED <<posted, loads, queue>>
        /\ excused' = excused \cup {This}
    BY <1>5 DEF SaveUnsupported
  <2>2. OwedOnce(queue') /\ \A r : OwedIn(queue', r) => OwedIn(queue, r)
    BY <2>1 DEF AnswerInv
  <2> QED BY <1>1, <1>2, <2>1, <2>2, IssueAnswers
<1> QED BY <1>3, <1>4, <1>5

\* Requests answered when their message is written.
LEMMA CommandAnswers ==
  ASSUME Types, AnswerInv, NEW msgs, Batch(msgs), Issue(0, {}),
         queue' = Queued(queue, msgs, Callback("answer", This)),
         excused' \in {excused, excused \cup {This}}, UNCHANGED <<nodeVars, posted>>
  PROVE  AnswerInv'
<1>1. This \in Requests /\ ~OwedIn(queue, This)
  BY ThisIsNew
<1>2. Callback("answer", This) \in CallbackSet
  BY <1>1, CallbackFacts
<1>3. OwedOnce(queue') /\ \A r : OwedIn(queue', r) => OwedIn(queue, r) \/ r = This
  BY <1>1, <1>2, BatchOwes, OwesFacts
<1>4. UNCHANGED <<loads, bpreq, stepreq>>
  BY DEF nodeVars
<1> QED BY <1>3, <1>4, IssueAnswers

\* A batch without messages changes nothing, and its callback is dropped.
LEMMA EmptyBatch ==
  ASSUME NEW q \in Seq(Slots), NEW cb, NEW n, n = 0
  PROVE  Queued(q, [i \in 1..n |-> Msg("Other")], cb) = q
<1>1. [i \in 1..n |-> Msg("Other")] = <<>>
  OBVIOUS
<1>2. Queued(q, <<>>, cb) = q \o <<>>
  BY DEF Queued
<1> QED BY <1>1, <1>2

LEMMA EventAnswers ==
  ASSUME Types, AnswerInv,
         (\E n \in 0..1 : SetVariables(n) \/ EmitEvents(n)) \/ EmitRefused \/ SetVariablesRefused
  PROVE  AnswerInv'
<1>1. ASSUME NEW n \in 0..1, SetVariables(n) PROVE AnswerInv'
  <2>1. Batch([i \in 1..n |-> Msg("Other")])
    BY PlainBatch
  <2> QED BY <1>1, <2>1, CommandAnswers DEF SetVariables
<1>2. ASSUME NEW n \in 0..1, EmitEvents(n) PROVE AnswerInv'
  <2>1. CASE n = 0
    <3>1. Issue(1, {}) /\ UNCHANGED <<nodeVars, posted, excused>>
      BY <1>2, <2>1 DEF EmitEvents
    <3>2. queue' = queue
      BY <1>2, <2>1, EmptyBatch DEF EmitEvents, Types
    <3>3. UNCHANGED <<loads, bpreq, stepreq>> /\ OwedOnce(queue') /\ \A r : OwedIn(queue', r) => OwedIn(queue, r)
      BY <3>1, <3>2 DEF nodeVars, AnswerInv
    <3> QED BY <3>1, <3>3, IssueAnswers
  <2>2. CASE n = 1
    <3>1. Batch([i \in 1..n |-> Msg("Other")])
      BY PlainBatch
    <3>2. Issue(0, {})
      BY <1>2, <2>2 DEF EmitEvents
    <3> QED BY <1>2, <3>1, <3>2, CommandAnswers DEF EmitEvents
  <2> QED BY <2>1, <2>2
<1>3. CASE EmitRefused
  <2>1. Issue(2, {}) /\ UNCHANGED <<nodeVars, posted, queue>> /\ excused' = excused \cup {This}
    BY <1>3 DEF EmitRefused
  <2>2. UNCHANGED <<loads, bpreq, stepreq>> /\ OwedOnce(queue') /\ \A r : OwedIn(queue', r) => OwedIn(queue, r)
    BY <2>1 DEF nodeVars, AnswerInv
  <2> QED BY <2>1, <2>2, IssueAnswers
<1>4. CASE SetVariablesRefused
  <2>1. Issue(1, {}) /\ UNCHANGED <<nodeVars, posted, queue, excused>>
    BY <1>4 DEF SetVariablesRefused
  <2>2. UNCHANGED <<loads, bpreq, stepreq>> /\ OwedOnce(queue') /\ \A r : OwedIn(queue', r) => OwedIn(queue, r)
    BY <2>1 DEF nodeVars, AnswerInv
  <2> QED BY <2>1, <2>2, IssueAnswers
<1> QED BY <1>1, <1>2, <1>3, <1>4

\* Run and Stop share one callback, which goes with Run.
LEMMA StopAnswers ==
  ASSUME Types, AnswerInv, Stop PROVE AnswerInv'
<1>1. PICK q1, q2 \in Seq(Slots) :
        /\ q1 = Queued(queue, SendBytecode(StopCommand), NoCallback)
        /\ q2 = Queued(q1, <<Msg("Run")>>, Callback("answer", This))
        /\ queue' = Queued(q2, <<Msg("Stop")>>, NoCallback)
  BY StopRequest
<1>2. Issue(0, {}) /\ UNCHANGED <<posted, loads, bpreq, stepreq, excused>>
  BY DEF Stop
<1>3. This \in Requests /\ ~OwedIn(queue, This)
  BY <1>2, ThisIsNew
<1> DEFINE m1 == SendBytecode(StopCommand)
           m2 == <<Msg("Run")>>
           m3 == <<Msg("Stop")>>
           cb == Callback("answer", This)
<1>4. m1 \in Seq(Down) /\ m2 \in Seq(Down) /\ m3 \in Seq(Down)
  BY StopRequest, SendBytecodeDown, PlainBatch DEF Batch, PlainTypes
<1>5. cb \in CallbackSet /\ NoCallback \in CallbackSet /\ ~Owes(NoCallback) /\ Owes(cb) /\ cb.id = This
  BY <1>3, CallbackFacts, OwesFacts
<1>6. q1 = Queued(queue, m1, NoCallback) /\ q2 = Queued(q1, m2, cb) /\ queue' = Queued(q2, m3, NoCallback)
  BY <1>1
<1> HIDE DEF m1, m2, m3, cb
<1>7. OwedOnce(q1) /\ \A r : OwedIn(q1, r) => OwedIn(queue, r)
  <2>1. queue \in Seq(Slots) /\ OwedOnce(queue)
    BY DEF Types, AnswerInv
  <2> QED BY <2>1, <1>4, <1>5, <1>6, QueuedOwes
<1>8. OwedOnce(q2) /\ \A r : OwedIn(q2, r) => OwedIn(q1, r) \/ r = This
  BY <1>1, <1>3, <1>4, <1>5, <1>6, <1>7, QueuedOwes
<1>9. OwedOnce(queue') /\ \A r : OwedIn(queue', r) => OwedIn(q2, r)
  BY <1>1, <1>4, <1>5, <1>6, <1>8, QueuedOwes
<1>10. \A r : OwedIn(queue', r) => OwedIn(queue, r) \/ r = This
  BY <1>7, <1>8, <1>9
<1> QED BY <1>2, <1>9, <1>10, IssueAnswers

\* step_to_next_line: the step before it is answered, and it waits or is answered at once.
LEMMA StepAnswers ==
  ASSUME Types, AnswerInv, StepToNextLine PROVE AnswerInv'
<1> DEFINE s == [id |-> This, line |-> vm.line]
           h == HandleStep(s, vm)
           n == IF This \in h.done THEN 1 ELSE 0
<1>1. /\ Issue(n, Pending(stepreq)) /\ n \in Nat /\ stepreq' = h.request
      /\ queue' = Queued(queue, h.sent, NoCallback) /\ UNCHANGED <<bpreq, loads, posted, excused>>
  BY DEF StepToNextLine
<1>2. This \in Requests
  BY <1>1, ThisIsNew
<1>3. s \in StepRequests /\ s.id = This
  BY <1>2 DEF StepRequests, Types, Knowledge
<1> HIDE DEF s
<1>4. /\ Batch(h.sent) /\ s # None
      /\ \/ h.done = {This} /\ h.request = None
         \/ h.done = {} /\ h.request = s
  BY <1>3, HandleStepFacts, NoneFacts
<1> HIDE DEF h
<1>5. OwedOnce(queue') /\ \A r : OwedIn(queue', r) => OwedIn(queue, r)
  BY <1>1, <1>4, BatchOwes, OwesFacts DEF CallbackSet
<1>6. \A r \in Pending(bpreq) : r \in Requests
  BY NoneFacts DEF Types, Pending
<1>7. \A r \in Pending(bpreq') : r \in Pending(bpreq) /\ r \notin Pending(stepreq)
  BY <1>1, <1>6 DEF AnswerInv, Apart
<1>8. CASE h.done = {This} /\ h.request = None
  <2>1. n = 1 /\ Pending(stepreq') = {}
    BY <1>1, <1>8 DEF Pending
  <2> HIDE DEF n
  <2> QED BY <1>1, <1>5, <1>7, <2>1, IssueAnswers
<1>9. CASE h.done = {} /\ h.request = s
  <2>1. n = 0 /\ Pending(stepreq') = {This}
    BY <1>1, <1>3, <1>4, <1>9 DEF Pending
  <2> HIDE DEF n
  <2> QED BY <1>1, <1>5, <1>7, <2>1, IssueAnswers
<1> QED BY <1>4, <1>8, <1>9

\* set_breakpoints: the same for the request for breakpoints.
LEMMA BreakpointAnswers ==
  ASSUME Types, AnswerInv, NEW want \in SUBSET Lines, SetBreakpoints(want) PROVE AnswerInv'
<1>1. PICK msgs, n : Breakpoints(want, msgs, n)
  BY BreakpointStep
<1>2. /\ n \in Nat /\ n <= 1 /\ Issue(n, Pending(bpreq)) /\ Batch(msgs)
      /\ queue' = Queued(queue, msgs, Callback("breakpoints", This))
      /\ UNCHANGED <<stepreq, loads, posted, excused>>
  BY <1>1 DEF Breakpoints
<1>3. This \in Requests /\ Callback("breakpoints", This) \in CallbackSet
  BY <1>2, ThisIsNew, CallbackFacts
<1>4. OwedOnce(queue') /\ \A r : OwedIn(queue', r) => OwedIn(queue, r)
  BY <1>2, <1>3, BatchOwes, OwesFacts
<1>5. \A r \in Pending(stepreq) : r \in Requests
  BY NoneFacts DEF Types, Pending
<1>6. \A r \in Pending(stepreq') : r \in Pending(stepreq) /\ r \notin Pending(bpreq)
  BY <1>2, <1>5 DEF AnswerInv, Apart
<1>7. \/ Pending(bpreq') = {}
      \/ n = 0 /\ Pending(bpreq') = {This}
  BY <1>1 DEF Breakpoints, Pending
<1> QED BY <1>2, <1>4, <1>6, <1>7, IssueAnswers
\* handle_write: an answer is given, or a load is posted.
LEMMA WriteAnswers ==
  ASSUME Types, AnswerInv, HandleWrite PROVE AnswerInv'
<1> DEFINE cb == Head(queue).cb
<1>1. /\ queue # <<>> /\ queue' = Tail(queue)
      /\ answered' = IF cb.kind = "answer" THEN [answered EXCEPT ![cb.id] = @ + 1] ELSE answered
      /\ posted' = IF cb.kind \in {"load", "breakpoints"} THEN Append(posted, cb) ELSE posted
      /\ UNCHANGED <<loads, bpreq, stepreq, issued, excused>>
  BY DEF HandleWrite, nodeVars
<1>2. cb \in CallbackSet /\ posted \in Seq(CallbackSet) /\ answered \in [Requests -> Nat]
  BY <1>1, FirstSlot DEF Types
<1>3. /\ OwedOnce(queue') /\ \A r : OwedIn(queue', r) => OwedIn(queue, r)
      /\ Owes(cb) => OwedIn(queue, cb.id) /\ ~OwedIn(queue', cb.id)
  BY <1>1, WrittenOwes DEF AnswerInv
<1> HIDE DEF cb
<1>4. Owes(cb) => cb.id \in Requests /\ cb.kind \in {"answer", "load"}
  BY <1>2 DEF CallbackSet, Owes, NoCallback, Callback
<1>5. cb.kind \in {"answer", "load"} => Owes(cb)
  BY DEF Owes
<1>6. Owes(cb) => answered[cb.id] = 0 /\ ~LoadIn(posted, cb.id) /\ cb.id \notin Range(loads)
                  /\ cb.id \notin Pending(bpreq) /\ cb.id \notin Pending(stepreq)
  BY <1>3, <1>4 DEF AnswerInv, Apart, Waiting
<1>7. LoadOnce(posted') /\ \A r : LoadIn(posted', r) => LoadIn(posted, r) \/ (cb.kind = "load" /\ cb.id = r)
  <2>1. LoadOnce(posted) /\ (cb.kind = "load" => ~LoadIn(posted, cb.id))
    BY <1>5, <1>6 DEF AnswerInv
  <2>2. CASE cb.kind \in {"load", "breakpoints"}
    BY <1>1, <1>2, <2>1, <2>2, PostedLoad
  <2>3. CASE cb.kind \notin {"load", "breakpoints"}
    BY <1>1, <2>1, <2>3
  <2> QED BY <2>2, <2>3
<1>8. Apart'
  <2>1. ASSUME NEW r \in Requests
        PROVE /\ OwedIn(queue', r) => ~LoadIn(posted', r) /\ r \notin Range(loads')
              /\ LoadIn(posted', r) => r \notin Range(loads')
              /\ OwedIn(queue', r) \/ LoadIn(posted', r) \/ r \in Range(loads') =>
                   r \notin Pending(bpreq') /\ r \notin Pending(stepreq')
              /\ ~ (r \in Pending(bpreq') /\ r \in Pending(stepreq'))
    BY <1>1, <1>3, <1>5, <1>6, <1>7 DEF AnswerInv, Apart
  <2> QED BY <2>1 DEF Apart
<1>9. ASSUME NEW r \in Requests, Waiting(r)' PROVE Waiting(r) /\ ~ (cb.kind = "answer" /\ cb.id = r)
  BY <1>1, <1>3, <1>5, <1>6, <1>7, <1>9 DEF Waiting, Owes
<1>10. \A r \in Requests : answered'[r] = answered[r] \/ (Owes(cb) /\ r = cb.id /\ answered'[r] = 1)
  BY <1>1, <1>2, <1>4, <1>5, <1>6
<1>11. ASSUME NEW r \in Requests, Waiting(r)' PROVE r <= issued' /\ answered'[r] = 0
  <2>1. r <= issued /\ answered[r] = 0
    BY <1>9, <1>11 DEF AnswerInv
  <2> QED BY <1>1, <1>2, <1>9, <1>11, <2>1
<1>12. AnsweredOnce'
  BY <1>1, <1>10 DEF AnsweredOnce, AnswerInv
<1>13. OwedOnce(queue)' /\ LoadOnce(posted)'
  BY <1>3, <1>7
<1> QED BY <1>8, <1>11, <1>12, <1>13 DEF AnswerInv

\* A posted callback: that of a load waits for the next execution state, that of breakpoints
\* answers only a request that still waits.
LEMMA PostedAnswers ==
  ASSUME Types, AnswerInv, RunPosted PROVE AnswerInv'
<1> DEFINE cb == Head(posted)
           settles == cb.kind = "breakpoints" /\ bpreq # None /\ bpreq.id = cb.id /\ bpreq.pending = {}
<1>1. /\ posted # <<>> /\ posted' = Tail(posted)
      /\ loads' = IF cb.kind = "load" THEN Append(loads, cb.id) ELSE loads
      /\ bpreq' = IF settles THEN None ELSE bpreq
      /\ answered' = IF settles THEN [answered EXCEPT ![cb.id] = @ + 1] ELSE answered
      /\ UNCHANGED <<stepreq, queue, issued, excused>>
  BY DEF RunPosted
<1>2. /\ posted \in Seq(CallbackSet) /\ posted \in Seq(CallbackSet \ {NoCallback})
      /\ answered \in [Requests -> Nat] /\ loads \in Seq(Requests)
  BY DEF Types
<1>3. cb \in CallbackSet \ {NoCallback}
  BY <1>1, <1>2
<1>4. /\ LoadOnce(posted') /\ \A r : LoadIn(posted', r) => LoadIn(posted, r)
      /\ cb.kind = "load" => LoadIn(posted, cb.id) /\ ~LoadIn(posted', cb.id)
  BY <1>1, <1>2, RunLoad DEF AnswerInv
<1> HIDE DEF cb
<1>5. cb.id \in Requests
  BY <1>3 DEF CallbackSet
<1>6. \A r : r \in Range(loads') => r \in Range(loads) \/ (cb.kind = "load" /\ r = cb.id)
  BY <1>1, <1>2 DEF Range
<1>7. settles => cb.id \in Pending(bpreq) /\ Pending(bpreq') = {} /\ answered[cb.id] = 0
  <2>1. settles => cb.id \in Pending(bpreq) /\ Pending(bpreq') = {}
    BY <1>1 DEF Pending
  <2> QED BY <1>5, <2>1 DEF AnswerInv, Waiting
<1>8. Pending(bpreq') \subseteq Pending(bpreq) /\ (settles => cb.id \notin Pending(bpreq'))
  BY <1>1, <1>7
<1>9. cb.kind = "load" => ~settles
  OBVIOUS
<1> HIDE DEF settles
<1>10. Apart'
  <2>1. ASSUME NEW r \in Requests
        PROVE /\ OwedIn(queue', r) => ~LoadIn(posted', r) /\ r \notin Range(loads')
              /\ LoadIn(posted', r) => r \notin Range(loads')
              /\ OwedIn(queue', r) \/ LoadIn(posted', r) \/ r \in Range(loads') =>
                   r \notin Pending(bpreq') /\ r \notin Pending(stepreq')
              /\ ~ (r \in Pending(bpreq') /\ r \in Pending(stepreq'))
    BY <1>1, <1>4, <1>6, <1>8 DEF AnswerInv, Apart
  <2> QED BY <2>1 DEF Apart
<1>11. ASSUME NEW r \in Requests, Waiting(r)' PROVE Waiting(r) /\ ~ (settles /\ cb.id = r)
  <2>1. Waiting(r)
    BY <1>1, <1>4, <1>6, <1>8, <1>11 DEF Waiting
  <2>2. ASSUME settles, cb.id = r PROVE FALSE
    <3>1. ~OwedIn(queue, r) /\ ~LoadIn(posted, r) /\ r \notin Range(loads) /\ r \notin Pending(stepreq)
      BY <1>7, <2>2 DEF AnswerInv, Apart
    <3> QED BY <1>1, <1>4, <1>6, <1>8, <1>9, <1>11, <2>2, <3>1 DEF Waiting
  <2> QED BY <2>1, <2>2
<1>12. \A r \in Requests : answered'[r] = answered[r] \/ (settles /\ r = cb.id /\ answered'[r] = 1)
  BY <1>1, <1>2, <1>5, <1>7
<1>13. ASSUME NEW r \in Requests, Waiting(r)' PROVE r <= issued' /\ answered'[r] = 0
  <2>1. r <= issued /\ answered[r] = 0
    BY <1>11, <1>13 DEF AnswerInv
  <2> QED BY <1>1, <1>11, <1>12, <1>13, <2>1
<1>14. AnsweredOnce'
  BY <1>1, <1>12 DEF AnsweredOnce, AnswerInv
<1>15. OwedOnce(queue)' /\ LoadOnce(posted)'
  BY <1>1, <1>4 DEF AnswerInv
<1> QED BY <1>10, <1>13, <1>14, <1>15 DEF AnswerInv

\* A message of the robot answers requests that wait, which then wait no more.
LEMMA ReceiveAnswers ==
  ASSUME Types, AnswerInv, NEW done,
         \A r \in done \cap Requests : Waiting(r) /\ ~Waiting(r)',
         answered' \in [Requests -> Nat],
         \A r \in Requests : answered'[r] = answered[r] + (IF r \in done THEN 1 ELSE 0),
         UNCHANGED <<posted, issued, excused>>,
         OwedOnce(queue'), \A r : OwedIn(queue', r) => OwedIn(queue, r),
         Range(loads') \subseteq Range(loads), Pending(bpreq') \subseteq Pending(bpreq),
         Pending(stepreq') \subseteq Pending(stepreq)
  PROVE  AnswerInv'
<1>1. answered \in [Requests -> Nat]
  BY DEF Types
<1>2. Apart'
  <2>1. ASSUME NEW r \in Requests
        PROVE /\ OwedIn(queue', r) => ~LoadIn(posted', r) /\ r \notin Range(loads')
              /\ LoadIn(posted', r) => r \notin Range(loads')
              /\ OwedIn(queue', r) \/ LoadIn(posted', r) \/ r \in Range(loads') =>
                   r \notin Pending(bpreq') /\ r \notin Pending(stepreq')
              /\ ~ (r \in Pending(bpreq') /\ r \in Pending(stepreq'))
    BY DEF AnswerInv, Apart
  <2> QED BY <2>1 DEF Apart
<1>3. ASSUME NEW r \in Requests, Waiting(r)' PROVE r <= issued' /\ answered'[r] = 0
  <2>1. Waiting(r) /\ r \notin done
    BY <1>3 DEF Waiting
  <2>2. r <= issued /\ answered[r] = 0
    BY <2>1 DEF AnswerInv
  <2> QED BY <2>1, <2>2
<1>4. AnsweredOnce'
  <2>1. ASSUME NEW r \in Requests, r \notin excused PROVE answered'[r] <= 1
    <3>1. CASE r \in done
      BY <3>1 DEF AnswerInv
    <3>2. CASE r \notin done
      BY <1>1, <2>1, <3>2 DEF AnswerInv, AnsweredOnce
    <3> QED BY <3>1, <3>2
  <2> QED BY <2>1 DEF AnsweredOnce
<1>5. OwedOnce(queue)' /\ LoadOnce(posted)'
  BY DEF AnswerInv
<1> QED BY <1>2, <1>3, <1>4, <1>5 DEF AnswerInv
\* on_execution_state_message answers the loads, and the step if it is over.
LEMMA StateAnswers ==
  ASSUME Types, AnswerInv, OnExecutionState PROVE AnswerInv'
<1> DEFINE h == HandleStep(stepreq, vm')
<1>1. /\ loads' = <<>> /\ stepreq' = h.request /\ queue' = Queued(queue, h.sent, NoCallback)
      /\ answered' = [r \in Requests |->
                        answered[r] + (IF r \in Range(loads) \cup h.done THEN 1 ELSE 0)]
      /\ UNCHANGED <<bpreq, posted, issued, excused>>
  BY DEF OnExecutionState
<1>2. stepreq \in {None} \cup StepRequests
  BY DEF Types
<1>3. /\ Batch(h.sent)
      /\ \/ h.done = {} /\ h.request = stepreq
         \/ stepreq # None /\ h.done = {stepreq.id} /\ h.request = None
  BY <1>2, HandleStepFacts
<1> HIDE DEF h
<1>4. /\ h.done \subseteq Pending(stepreq) /\ Pending(stepreq') \subseteq Pending(stepreq)
      /\ \A r \in h.done : r \notin Pending(stepreq')
  BY <1>1, <1>3 DEF Pending
<1>5. OwedOnce(queue') /\ \A r : OwedIn(queue', r) => OwedIn(queue, r)
  BY <1>1, <1>3, BatchOwes, OwesFacts DEF CallbackSet
<1>6. Range(loads') = {}
  BY <1>1 DEF Range
<1> DEFINE done == Range(loads) \cup h.done
<1>7. ASSUME NEW r \in done \cap Requests PROVE Waiting(r) /\ ~Waiting(r)'
  <2>1. Waiting(r)
    BY <1>4 DEF Waiting
  <2>2. ~OwedIn(queue, r) /\ ~LoadIn(posted, r) /\ r \notin Pending(bpreq)
    BY <1>4 DEF AnswerInv, Apart
  <2>3. r \notin Pending(stepreq')
    BY <1>4 DEF AnswerInv, Apart
  <2> QED BY <1>1, <1>5, <1>6, <2>1, <2>2, <2>3 DEF Waiting
<1>8. answered' \in [Requests -> Nat]
  BY StateTypes DEF Types
<1>9. \A r \in Requests : answered'[r] = answered[r] + (IF r \in done THEN 1 ELSE 0)
  BY <1>1
<1> HIDE DEF done
<1> QED BY <1>1, <1>4, <1>5, <1>6, <1>7, <1>8, <1>9, ReceiveAnswers

\* on_vm_runtime_error answers the step.
LEMMA ErrorAnswers ==
  ASSUME Types, AnswerInv, OnRuntimeError PROVE AnswerInv'
<1>1. /\ answered' = [r \in Requests |-> answered[r] + (IF r \in Pending(stepreq) THEN 1 ELSE 0)]
      /\ stepreq' = None /\ UNCHANGED <<bpreq, loads, queue, posted, issued, excused>>
  BY DEF OnRuntimeError
<1>2. Pending(stepreq') = {}
  BY <1>1 DEF Pending
<1>3. OwedOnce(queue') /\ \A r : OwedIn(queue', r) => OwedIn(queue, r)
  BY <1>1 DEF AnswerInv
<1>4. ASSUME NEW r \in Pending(stepreq) \cap Requests PROVE Waiting(r) /\ ~Waiting(r)'
  BY <1>1, <1>2 DEF AnswerInv, Apart, Waiting
<1>5. answered' \in [Requests -> Nat]
  BY ErrorTypes DEF Types
<1> QED BY <1>1, <1>2, <1>3, <1>4, <1>5, ReceiveAnswers

\* on_breakpoint_set_result answers the request with the last result.
LEMMA ResultAnswers ==
  ASSUME Types, AnswerInv, OnBreakpointSetResult PROVE AnswerInv'
<1>1. UNCHANGED <<stepreq, loads, queue, posted, issued, excused>>
  BY ResultFacts
<1>2. OwedOnce(queue') /\ \A r : OwedIn(queue', r) => OwedIn(queue, r)
  BY <1>1 DEF AnswerInv
<1>3. answered' \in [Requests -> Nat] /\ answered \in [Requests -> Nat]
  BY ResultTypes DEF Types
<1>4. CASE answered' = answered /\ Pending(bpreq') \subseteq Pending(bpreq)
  <2> DEFINE done == {}
  <2>1. \A r \in Requests : answered'[r] = answered[r] + (IF r \in done THEN 1 ELSE 0)
    BY <1>3, <1>4
  <2>2. \A r \in done \cap Requests : Waiting(r) /\ ~Waiting(r)'
    OBVIOUS
  <2> HIDE DEF done
  <2> QED BY <1>1, <1>2, <1>3, <1>4, <2>1, <2>2, ReceiveAnswers
<1>5. CASE bpreq \in BpRequests /\ bpreq' = None /\ answered' = [answered EXCEPT ![bpreq.id] = @ + 1]
  <2>1. Pending(bpreq) = {bpreq.id} /\ Pending(bpreq') = {} /\ bpreq.id \in Requests
    BY <1>5, NoneFacts DEF Pending
  <2>2. \A r \in Requests : answered'[r] = answered[r] + (IF r \in Pending(bpreq) THEN 1 ELSE 0)
    BY <1>3, <1>5, <2>1
  <2>3. ASSUME NEW r \in Pending(bpreq) \cap Requests PROVE Waiting(r) /\ ~Waiting(r)'
    BY <1>1, <2>1 DEF AnswerInv, Apart, Waiting
  <2> QED BY <1>1, <1>2, <1>3, <2>1, <2>2, <2>3, ReceiveAnswers
<1>6. \/ answered' = answered /\ Pending(bpreq') \subseteq Pending(bpreq)
      \/ bpreq \in BpRequests /\ bpreq' = None /\ answered' = [answered EXCEPT ![bpreq.id] = @ + 1]
  <2>1. CASE bpreq' = bpreq /\ answered' = answered
    BY <2>1
  <2>2. CASE bpreq \in BpRequests /\ bpreq' \in BpRequests /\ bpreq'.id = bpreq.id /\ answered' = answered
    BY <2>2, NoneFacts DEF Pending
  <2> QED BY <2>1, <2>2, ResultFacts
<1> QED BY <1>4, <1>5, <1>6

LEMMA AnswerKept ==
  ASSUME AnswerInv, UNCHANGED <<posted, loads, bpreq, stepreq, issued, answered, excused>>,
         OwedOnce(queue'), \A r : OwedIn(queue', r) => OwedIn(queue, r)
  PROVE  AnswerInv'
<1>1. Apart'
  <2>1. ASSUME NEW r \in Requests
        PROVE /\ OwedIn(queue', r) => ~LoadIn(posted', r) /\ r \notin Range(loads')
              /\ LoadIn(posted', r) => r \notin Range(loads')
              /\ OwedIn(queue', r) \/ LoadIn(posted', r) \/ r \in Range(loads') =>
                   r \notin Pending(bpreq') /\ r \notin Pending(stepreq')
              /\ ~ (r \in Pending(bpreq') /\ r \in Pending(stepreq'))
    BY DEF AnswerInv, Apart
  <2> QED BY <2>1 DEF Apart
<1>2. ASSUME NEW r \in Requests, Waiting(r)' PROVE r <= issued' /\ answered'[r] = 0
  <2>1. Waiting(r)
    BY <1>2 DEF Waiting
  <2> QED BY <2>1 DEF AnswerInv
<1>3. OwedOnce(queue)' /\ LoadOnce(posted)' /\ AnsweredOnce'
  BY DEF AnswerInv, AnsweredOnce
<1> QED BY <1>1, <1>2, <1>3 DEF AnswerInv

LEMMA AnswerInductive == Types /\ AnswerInv /\ [Next]_vars => AnswerInv'
<1> SUFFICES ASSUME Types, AnswerInv, [Next]_vars PROVE AnswerInv'
  OBVIOUS
<1>1. CASE Request
  <2>1. ASSUME NEW p \in Programs \cup {NoProgram}, CompileAndSend(p) \/ CompileAndSave(p)
        PROVE  AnswerInv'
    BY <2>1, ProgramAnswers
  <2>2. CASE CompileUnsupported \/ SaveUnsupported
    <3>1. NoProgram \in Programs \cup {NoProgram}
      OBVIOUS
    <3> QED BY <2>2, <3>1, ProgramAnswers
  <2>3. ASSUME NEW type \in {"Run", "Reset", "Pause", "Step", "Other"}, Command(type)
        PROVE  AnswerInv'
    <3>1. Batch(<<Msg(type)>>)
      BY PlainBatch DEF PlainTypes
    <3> QED BY <2>3, <3>1, CommandAnswers DEF Command
  <2>4. ASSUME NEW want \in SUBSET Lines, SetBreakpoints(want) PROVE AnswerInv'
    BY <2>4, BreakpointAnswers
  <2> QED BY <1>1, <2>1, <2>2, <2>3, <2>4, StopAnswers, StepAnswers, EventAnswers DEF Request
<1>2. CASE RobotEvent \/ UNCHANGED vars
  <2>1. UNCHANGED <<queue, posted, loads, bpreq, stepreq, issued, answered, excused>>
    BY <1>2, EventFollows DEF nodeVars, histVars, vars
  <2>2. OwedOnce(queue') /\ \A r : OwedIn(queue', r) => OwedIn(queue, r)
    BY <2>1 DEF AnswerInv
  <2> QED BY <2>1, <2>2, AnswerKept
<1>3. CASE Poll
  <2>1. UNCHANGED <<posted, loads, bpreq, stepreq, issued, answered, excused>>
    BY <1>3 DEF Poll, nodeVars, histVars
  <2>2. Batch(<<Msg("GetExecutionState")>>) /\ NoCallback \in CallbackSet
    BY PlainBatch DEF PlainTypes, CallbackSet
  <2>3. queue' = Queued(queue, <<Msg("GetExecutionState")>>, NoCallback)
    BY <1>3 DEF Poll
  <2>4. OwedOnce(queue') /\ \A r : OwedIn(queue', r) => OwedIn(queue, r)
    BY <2>2, <2>3, BatchOwes, OwesFacts
  <2> QED BY <2>1, <2>4, AnswerKept
<1> QED BY <1>1, <1>2, <1>3, WriteAnswers, PostedAnswers, StateAnswers, ErrorAnswers, ResultAnswers
      DEF Next, Receive, RobotEvent

\* No request is answered twice, whatever overtakes it: a result of the robot, the callback of
\* its write, a request that cancels it, a report of the robot's state or an error.  Only the
\* two refusals that the code answers twice, and setting no variables, are excepted.
THEOREM AnsweredOnceAlways == Spec => []AnsweredOnce
<1>1. Spec => []AnswerInv
  BY TypesInvariance, AnswerInit, AnswerInductive, PTL DEF Spec
<1>2. AnswerInv => AnsweredOnce
  BY DEF AnswerInv
<1> QED BY <1>1, <1>2, PTL

-----------------------------------------------------------------------------
(* Breakpoints that are believed to be set *)

\* The message puts a breakpoint at pc, or takes it away.
Touches(m, pc) ==
  \/ m.type = "BreakpointClearAll"
  \/ m.type \in {"BreakpointSet", "BreakpointClear"} /\ m.pc = pc

Untouched(q, pc) == \A i \in 1..Len(q) : ~Touches(q[i].msg, pc)

\* The last message of the queue that touches pc sets it.
Comes(q, pc) ==
  \E i \in 1..Len(q) :
    /\ q[i].msg.type = "BreakpointSet" /\ q[i].msg.pc = pc
    /\ \A j \in 1..Len(q) : j > i => ~Touches(q[j].msg, pc)

Refusal(m, pc) == m.type = "BreakpointSetResult" /\ m.pc = pc /\ ~m.ok

Refuses(u, pc) == \E i \in 1..Len(u) : Refusal(u[i], pc)

\* The robot has a breakpoint at pc or will get it; or its refusal is on its way, or counted.
Holds(pc) ==
  \/ pc \in missed
  \/ Comes(queue, pc)
  \/ Untouched(queue, pc) /\ (pc \in Range(robot.bps) \/ Refuses(up, pc))

\* Lines that set_breakpoints takes for set, or is having set.
Believed == IF bpreq = None THEN breakpoints ELSE bpreq.set \cup {e.line : e \in bpreq.pending}

\* The lines of the pending request are at the addresses it waits for, and are not set yet;
\* and the robot will have what the node believes.
BelieveInv ==
  bytecode \in Programs =>
    /\ bpreq # None =>
         \A e \in bpreq.pending : e.pc = PcOf[bytecode][e.line] /\ e.line \notin bpreq.set
    /\ \A l \in Believed, pc \in Pcs : PcOf[bytecode][l] = pc => Holds(pc)

LEMMA TouchQueued ==
  ASSUME NEW q \in Seq(Slots), NEW msgs \in Seq(Down), NEW cb \in CallbackSet,
         NEW r, r = Queued(q, msgs, cb), NEW pc,
         \A i \in 1..Len(msgs) : ~Touches(msgs[i], pc)
  PROVE  (Comes(q, pc) => Comes(r, pc)) /\ (Untouched(q, pc) => Untouched(r, pc))
<1>1. /\ Len(q) \in Nat /\ Len(r) \in Nat
      /\ \A i \in 1..Len(q) : i \in 1..Len(r) /\ r[i] = q[i]
  BY QueuedMessages
<1>2. ASSUME NEW i \in 1..Len(r), i > Len(q) PROVE ~Touches(r[i].msg, pc)
  <2>1. Len(msgs) - (i - Len(q)) + 1 \in 1..Len(msgs) /\ r[i].msg = msgs[Len(msgs) - (i - Len(q)) + 1]
    BY <1>2, QueuedLate
  <2> QED BY <2>1
<1>3. ASSUME Comes(q, pc) PROVE Comes(r, pc)
  <2>1. PICK i \in 1..Len(q) :
          /\ q[i].msg.type = "BreakpointSet" /\ q[i].msg.pc = pc
          /\ \A j \in 1..Len(q) : j > i => ~Touches(q[j].msg, pc)
    BY <1>3 DEF Comes
  <2>2. i \in 1..Len(r) /\ r[i].msg.type = "BreakpointSet" /\ r[i].msg.pc = pc
    BY <1>1, <2>1
  <2>3. ASSUME NEW j \in 1..Len(r), j > i PROVE ~Touches(r[j].msg, pc)
    <3>1. CASE j > Len(q)
      BY <1>2, <3>1
    <3>2. CASE ~ (j > Len(q))
      <4>1. j \in 1..Len(q)
        BY <1>1, <3>2
      <4> QED BY <1>1, <2>1, <2>3, <4>1
    <3> QED BY <3>1, <3>2
  <2> QED BY <2>2, <2>3 DEF Comes
<1>4. ASSUME Untouched(q, pc) PROVE Untouched(r, pc)
  <2>1. ASSUME NEW j \in 1..Len(r) PROVE ~Touches(r[j].msg, pc)
    <3>1. CASE j > Len(q)
      BY <1>2, <3>1
    <3>2. CASE ~ (j > Len(q))
      <4>1. j \in 1..Len(q)
        BY <1>1, <3>2
      <4> QED BY <1>1, <1>4, <4>1 DEF Untouched
    <3> QED BY <3>1, <3>2
  <2> QED BY <2>1 DEF Untouched
<1> QED BY <1>3, <1>4

\* A batch with one message for pc, which sets it.
LEMMA SetQueued ==
  ASSUME NEW q \in Seq(Slots), NEW msgs \in Seq(Down), NEW cb \in CallbackSet,
         NEW r, r = Queued(q, msgs, cb), NEW pc, NEW k \in 1..Len(msgs),
         msgs[k].type = "BreakpointSet", msgs[k].pc = pc,
         \A i \in 1..Len(msgs) : i # k => ~Touches(msgs[i], pc)
  PROVE  Comes(r, pc)
<1> DEFINE n == Len(q) + Len(msgs) - k + 1
<1>1. Len(q) \in Nat /\ Len(msgs) \in Nat /\ Len(r) = Len(q) + Len(msgs)
  BY QueuedMessages
<1>2. n \in 1..Len(r) /\ n > Len(q) /\ Len(msgs) - (n - Len(q)) + 1 = k
  BY <1>1
<1> HIDE DEF n
<1>3. r[n].msg = msgs[k]
  <2>1. r[n].msg = msgs[Len(msgs) - (n - Len(q)) + 1]
    BY <1>2, QueuedLate
  <2> QED BY <1>2, <2>1
<1>4. ASSUME NEW j \in 1..Len(r), j > n PROVE ~Touches(r[j].msg, pc)
  <2> DEFINE i == Len(msgs) - (j - Len(q)) + 1
  <2>1. j > Len(q) /\ i # k
    BY <1>1, <1>2, <1>4 DEF n
  <2>2. i \in 1..Len(msgs) /\ r[j].msg = msgs[i]
    BY <2>1, QueuedLate
  <2> HIDE DEF i
  <2> QED BY <2>1, <2>2
<1> QED BY <1>2, <1>3, <1>4 DEF Comes

\* AsebaVMClearBreakpoint: the other addresses stay.
LEMMA RemoveFirstKeeps ==
  ASSUME NEW S, NEW s \in Seq(S), NEW e, NEW x \in Range(s), x # e
  PROVE  x \in Range(RemoveFirst(s, e))
<1>1. CASE ~ \E i \in 1..Len(s) : s[i] = e
  BY <1>1 DEF RemoveFirst
<1>2. CASE \E i \in 1..Len(s) : s[i] = e
  <2> DEFINE I == {i \in 1..Len(s) : s[i] = e}
             k == Min(I)
  <2>1. I # {} /\ I \in SUBSET Nat
    BY <1>2
  <2>2. k \in 1..Len(s) /\ s[k] = e
    BY <2>1, LeastNumber
  <2>3. RemoveFirst(s, e) = RemoveAt(s, k)
    BY <1>2, <2>1 DEF RemoveFirst, SelectInSeq
  <2> HIDE DEF k
  <2> DEFINE before == SubSeq(s, 1, k - 1)
             behind == SubSeq(s, k + 1, Len(s))
  <2>4. /\ before \in Seq(S) /\ Len(before) = k - 1 /\ \A i \in 1..(k - 1) : before[i] = s[i]
        /\ behind \in Seq(S) /\ Len(behind) = Len(s) - k
        /\ \A i \in 1..(Len(s) - k) : behind[i] = s[k + i]
    BY <2>2
  <2>5. RemoveFirst(s, e) = before \o behind
    BY <2>3 DEF RemoveAt
  <2> HIDE DEF before, behind
  <2> DEFINE t == before \o behind
  <2>6. /\ t \in Seq(S) /\ Len(t) = Len(s) - 1
        /\ \A i \in 1..(k - 1) : t[i] = before[i]
        /\ \A i \in 1..(Len(s) - k) : t[k - 1 + i] = behind[i]
    <3>1. t \in Seq(S) /\ Len(t) = Len(before) + Len(behind)
      BY <2>4
    <3>2. \A i \in 1..Len(before) : t[i] = before[i]
      BY <2>4
    <3>3. \A i \in 1..Len(behind) : t[Len(before) + i] = behind[i]
      BY <2>4
    <3> QED BY <2>2, <2>4, <3>1, <3>2, <3>3
  <2> HIDE DEF t
  <2>7. PICK i \in 1..Len(s) : s[i] = x
    BY DEF Range
  <2>8. \E j \in 1..Len(t) : t[j] = x
    <3>1. CASE i < k
      <4>1. i \in 1..(k - 1) /\ i \in 1..Len(t)
        BY <2>2, <2>6, <3>1
      <4> QED BY <2>4, <2>6, <2>7, <4>1
    <3>2. CASE i > k
      <4>1. i - k \in 1..(Len(s) - k) /\ k + (i - k) = i /\ k - 1 + (i - k) \in 1..Len(t)
        BY <2>2, <2>6, <3>2
      <4> QED BY <2>4, <2>6, <2>7, <4>1
    <3>3. i # k
      BY <2>2, <2>7
    <3> QED BY <2>2, <3>1, <3>2, <3>3
  <2>9. RemoveFirst(s, e) = t
    BY <2>5 DEF t
  <2> QED BY <2>6, <2>8, <2>9 DEF Range
<1> QED BY <1>1, <1>2

\* The robot's breakpoints, for every message.
LEMMA RobotTable ==
  ASSUME Types, NEW m \in Down, RobotReceives(m)
  PROVE  \/ /\ m.type \notin {"BreakpointSet", "BreakpointClear", "BreakpointClearAll"}
            /\ robot'.bps = robot.bps
         \/ /\ m.type = "BreakpointSet"
            /\ robot'.bps = Append(robot.bps, m.pc) \/ (robot'.bps = robot.bps /\ Refuses(up', m.pc))
         \/ m.type = "BreakpointClear" /\ robot'.bps = RemoveFirst(robot.bps, m.pc)
         \/ m.type = "BreakpointClearAll"
<1>1. robot \in Robots /\ up \in Seq(Up)
  BY DEF Types
<1>2. CASE m.type \in {"SetBytecode", "Reset"} /\ RobotResets(Stored(m))
  <2>1. Stored(m) \in Robots /\ Stored(m).bps = robot.bps
    <3>1. CASE m.type = "SetBytecode" /\ m.program # NoProgram
      <4>1. m.program \in AllPrograms /\ m.part \in PartNumbers
        BY <3>1 DEF Down, PlainTypes
      <4> QED BY <1>1, <3>1, <4>1 DEF Stored, Robots
    <3>2. CASE ~ (m.type = "SetBytecode" /\ m.program # NoProgram)
      BY <1>1, <3>2 DEF Stored
    <3> QED BY <3>1, <3>2
  <2> DEFINE b == Stored(m)
  <2> HIDE DEF b
  <2>2. b \in Robots /\ b.bps = robot.bps /\ RobotResets(b)
    BY <1>2, <2>1 DEF b
  <2>3. robot' \in {[b EXCEPT !.mode = "Stopped", !.steps = 0],
                    [b EXCEPT !.mode = "Paused", !.pc = InitPc(b.code[1]), !.steps = 0]}
    BY <2>2 DEF RobotResets, Becomes
  <2>4. robot'.bps = robot.bps
    BY <2>2, <2>3 DEF Robots
  <2> QED BY <1>2, <2>4
<1>3. CASE \/ m.type = "Run" /\ RobotRuns
           \/ m.type = "Stop" /\ RobotStops
  <2>1. robot' \in {[robot EXCEPT !.mode = mode, !.steps = 0] : mode \in {"Running", "Stopped"}}
    BY <1>3 DEF RobotRuns, RobotStops, Becomes
  <2> QED BY <1>1, <1>3, <2>1 DEF Robots
<1>4. CASE m.type = "Pause" /\ RobotPauses
  <2>1. robot' \in {robot} \cup {[robot EXCEPT !.mode = mode, !.steps = 0] : mode \in {"Paused", "Stopped"}}
    BY <1>4 DEF RobotPauses, Becomes
  <2> QED BY <1>1, <1>4, <2>1 DEF Robots
<1>5. CASE m.type = "Step" /\ RobotSteps
  <2>1. \/ robot' = robot
        \/ \E x \in Pcs : robot' = [robot EXCEPT !.pc = x, !.steps = @ + 1]
        \/ robot' = [robot EXCEPT !.mode = "Stopped", !.steps = 0]
    BY <1>5 DEF RobotSteps, Becomes
  <2> QED BY <1>1, <1>5, <2>1 DEF Robots
<1>6. CASE m.type = "GetExecutionState" /\ Becomes(robot, <<State(robot)>>)
  BY <1>6 DEF Becomes
<1>7. CASE m.type = "Other" /\ Becomes(robot, <<>>)
  BY <1>7 DEF Becomes
<1>8. CASE m.type = "BreakpointSet" /\ RobotSetsBreakpoint(m)
  <2>1. m.pc \in Pcs /\ m.id \in Requests
    BY <1>8 DEF Down, PlainTypes
  <2> DEFINE ok == HasRoom(robot.bps)
             result == [type |-> "BreakpointSetResult", pc |-> m.pc, ok |-> ok, id |-> m.id]
  <2>2. /\ robot' = IF ok THEN [robot EXCEPT !.bps = Append(@, m.pc)] ELSE robot
        /\ up' = up \o <<result>>
    BY <1>8 DEF RobotSetsBreakpoint, Becomes
  <2>3. result \in Up /\ (~ok => Refusal(result, m.pc))
    <3>1. ok \in BOOLEAN
      BY DEF HasRoom
    <3> HIDE DEF ok
    <3> QED BY <2>1, <3>1 DEF Up, Refusal
  <2> HIDE DEF ok, result
  <2>4. CASE ok
    BY <1>1, <1>8, <2>2, <2>4 DEF Robots
  <2>5. CASE ~ok
    <3>1. Len(up) + 1 \in 1..Len(up') /\ up'[Len(up) + 1] = result
      BY <1>1, <2>2, <2>3
    <3> QED BY <1>8, <2>2, <2>3, <2>5, <3>1 DEF Refuses
  <2> QED BY <2>4, <2>5
<1>9. CASE m.type = "BreakpointClear" /\ Becomes([robot EXCEPT !.bps = RemoveFirst(@, m.pc)], <<>>)
  BY <1>1, <1>9 DEF Becomes, Robots
<1>10. CASE m.type = "BreakpointClearAll" /\ Becomes([robot EXCEPT !.bps = <<>>], <<>>)
  BY <1>10
<1> QED BY <1>2, <1>3, <1>4, <1>5, <1>6, <1>7, <1>8, <1>9, <1>10 DEF RobotReceives

\* Every line is in the order once.
LEMMA EveryLine ==
  ASSUME NEW S \in SUBSET Lines, NEW s \in SetToSeqs(S)
  PROVE  /\ \A l \in S : \E k \in 1..Len(s) : s[k] = l
         /\ \A i, j \in 1..Len(s) : i # j => s[i] # s[j]
<1> DEFINE n == Cardinality(S)
<1>1. IsFiniteSet(S) /\ n \in Nat
  BY RequestsAssumption, FS_Subset, FS_CardinalityType
<1>2. s \in [1..n -> S] /\ \A i, j \in 1..n : i # j => s[i] # s[j]
  BY DEF SetToSeqs
<1>3. Len(s) = n
  BY <1>1, <1>2
<1>4. s \in Injection(1..n, S)
  BY <1>2 DEF Injection, IsInjective
<1>5. Cardinality(1..n) = n
  BY <1>1, FS_Interval
<1>6. s \in Surjection(1..n, S)
  BY <1>1, <1>4, <1>5, FS_Injection
<1> HIDE DEF n
<1> QED BY <1>2, <1>3, <1>6 DEF Surjection

LEMMA HoldsKept ==
  ASSUME NEW pc, Holds(pc), missed \subseteq missed',
         Comes(queue, pc) => Comes(queue', pc), Untouched(queue, pc) => Untouched(queue', pc),
         pc \in Range(robot.bps) => pc \in Range(robot'.bps), Refuses(up, pc) => Refuses(up', pc)
  PROVE  Holds(pc)'
BY DEF Holds

LEMMA BelieveKept ==
  ASSUME BelieveInv, UNCHANGED <<bytecode, breakpoints, bpreq>>,
         \A pc \in Pcs : Holds(pc) => Holds(pc)'
  PROVE  BelieveInv'
BY DEF BelieveInv, Believed

\* A batch that leaves the breakpoints alone.
NeutralBatch(msgs) ==
  /\ msgs \in Seq(Down)
  /\ \A i \in 1..Len(msgs) :
       msgs[i].type \notin {"BreakpointSet", "BreakpointClear", "BreakpointClearAll"}

Neutral ==
  \/ queue' = queue
  \/ \E msgs, cb : NeutralBatch(msgs) /\ cb \in CallbackSet /\ queue' = Queued(queue, msgs, cb)

LEMMA NeutralTouch ==
  ASSUME Types, Neutral, NEW pc
  PROVE  (Comes(queue, pc) => Comes(queue', pc)) /\ (Untouched(queue, pc) => Untouched(queue', pc))
<1>1. CASE queue' = queue
  BY <1>1
<1>2. CASE queue' # queue
  <2>1. PICK msgs, cb : NeutralBatch(msgs) /\ cb \in CallbackSet /\ queue' = Queued(queue, msgs, cb)
    BY <1>2 DEF Neutral
  <2>2. queue \in Seq(Slots) /\ msgs \in Seq(Down) /\ \A i \in 1..Len(msgs) : ~Touches(msgs[i], pc)
    BY <2>1 DEF Types, NeutralBatch, Touches
  <2> QED BY <2>1, <2>2, TouchQueued
<1> QED BY <1>1, <1>2

LEMMA NeutralBatches ==
  /\ NeutralBatch(<<>>)
  /\ \A type \in PlainTypes \ {"BreakpointClearAll"} : NeutralBatch(<<Msg(type)>>)
  /\ \A n \in Nat : NeutralBatch([i \in 1..n |-> Msg("Other")])
<1>1. NeutralBatch(<<>>)
  BY PlainBatch DEF Batch, NeutralBatch
<1>2. ASSUME NEW type \in PlainTypes \ {"BreakpointClearAll"} PROVE NeutralBatch(<<Msg(type)>>)
  <2>1. <<Msg(type)>> \in Seq(Down)
    BY PlainBatch DEF Batch
  <2>2. Msg(type).type \notin {"BreakpointSet", "BreakpointClear", "BreakpointClearAll"}
    BY DEF Msg, PlainTypes
  <2> QED BY <2>1, <2>2 DEF NeutralBatch
<1>3. ASSUME NEW n \in Nat PROVE NeutralBatch([i \in 1..n |-> Msg("Other")])
  <2>1. [i \in 1..n |-> Msg("Other")] \in Seq(Down)
    BY PlainBatch DEF Batch
  <2>2. Msg("Other").type = "Other"
    BY DEF Msg
  <2> QED BY <2>1, <2>2 DEF NeutralBatch
<1> QED BY <1>1, <1>2, <1>3

LEMMA NeutralBelieves ==
  ASSUME Types, BelieveInv, Neutral, UNCHANGED <<bytecode, breakpoints, bpreq, up, robot, missed>>
  PROVE  BelieveInv'
<1>1. ASSUME NEW pc \in Pcs, Holds(pc) PROVE Holds(pc)'
  BY <1>1, NeutralTouch, HoldsKept
<1> QED BY <1>1, BelieveKept

\* The messages of set_breakpoints that touch the address of a line that is asked for: none if
\* it is believed to be set, one that sets it otherwise.  Lines are at different addresses.
LEMMA BreakpointTouches ==
  ASSUME Types, This \in Requests, NEW want \in SUBSET Lines, NEW l \in want,
         NEW pc \in Pcs, PcOf[bytecode][l] = pc,
         NEW set \in SetToSeqs(Fresh(want)), NEW clear \in SetToSeqs(Stale(want)),
         NEW msgs, msgs = BreakpointMessages(want, set, clear)
  PROVE  /\ l \notin Fresh(want) => \A i \in 1..Len(msgs) : ~Touches(msgs[i], pc)
         /\ l \in Fresh(want) =>
              \E k \in 1..Len(msgs) :
                /\ msgs[k].type = "BreakpointSet" /\ msgs[k].pc = pc
                /\ \A i \in 1..Len(msgs) : i # k => ~Touches(msgs[i], pc)
<1> DEFINE s == [i \in DOMAIN set |-> BpSet(PcOf[bytecode][set[i]], This)]
           c == [i \in DOMAIN clear |-> BpClear(PcOf[bytecode][clear[i]])]
<1>1. bytecode \in AllPrograms /\ Fresh(want) \in SUBSET Lines /\ Stale(want) \in SUBSET Lines
  BY DEF Types, Fresh, Stale
<1>2. /\ set \in Seq(Fresh(want)) /\ DOMAIN set = 1..Len(set)
      /\ clear \in Seq(Stale(want)) /\ DOMAIN clear = 1..Len(clear)
  BY <1>1, OrderOfLines
<1>3. \A k \in Lines : PcOf[bytecode][k] = pc => k = l
  <2>1. pc # NoPc
    BY DEF Pcs
  <2> QED BY <1>1, <2>1, RequestsAssumption
<1>4. /\ Len(s) = Len(set) /\ Len(c) = Len(clear) /\ s \in Seq(Down) /\ c \in Seq(Down)
      /\ \A i \in 1..Len(set) : s[i].type = "BreakpointSet" /\ s[i].pc = PcOf[bytecode][set[i]]
      /\ \A i \in 1..Len(clear) : c[i].type = "BreakpointClear" /\ c[i].pc = PcOf[bytecode][clear[i]]
  <2>1. \A i \in 1..Len(set) : PcOf[bytecode][set[i]] \in Pcs
    BY <1>1, <1>2, PcFacts DEF Fresh
  <2>2. \A i \in 1..Len(clear) : PcOf[bytecode][clear[i]] \in Pcs
    BY <1>1, <1>2, PcFacts DEF Stale
  <2>3. s \in Seq(Down)
    <3>1. \A x \in Pcs : BpSet(x, This) \in Down
      BY DEF BpSet, Down
    <3> QED BY <1>2, <2>1, <3>1
  <2>4. c \in Seq(Down)
    <3>1. \A x \in Pcs : BpClear(x) \in Down
      BY DEF BpClear, Down
    <3> QED BY <1>2, <2>2, <3>1
  <2> QED BY <1>2, <2>3, <2>4 DEF BpSet, BpClear
<1>5. msgs = s \o c
  BY DEF BreakpointMessages
<1> HIDE DEF s, c
<1>6. /\ Len(msgs) = Len(set) + Len(clear)
      /\ \A i \in 1..Len(set) : i \in 1..Len(msgs) /\ msgs[i] = s[i]
      /\ \A i \in 1..Len(msgs) : i > Len(set) => i - Len(set) \in 1..Len(clear) /\ msgs[i] = c[i - Len(set)]
  <2>1. Len(msgs) = Len(s) + Len(c) /\ Len(s) \in Nat /\ Len(c) \in Nat
    BY <1>4, <1>5
  <2>2. \A i \in 1..Len(s) : msgs[i] = s[i]
    BY <1>4, <1>5
  <2>3. \A i \in 1..Len(c) : msgs[Len(s) + i] = c[i]
    BY <1>4, <1>5
  <2>4. ASSUME NEW i \in 1..Len(msgs), i > Len(s) PROVE i - Len(s) \in 1..Len(c) /\ msgs[i] = c[i - Len(s)]
    <3>1. i - Len(s) \in 1..Len(c) /\ Len(s) + (i - Len(s)) = i
      BY <2>1, <2>4
    <3> QED BY <2>3, <3>1
  <2> QED BY <1>4, <2>1, <2>2, <2>4
<1>7. ASSUME NEW i \in 1..Len(msgs), Touches(msgs[i], pc) PROVE i \in 1..Len(set) /\ set[i] = l
  <2>1. CASE i > Len(set)
    <3>1. PICK j \in 1..Len(clear) : msgs[i] = c[j]
      BY <1>6, <2>1
    <3>2. clear[j] \in Stale(want)
      BY <1>2
    <3>3. clear[j] = l
      BY <1>1, <1>3, <1>4, <1>7, <3>1, <3>2 DEF Touches
    <3> QED BY <3>2, <3>3 DEF Stale
  <2>2. CASE ~ (i > Len(set))
    <3>1. i \in 1..Len(set) /\ msgs[i] = s[i]
      BY <1>2, <1>6, <2>2
    <3>2. set[i] \in Lines
      BY <1>1, <1>2, <3>1
    <3> QED BY <1>3, <1>4, <1>7, <3>1, <3>2 DEF Touches
  <2> QED BY <2>1, <2>2
<1>8. ASSUME l \notin Fresh(want), NEW i \in 1..Len(msgs) PROVE ~Touches(msgs[i], pc)
  BY <1>2, <1>7, <1>8
<1>9. ASSUME l \in Fresh(want)
      PROVE  \E k \in 1..Len(msgs) :
               /\ msgs[k].type = "BreakpointSet" /\ msgs[k].pc = pc
               /\ \A i \in 1..Len(msgs) : i # k => ~Touches(msgs[i], pc)
  <2>1. PICK k \in 1..Len(set) : set[k] = l
    BY <1>1, <1>9, EveryLine
  <2>2. k \in 1..Len(msgs) /\ msgs[k].type = "BreakpointSet" /\ msgs[k].pc = pc
    BY <1>4, <1>6, <2>1
  <2>3. ASSUME NEW i \in 1..Len(msgs), i # k PROVE ~Touches(msgs[i], pc)
    <3>1. i \in 1..Len(set) => set[i] # l
      BY <1>1, <2>1, <2>3, EveryLine
    <3> QED BY <1>7, <3>1
  <2> QED BY <2>2, <2>3
<1> QED BY <1>8, <1>9

\* set_breakpoints: what is told to be set is, or its refusal is counted; the rest is sent.
LEMMA BreakpointBelieves ==
  ASSUME Types, BelieveInv, NEW want \in SUBSET Lines, SetBreakpoints(want) PROVE BelieveInv'
<1> DEFINE told == want \cap breakpoints
           pending == {[pc |-> PcOf[bytecode][l], line |-> l] : l \in Fresh(want)}
<1>1. PICK set \in SetToSeqs(Fresh(want)), clear \in SetToSeqs(Stale(want)) :
        LET msgs == BreakpointMessages(want, set, clear)
        IN  /\ Issue(IF msgs = <<>> THEN 1 ELSE 0, Pending(bpreq))
            /\ breakpoints' = IF msgs = <<>> THEN told ELSE want
            /\ bpreq' = IF msgs = <<>> THEN None ELSE [id |-> This, pending |-> pending, set |-> told]
            /\ queue' = Queued(queue, msgs, Callback("breakpoints", This))
            /\ missed' = missed \cup Overlooked(told)
            /\ UNCHANGED <<bytecode, stepreq, loads, vm, posted, up, robot, excused, killed>>
  BY DEF SetBreakpoints, BreakpointMessages
<1> DEFINE msgs == BreakpointMessages(want, set, clear)
<1>2. This \in Requests
  <2>1. PICK n \in Nat : Issue(n, Pending(bpreq))
    BY <1>1
  <2> QED BY <2>1, IssueFacts
<1>3. msgs \in Seq(Down) /\ queue \in Seq(Slots) /\ Callback("breakpoints", This) \in CallbackSet
  BY <1>2, BreakpointBatch, CallbackFacts DEF Batch, Types
<1> HIDE DEF msgs
<1>4. /\ breakpoints' = IF msgs = <<>> THEN told ELSE want
      /\ bpreq' = IF msgs = <<>> THEN None ELSE [id |-> This, pending |-> pending, set |-> told]
      /\ queue' = Queued(queue, msgs, Callback("breakpoints", This))
      /\ missed' = missed \cup Overlooked(told) /\ UNCHANGED <<bytecode, up, robot>>
  BY <1>1 DEF msgs
<1> SUFFICES ASSUME bytecode \in Programs
             PROVE  /\ bpreq' # None =>
                         \A e \in bpreq'.pending : e.pc = PcOf[bytecode][e.line] /\ e.line \notin bpreq'.set
                    /\ \A l \in Believed', pc \in Pcs : PcOf[bytecode][l] = pc => Holds(pc)'
  BY <1>4 DEF BelieveInv
<1>5. \A l \in Fresh(want) : l \in want /\ l \notin breakpoints
  BY DEF Fresh
<1>6. \A e \in pending : e.pc = PcOf[bytecode][e.line] /\ e.line \in Fresh(want) /\ e.line \notin told
  BY <1>5
<1>7. Believed' \subseteq told \cup Fresh(want)
  <2>1. CASE msgs = <<>>
    BY <1>4, <2>1 DEF Believed
  <2>2. CASE msgs # <<>>
    <3> DEFINE request == [id |-> This, pending |-> pending, set |-> told]
    <3>1. bpreq' = request /\ request.set = told /\ request.pending = pending
      BY <1>4, <2>2
    <3>2. Believed' \subseteq bpreq'.set \cup {e.line : e \in bpreq'.pending}
      <4>1. bpreq' # None
        BY <1>2, <3>1, NoneFacts DEF None
      <4> QED BY <4>1 DEF Believed
    <3> HIDE DEF request, pending, told
    <3> QED BY <1>6, <3>1, <3>2
  <2> QED BY <2>1, <2>2
<1>8. ASSUME NEW l \in Believed', NEW pc \in Pcs, PcOf[bytecode][l] = pc PROVE Holds(pc)'
  <2>1. l \in want
    BY <1>5, <1>7
  <2>2. /\ l \notin Fresh(want) => \A i \in 1..Len(msgs) : ~Touches(msgs[i], pc)
        /\ l \in Fresh(want) =>
             \E k \in 1..Len(msgs) :
               /\ msgs[k].type = "BreakpointSet" /\ msgs[k].pc = pc
               /\ \A i \in 1..Len(msgs) : i # k => ~Touches(msgs[i], pc)
    BY <1>2, <1>8, <2>1, BreakpointTouches DEF msgs
  <2>3. CASE l \in Fresh(want)
    <3>1. Comes(queue', pc)
      BY <1>3, <1>4, <2>2, <2>3, SetQueued
    <3> QED BY <3>1 DEF Holds
  <2>4. CASE l \notin Fresh(want)
    <3>1. (Comes(queue, pc) => Comes(queue', pc)) /\ (Untouched(queue, pc) => Untouched(queue', pc))
      BY <1>3, <1>4, <2>2, <2>4, TouchQueued
    <3>2. l \in told
      BY <1>7, <2>4
    <3>3. CASE l \in Believed
      <4>1. Holds(pc)
        BY <1>8, <3>3 DEF BelieveInv
      <4> QED BY <1>4, <3>1, <4>1, HoldsKept
    <3>4. CASE l \notin Believed
      <4>1. bpreq # None /\ l \notin bpreq.set \cup {e.line : e \in bpreq.pending}
        BY <3>2, <3>4 DEF Believed
      <4>2. pc # NoPc
        BY DEF Pcs
      <4>3. pc \in Overlooked(told)
        BY <1>8, <3>2, <4>1, <4>2 DEF Overlooked
      <4> QED BY <1>4, <4>3 DEF Holds
    <3> QED BY <3>3, <3>4
  <2> QED BY <2>3, <2>4
<1>9. ASSUME bpreq' # None, NEW e \in bpreq'.pending
      PROVE  e.pc = PcOf[bytecode][e.line] /\ e.line \notin bpreq'.set
  <2>1. bpreq' = [id |-> This, pending |-> pending, set |-> told]
    BY <1>4, <1>9
  <2> HIDE DEF pending, told
  <2>2. e \in pending /\ bpreq'.set = told
    BY <1>9, <2>1
  <2> QED BY <1>6, <2>2
<1> QED BY <1>8, <1>9

\* handle_write: the robot sets a breakpoint or refuses it; what comes later decides.
LEMMA WriteBelieves ==
  ASSUME Types, BelieveInv, HandleWrite PROVE BelieveInv'
<1> DEFINE m == Head(queue).msg
           q == Tail(queue)
<1>1. queue # <<>> /\ queue' = q /\ RobotReceives(m) /\ UNCHANGED <<nodeVars, missed>>
  BY DEF HandleWrite
<1>2. /\ m \in Down /\ m = queue[1].msg /\ queue \in Seq(Slots) /\ q \in Seq(Slots)
      /\ Len(q) = Len(queue) - 1 /\ \A i \in 1..Len(q) : q[i] = queue[i + 1]
  BY <1>1, FirstSlot DEF Types
<1>3. Len(queue) \in Nat /\ Len(queue) >= 1 /\ robot.bps \in Seq(Pcs)
  BY <1>1, <1>2 DEF Types, Robots
<1> HIDE DEF m, q
<1>4. \A pc : Refuses(up, pc) => Refuses(up', pc)
  <2>1. PICK b, answers : Follows(b, answers)
    BY <1>1, <1>2, RobotFollows
  <2>2. up' = up \o answers /\ up \in Seq(Up) /\ answers \in Seq(Up)
    BY <2>1, FollowTypes DEF Follows, Types
  <2>3. \A i \in 1..Len(up) : i \in 1..Len(up') /\ up'[i] = up[i]
    BY <2>2
  <2> QED BY <2>3 DEF Refuses
<1>5. ASSUME NEW pc \in Pcs, Holds(pc) PROVE Holds(pc)'
  <2>1. CASE pc \in missed
    BY <1>1, <2>1 DEF Holds
  <2>2. CASE Untouched(queue, pc) /\ (pc \in Range(robot.bps) \/ Refuses(up, pc))
    <3>1. ~Touches(m, pc)
      BY <1>2, <1>3, <2>2 DEF Untouched
    <3>2. Untouched(q, pc)
      <4>1. ASSUME NEW i \in 1..Len(q) PROVE ~Touches(q[i].msg, pc)
        <5>1. i + 1 \in 1..Len(queue) /\ q[i] = queue[i + 1]
          BY <1>2, <1>3
        <5> QED BY <2>2, <5>1 DEF Untouched
      <4> QED BY <4>1 DEF Untouched
    <3>3. pc \in Range(robot.bps) => pc \in Range(robot'.bps)
      <4> SUFFICES ASSUME pc \in Range(robot.bps) PROVE pc \in Range(robot'.bps)
        OBVIOUS
      <4>1. CASE robot'.bps = robot.bps
        BY <4>1
      <4>2. CASE m.type = "BreakpointSet" /\ robot'.bps = Append(robot.bps, m.pc)
        BY <1>3, <4>2 DEF Range
      <4>3. CASE m.type = "BreakpointClear" /\ robot'.bps = RemoveFirst(robot.bps, m.pc)
        <5>1. m.pc # pc
          BY <3>1, <4>3 DEF Touches
        <5> QED BY <1>3, <4>3, <5>1, RemoveFirstKeeps
      <4>4. m.type # "BreakpointClearAll"
        BY <3>1 DEF Touches
      <4> QED BY <1>1, <1>2, <4>1, <4>2, <4>3, <4>4, RobotTable
    <3> QED BY <1>1, <1>4, <2>2, <3>2, <3>3 DEF Holds
  <2>3. CASE Comes(queue, pc)
    <3>1. PICK i \in 1..Len(queue) :
            /\ queue[i].msg.type = "BreakpointSet" /\ queue[i].msg.pc = pc
            /\ \A j \in 1..Len(queue) : j > i => ~Touches(queue[j].msg, pc)
      BY <2>3 DEF Comes
    <3>2. \A j \in 1..Len(q) : j + 1 \in 1..Len(queue) /\ q[j] = queue[j + 1]
      BY <1>2, <1>3
    <3>3. \A j \in 1..Len(q) : j + 1 > i => ~Touches(q[j].msg, pc)
      BY <3>1, <3>2
    <3>4. CASE i = 1
      <4>1. m.type = "BreakpointSet" /\ m.pc = pc
        BY <1>2, <3>1, <3>4
      <4>2. \A j \in 1..Len(q) : j + 1 > i
        BY <3>4
      <4>3. Untouched(q, pc)
        BY <3>3, <4>2 DEF Untouched
      <4>4. CASE robot'.bps = Append(robot.bps, pc)
        <5>1. Len(robot.bps) + 1 \in DOMAIN robot'.bps /\ robot'.bps[Len(robot.bps) + 1] = pc
          BY <1>3, <4>4
        <5> QED BY <1>1, <4>3, <5>1 DEF Holds, Range
      <4>5. CASE Refuses(up', pc)
        BY <1>1, <4>3, <4>5 DEF Holds
      <4> QED BY <1>1, <1>2, <4>1, <4>4, <4>5, RobotTable
    <3>5. CASE i # 1
      <4>1. i - 1 \in 1..Len(q) /\ q[i - 1] = queue[i]
        <5>1. i - 1 \in 1..Len(q) /\ (i - 1) + 1 = i
          BY <1>2, <1>3, <3>5
        <5> QED BY <3>2, <5>1
      <4>2. \A j \in 1..Len(q) : j > i - 1 => j + 1 > i
        BY <1>3
      <4>3. Comes(q, pc)
        BY <3>1, <3>3, <4>1, <4>2 DEF Comes
      <4> QED BY <1>1, <4>3 DEF Holds
    <3> QED BY <3>4, <3>5
  <2> QED BY <1>5, <2>1, <2>2, <2>3 DEF Holds
<1> QED BY <1>1, <1>5, BelieveKept DEF nodeVars

\* The callback of a batch settles a request all of whose results have come.
LEMMA PostedBelieves ==
  ASSUME Types, BelieveInv, RunPosted PROVE BelieveInv'
<1>1. /\ UNCHANGED <<bytecode, queue, up, robot, missed>>
      /\ \/ UNCHANGED <<breakpoints, bpreq>>
         \/ bpreq # None /\ breakpoints' = bpreq.set /\ bpreq' = None
  BY DEF RunPosted
<1>2. ASSUME NEW pc \in Pcs, Holds(pc) PROVE Holds(pc)'
  BY <1>1, <1>2 DEF Holds
<1>3. Believed' \subseteq Believed
  BY <1>1 DEF Believed
<1>4. bpreq' # None => bpreq' = bpreq
  BY <1>1
<1> QED BY <1>1, <1>2, <1>3, <1>4 DEF BelieveInv

\* A message of the robot that is not a refusal of pc is taken.
LEMMA TakenRefuses ==
  ASSUME Types, NEW types, Received(types), NEW pc, ~Refusal(Head(up), pc), Refuses(up, pc)
  PROVE  Refuses(up', pc)
<1>1. /\ Head(up) = up[1] /\ Len(up') = Len(up) - 1 /\ \A i \in 1..Len(up') : up'[i] = up[i + 1]
  BY ReceivedFacts
<1>2. PICK i \in 1..Len(up) : Refusal(up[i], pc)
  BY DEF Refuses
<1>3. Len(up) \in Nat /\ i # 1
  BY <1>1, <1>2 DEF Types
<1>4. i - 1 \in 1..Len(up') /\ (i - 1) + 1 = i
  BY <1>1, <1>3
<1>5. up'[i - 1] = up[i]
  BY <1>1, <1>4
<1> QED BY <1>2, <1>4, <1>5 DEF Refuses

LEMMA ReportBelieves ==
  ASSUME Types, BelieveInv, OnExecutionState \/ OnRuntimeError PROVE BelieveInv'
<1>1. /\ Received({"ExecutionState", "RuntimeError", "EventExecutionKilled"})
      /\ Head(up).type # "BreakpointSetResult"
      /\ UNCHANGED <<bytecode, breakpoints, bpreq, robot, missed>>
  BY DEF OnExecutionState, OnRuntimeError, Received
<1>2. Neutral
  <2>1. CASE OnExecutionState
    <3>1. queue' = Queued(queue, HandleStep(stepreq, vm').sent, NoCallback)
      BY <2>1 DEF OnExecutionState
    <3>2. HandleStep(stepreq, vm').sent \in {<<>>, <<Msg("Step")>>}
      BY DEF HandleStep
    <3>3. NeutralBatch(HandleStep(stepreq, vm').sent) /\ NoCallback \in CallbackSet
      BY <3>2, NeutralBatches DEF PlainTypes, CallbackSet
    <3> QED BY <3>1, <3>3 DEF Neutral
  <2>2. CASE OnRuntimeError
    BY <2>2 DEF OnRuntimeError, Neutral
  <2> QED BY <2>1, <2>2
<1>3. ASSUME NEW pc \in Pcs, Holds(pc) PROVE Holds(pc)'
  <2>1. ~Refusal(Head(up), pc)
    BY <1>1 DEF Refusal
  <2>2. Refuses(up, pc) => Refuses(up', pc)
    BY <1>1, <2>1, TakenRefuses
  <2> QED BY <1>1, <1>2, <1>3, <2>2, NeutralTouch, HoldsKept
<1> QED BY <1>1, <1>3, BelieveKept

\* on_breakpoint_set_result: a refusal takes the line of its address out of the request, or is
\* counted.
LEMMA ResultBelieves ==
  ASSUME Types, BelieveInv, OnBreakpointSetResult PROVE BelieveInv'
<1> DEFINE res   == Head(up)
           match == IF bpreq = None THEN {} ELSE {e \in bpreq.pending : e.pc = res.pc}
           line  == (CHOOSE e \in match : TRUE).line
           set   == SetByResult(bpreq.set, line, res.ok)
           left  == bpreq.pending \ match
<1>1. /\ Received({"BreakpointSetResult"})
      /\ missed' = IF ~res.ok /\ (match = {} \/ bpreq.id # res.id) THEN missed \cup {res.pc} ELSE missed
      /\ match = {} => UNCHANGED <<breakpoints, bpreq>>
      /\ match # {} =>
           /\ bpreq' = IF left = {} THEN None ELSE [bpreq EXCEPT !.pending = left, !.set = set]
           /\ breakpoints' = IF left = {} THEN set ELSE breakpoints
      /\ UNCHANGED <<bytecode, queue, robot>>
  BY DEF OnBreakpointSetResult
<1>2. ASSUME NEW pc \in Pcs, Holds(pc),
             ~ (pc = res.pc /\ ~res.ok /\ match # {} /\ bpreq.id = res.id)
      PROVE  Holds(pc)'
  <2> HIDE DEF match
  <2>1. CASE Refusal(res, pc)
    <3>1. pc \in missed'
      BY <1>1, <1>2, <2>1 DEF Refusal
    <3> QED BY <3>1 DEF Holds
  <2>2. CASE ~Refusal(res, pc)
    <3>1. Refuses(up, pc) => Refuses(up', pc)
      BY <1>1, <2>2, TakenRefuses
    <3>2. missed \subseteq missed'
      BY <1>1
    <3> QED BY <1>1, <1>2, <3>1, <3>2, HoldsKept
  <2> QED BY <2>1, <2>2
<1>3. CASE match = {}
  <2>1. ASSUME NEW pc \in Pcs, Holds(pc) PROVE Holds(pc)'
    <3> HIDE DEF match
    <3> QED BY <1>2, <1>3, <2>1
  <2> HIDE DEF match
  <2> QED BY <1>1, <1>3, <2>1, BelieveKept
<1>4. CASE match # {}
  <2> SUFFICES ASSUME bytecode \in Programs
               PROVE  /\ bpreq' # None =>
                           \A e \in bpreq'.pending :
                             e.pc = PcOf[bytecode][e.line] /\ e.line \notin bpreq'.set
                      /\ \A l \in Believed', pc \in Pcs : PcOf[bytecode][l] = pc => Holds(pc)'
    BY <1>1 DEF BelieveInv
  <2>1. bpreq # None /\ match = {e \in bpreq.pending : e.pc = res.pc}
    BY <1>4
  <2>2. \A e \in bpreq.pending : e.pc = PcOf[bytecode][e.line] /\ e.line \notin bpreq.set
    BY <2>1 DEF BelieveInv
  <2>3. /\ bpreq \in BpRequests /\ bpreq.set \subseteq Lines
        /\ \A e \in bpreq.pending : e.line \in Lines /\ e.pc \in Pcs
    BY <2>1 DEF Types, BpRequests
  <2>4. PICK m \in match : line = m.line
    <3>1. (CHOOSE e \in match : TRUE) \in match
      BY <1>4
    <3> QED BY <3>1
  <2>5. set \subseteq bpreq.set \cup {m.line} /\ (~res.ok => set = bpreq.set)
    <3> HIDE DEF line, res
    <3> QED BY <2>4 DEF SetByResult
  <2>6. \/ bpreq' = None /\ breakpoints' = set
        \/ bpreq' # None /\ bpreq'.pending = left /\ bpreq'.set = set
    <3> HIDE DEF match, left, set
    <3>1. CASE left = {}
      BY <1>1, <1>4, <3>1
    <3>2. CASE left # {}
      <4>1. /\ bpreq' = [bpreq EXCEPT !.pending = left, !.set = set]
            /\ bpreq'.id = bpreq.id /\ bpreq'.pending = left /\ bpreq'.set = set
        BY <1>1, <1>4, <2>3, <3>2 DEF BpRequests
      <4> QED BY <2>3, <4>1, NoneFacts DEF BpRequests, None
    <3> QED BY <3>1, <3>2
  <2>7. Believed' \subseteq set \cup {e.line : e \in left}
    <3> HIDE DEF match, left, set
    <3>1. CASE bpreq' = None /\ breakpoints' = set
      BY <3>1 DEF Believed
    <3>2. CASE bpreq' # None /\ bpreq'.pending = left /\ bpreq'.set = set
      BY <3>2 DEF Believed
    <3> QED BY <2>6, <3>1, <3>2
  <2>8. m \in bpreq.pending /\ m.pc = res.pc /\ \A e \in left : e \in bpreq.pending /\ e.pc # res.pc
    BY <2>1, <2>4
  <2> HIDE DEF match, left, set, line
  <2>9. ASSUME bpreq' # None, NEW e \in bpreq'.pending
        PROVE  e.pc = PcOf[bytecode][e.line] /\ e.line \notin bpreq'.set
    <3>1. e \in left /\ bpreq'.set = set
      BY <2>6, <2>9
    <3>2. e.line # m.line
      BY <2>2, <2>8, <3>1
    <3> QED BY <2>2, <2>5, <2>8, <3>1, <3>2
  <2>10. ASSUME NEW l \in Believed', NEW pc \in Pcs, PcOf[bytecode][l] = pc PROVE Holds(pc)'
    <3>1. l \in set \/ \E e \in left : l = e.line
      BY <2>7
    <3>2. l \in Believed
      BY <2>1, <2>5, <2>8, <3>1 DEF Believed
    <3>3. Holds(pc)
      BY <2>10, <3>2 DEF BelieveInv
    <3>4. CASE pc = res.pc /\ ~res.ok
      <4>1. l \in bpreq.set
        BY <2>2, <2>5, <2>8, <2>10, <3>1, <3>4
      <4>2. l # m.line
        BY <2>2, <2>8, <4>1
      <4>3. PcOf[bytecode][m.line] = pc /\ m.line \in Lines /\ l \in Lines
        BY <2>2, <2>3, <2>8, <3>4, <4>1
      <4>4. pc # NoPc /\ bytecode \in AllPrograms
        BY DEF Pcs, Types
      <4> QED BY <2>10, <4>2, <4>3, <4>4, RequestsAssumption
    <3>5. CASE ~ (pc = res.pc /\ ~res.ok)
      BY <1>2, <3>3, <3>5
    <3> QED BY <3>4, <3>5
  <2> QED BY <2>9, <2>10
<1> QED BY <1>3, <1>4

\* The robot's events leave its breakpoints as they are.
LEMMA EventBelieves ==
  ASSUME Types, BelieveInv, RobotEvent PROVE BelieveInv'
<1>1. UNCHANGED <<nodeVars, queue, posted, histVars>>
  BY EventFollows
<1>2. robot'.bps = robot.bps
  <2>1. robot \in Robots
    BY DEF Types
  <2>2. \/ \E x : \/ robot' = [robot EXCEPT !.mode = "Paused", !.pc = x, !.steps = 0]
                \/ robot' = [robot EXCEPT !.mode = "Paused", !.pc = x, !.faults = @ + 1]
        \/ robot' = [robot EXCEPT !.faults = @ + 1]
        \/ robot' = [robot EXCEPT !.mode = "Stopped", !.faults = @ + 1]
    BY DEF RobotEvent, RobotReachesBreakpoint, RobotSetsUpEvent, RobotKillsEvent, RobotFails, Becomes
  <2> QED BY <2>1, <2>2 DEF Robots
<1>3. \A pc : Refuses(up, pc) => Refuses(up', pc)
  <2>1. PICK b, answers : Follows(b, answers)
    BY EventFollows
  <2>2. up' = up \o answers /\ up \in Seq(Up) /\ answers \in Seq(Up)
    BY <2>1, FollowTypes DEF Follows, Types
  <2>3. \A i \in 1..Len(up) : i \in 1..Len(up') /\ up'[i] = up[i]
    BY <2>2
  <2> QED BY <2>3 DEF Refuses
<1>4. ASSUME NEW pc \in Pcs, Holds(pc) PROVE Holds(pc)'
  BY <1>1, <1>2, <1>3, <1>4, HoldsKept DEF histVars
<1> QED BY <1>1, <1>4, BelieveKept DEF nodeVars

\* A new program makes the node forget its breakpoints, and Stop replaces the program.
LEMMA RequestBelieves ==
  ASSUME Types, BelieveInv, Request PROVE BelieveInv'
<1>1. ASSUME Cancel PROVE BelieveInv'
  <2>1. bpreq' = None /\ Believed' = {}
    BY <1>1 DEF Cancel, Believed
  <2> QED BY <2>1 DEF BelieveInv
<1>2. CASE Stop
  <2>1. bytecode' \notin Programs
    BY <1>2, RequestsAssumption DEF Stop, StopCommand
  <2> QED BY <2>1 DEF BelieveInv
<1>3. ASSUME NEW msgs, NeutralBatch(msgs), This \in Requests,
             queue' = Queued(queue, msgs, Callback("answer", This)),
             UNCHANGED <<nodeVars, posted, up, robot, missed, killed>>
      PROVE  BelieveInv'
  <2>1. Neutral
    BY <1>3, CallbackFacts DEF Neutral
  <2> QED BY <1>3, <2>1, NeutralBelieves DEF nodeVars
<1>4. ASSUME NEW n \in Nat, NEW done, Issue(n, done) PROVE This \in Requests
  BY <1>4, IssueFacts
<1>5. ASSUME NEW type \in {"Run", "Reset", "Pause", "Step", "Other"}, Command(type)
      PROVE  BelieveInv'
  <2>1. NeutralBatch(<<Msg(type)>>)
    BY NeutralBatches DEF PlainTypes
  <2> QED BY <1>3, <1>4, <1>5, <2>1 DEF Command
<1>6. ASSUME NEW n \in 0..1, SetVariables(n) \/ EmitEvents(n) PROVE BelieveInv'
  <2>1. NeutralBatch([i \in 1..n |-> Msg("Other")])
    BY NeutralBatches
  <2>2. PICK k \in 0..1 : Issue(k, {})
    BY <1>6 DEF SetVariables, EmitEvents
  <2>3. This \in Requests
    BY <1>4, <2>2
  <2> HIDE DEF This
  <2> QED BY <1>3, <1>6, <2>1, <2>3 DEF SetVariables, EmitEvents
<1>7. CASE EmitRefused \/ SetVariablesRefused
  BY <1>7, NeutralBelieves DEF EmitRefused, SetVariablesRefused, Neutral, nodeVars
<1>8. CASE StepToNextLine
  <2> DEFINE s == [id |-> This, line |-> vm.line]
  <2>1. /\ queue' = Queued(queue, HandleStep(s, vm).sent, NoCallback)
        /\ UNCHANGED <<bytecode, breakpoints, bpreq, up, robot, missed>>
    BY <1>8 DEF StepToNextLine
  <2>2. HandleStep(s, vm).sent \in {<<>>, <<Msg("Step")>>}
    BY DEF HandleStep
  <2>3. NeutralBatch(HandleStep(s, vm).sent) /\ NoCallback \in CallbackSet
    BY <2>2, NeutralBatches DEF PlainTypes, CallbackSet
  <2>4. Neutral
    BY <2>1, <2>3 DEF Neutral
  <2> QED BY <2>1, <2>4, NeutralBelieves
<1>9. ASSUME NEW p, CompileAndSend(p) \/ CompileAndSave(p) PROVE BelieveInv'
  BY <1>1, <1>9 DEF CompileAndSend, CompileAndSave
<1>10. CASE CompileUnsupported \/ SaveUnsupported
  BY <1>1, <1>10 DEF CompileUnsupported, SaveUnsupported
<1> QED BY <1>2, <1>5, <1>6, <1>7, <1>8, <1>9, <1>10, BreakpointBelieves DEF Request

LEMMA BelieveInductive == Types /\ BelieveInv /\ [Next]_vars => BelieveInv'
<1> SUFFICES ASSUME Types, BelieveInv, [Next]_vars PROVE BelieveInv'
  OBVIOUS
<1>1. CASE Poll
  <2>1. /\ queue' = Queued(queue, <<Msg("GetExecutionState")>>, NoCallback)
        /\ UNCHANGED <<nodeVars, up, robot, histVars>>
    BY <1>1 DEF Poll
  <2>2. NeutralBatch(<<Msg("GetExecutionState")>>) /\ NoCallback \in CallbackSet
    BY NeutralBatches DEF PlainTypes, CallbackSet
  <2>3. Neutral
    BY <2>1, <2>2 DEF Neutral
  <2> QED BY <2>1, <2>3, NeutralBelieves DEF nodeVars, histVars
<1>2. CASE UNCHANGED vars
  <2>1. UNCHANGED <<bytecode, breakpoints, bpreq, up, robot, missed>> /\ Neutral
    BY <1>2 DEF vars, nodeVars, histVars, Neutral
  <2> QED BY <2>1, NeutralBelieves
<1> QED BY <1>1, <1>2, RequestBelieves, WriteBelieves, PostedBelieves, ReportBelieves,
           ResultBelieves, EventBelieves
      DEF Next, Receive, RobotEvent

\* When all messages have arrived, a line that set_breakpoints will not send again because
\* m_breakpoints has it is a breakpoint of the robot, whatever results, batches and requests
\* have overtaken each other; or the robot's refusal of it was counted as one nobody heard of.
THEOREM BelievedIsSetAlways == Spec => []BelievedIsSet
<1>1. Init => BelieveInv
  BY RequestsAssumption DEF Init, BelieveInv
<1>2. Types /\ BelieveInv => BelievedIsSet
  <2> SUFFICES ASSUME Types, BelieveInv, Quiet, bpreq = None, bytecode \in Programs,
                      NEW l \in breakpoints, PcOf[bytecode][l] # NoPc
               PROVE  PcOf[bytecode][l] \in Range(robot.bps) \cup missed
    BY DEF BelievedIsSet
  <2>1. l \in Believed /\ PcOf[bytecode][l] \in Pcs
    BY PcFacts DEF Believed, Types
  <2>2. PICK pc \in Pcs : pc = PcOf[bytecode][l]
    BY <2>1
  <2>3. Holds(pc)
    BY <2>1, <2>2 DEF BelieveInv
  <2>4. ~Comes(queue, pc) /\ ~Refuses(up, pc)
    BY DEF Quiet, Comes, Refuses
  <2> QED BY <2>2, <2>3, <2>4 DEF Holds
<1> QED BY <1>1, <1>2, TypesInvariance, BelieveInductive, PTL DEF Spec
=============================================================================
