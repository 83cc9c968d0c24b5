---------------------------- MODULE NodeRequests ----------------------------
(***************************************************************************)
(* The requests a client makes of the robot it has locked, in the Thymio   *)
(* Device Manager (aseba_node.cpp): load, save and stop programs, run and  *)
(* step them, set breakpoints and variables, emit events.  Each becomes    *)
(* messages in the queue of the endpoint (AsebaEndpoint) and is answered   *)
(* when one of them is written, when the robot has answered, or when a     *)
(* later request takes its place.                                          *)
(*                                                                         *)
(* A client does not wait for an answer before its next request.  Handlers *)
(* run to their end on one thread; between them the queue is written, the  *)
(* robot works and its messages travel, in order and without loss.  The    *)
(* robot takes a message when its write completes: a delay on the way out  *)
(* looks to the node like one on the way back.  A callback that only       *)
(* answers the client counts as called when it is posted.                  *)
(***************************************************************************)
EXTENDS Integers, Sequences, FiniteSets, SequencesExt

CONSTANTS
  Programs,        \* programs of clients
  StopProgram,     \* the program that stops the motors
  HasMotors,       \* whether the robot has the variables of the motors
  NoProgram,       \* an empty m_bytecode; on a robot, the program it comes with
  Parts,           \* SET_BYTECODE messages of each program
  Lines,           \* lines that may have a breakpoint
  PcOf,            \* address of the code of a line in each program, or NoPc
  MaxBreakpoints,  \* ASEBA_MAX_BREAKPOINTS
  RobotsFound,     \* state and breakpoints an earlier session may have left in the robot
  MaxRequests,     \* bound on the requests
  MaxSteps,        \* bound on the steps of one event
  MaxBacklog,      \* bound on the messages a poll may have to wait for
  MaxFaults        \* bound on the events that fail, are too slow, or come to a stopped robot

NoPc == -1

AllPrograms == Programs \cup {StopProgram, NoProgram}

ASSUME RequestsAssumption ==
  /\ StopProgram # NoProgram /\ {StopProgram, NoProgram} \cap Programs = {}
  /\ Parts \in [AllPrograms -> Nat \ {0}] /\ Parts[NoProgram] = 1
  /\ HasMotors \in BOOLEAN
  /\ Lines \subseteq Nat \ {0} /\ IsFiniteSet(Lines)
  /\ PcOf \in [AllPrograms -> [Lines -> Nat \cup {NoPc}]]
  /\ \A l \in Lines : PcOf[NoProgram][l] = NoPc
  \* A word of bytecode belongs to one line.
  /\ \A p \in AllPrograms : \A l, m \in Lines : l # m /\ PcOf[p][l] = PcOf[p][m] => PcOf[p][l] = NoPc
  /\ MaxBreakpoints \in Nat /\ MaxRequests \in Nat /\ MaxSteps \in Nat /\ MaxFaults \in Nat /\ MaxBacklog \in Nat

VARIABLES
  bytecode,     \* m_bytecode, as the program it was compiled from
  breakpoints,  \* m_breakpoints
  bpreq,        \* m_pending_breakpoint_request
  stepreq,      \* m_pending_step_request
  loads,        \* m_callbacks_pending_execution_state_change
  vm,           \* m_vm_state
  queue,        \* m_msg_queue of the endpoint
  posted,       \* callbacks of written messages that change the node
  up,           \* messages on their way from the robot
  robot,        \* bytecode, state, address, breakpoints of the robot
  issued,       \* history: number of requests made
  answered,     \* history: answers given to each
  excused,      \* history: requests the code is known not to answer once
  missed,       \* history: addresses refused without the request that asked being told
  killed        \* history: the last state report was that of an event that was killed

nodeVars == <<bytecode, breakpoints, bpreq, stepreq, loads, vm>>
histVars == <<issued, answered, excused, missed, killed>>
vars == <<nodeVars, queue, posted, up, robot, histVars>>

Requests == 1..MaxRequests

None == [id |-> 0]

PartNumbers == UNION {1..Parts[p] : p \in AllPrograms}

Pcs == {PcOf[p][l] : p \in AllPrograms, l \in Lines} \ {NoPc}

ASSUME RobotsAssumption ==
  /\ RobotsFound \subseteq [mode : {"Running", "Paused", "Stopped"}, bps : Seq(Pcs)]
  /\ \A found \in RobotsFound : Len(found.bps) <= MaxBreakpoints

-----------------------------------------------------------------------------
(* Messages and the queue of the endpoint *)

Msg(type) == [type |-> type]
Chunk(p, k) == [type |-> "SetBytecode", program |-> p, part |-> k]
BpSet(pc, r) == [type |-> "BreakpointSet", pc |-> pc, id |-> r]
BpClear(pc) == [type |-> "BreakpointClear", pc |-> pc]

\* Callbacks of a batch: answer the client, queue a load's answer, or settle breakpoints.
Callback(kind, r) == [kind |-> kind, id |-> r]
NoCallback == Callback("none", 0)

\* Mutant: a batch is put in front of what is waiting behind the write in progress.
QueuedBehindFirst(q, msgs, cb) ==
  LET new == [i \in 1..Len(msgs) |-> [msg |-> Reverse(msgs)[i], cb |-> IF i = 1 THEN cb ELSE NoCallback]]
  IN  IF q = <<>> THEN new ELSE <<Head(q)>> \o new \o Tail(q)

\* write_messages: the batch is appended in reverse, and the callback hangs on the first.
Queued(q, msgs, cb) ==
  q \o [i \in 1..Len(msgs) |->
          [msg |-> Reverse(msgs)[i], cb |-> IF i = 1 THEN cb ELSE NoCallback]]

\* The messages of sendBytecode; an empty bytecode is one message without words.
SendBytecode(p) == [k \in 1..Parts[p] |-> Chunk(p, k)]

-----------------------------------------------------------------------------
(* The robot: the debug messages of vm.c, with the program abstracted to its lines *)

State(b) == [type |-> "ExecutionState", state |-> b.mode, pc |-> b.pc]
Error(b) == [type |-> "RuntimeError", pc |-> b.pc]

Becomes(b, answers) == robot' = b /\ up' = up \o answers

\* The init event begins with the code of the first line that has any.
InitPc(p) == IF \A l \in Lines : PcOf[p][l] = NoPc THEN 0
             ELSE Min({PcOf[p][l] : l \in Lines} \ {NoPc})

\* The words of a SET_BYTECODE are stored.
Stored(m) ==
  IF m.type = "SetBytecode" /\ m.program # NoProgram
  THEN [robot EXCEPT !.code[m.part] = m.program] ELSE robot

\* SET_BYTECODE falls through to RESET, which starts the init event if there is one.
RobotResets(b) ==
  \E after \in {[b EXCEPT !.mode = "Stopped", !.steps = 0],
               [b EXCEPT !.mode = "Paused", !.pc = InitPc(b.code[1]), !.steps = 0]} :
    Becomes(after, <<State(after)>>)

RobotRuns ==
  LET after == [robot EXCEPT !.mode = "Running", !.steps = 0] IN Becomes(after, <<State(after)>>)

RobotPauses ==
  \E after \in IF robot.mode # "Running" THEN {robot}
               ELSE {[robot EXCEPT !.mode = mode, !.steps = 0] : mode \in {"Paused", "Stopped"}} :
    Becomes(after, <<State(after)>>)

\* STEP: nothing without an event; else the event goes on, on the same line or another,
\* ends, or fails.
RobotSteps ==
  \/ robot.mode # "Paused" /\ Becomes(robot, <<>>)
  \/ /\ robot.mode = "Paused" /\ robot.steps < MaxSteps
     /\ \E pc \in Pcs :
          LET after == [robot EXCEPT !.pc = pc, !.steps = @ + 1] IN Becomes(after, <<State(after)>>)
  \/ /\ robot.mode = "Paused"
     /\ LET after == [robot EXCEPT !.mode = "Stopped", !.steps = 0]
        IN  Becomes(after, <<State(after)>>) \/ Becomes(after, <<Error(after), State(after)>>)

RobotStops ==
  LET after == [robot EXCEPT !.mode = "Stopped", !.steps = 0] IN Becomes(after, <<State(after)>>)

\* Mutant: one breakpoint too many.
HasRoomForOneMore(bps) == Len(bps) <= MaxBreakpoints

HasRoom(bps) == Len(bps) < MaxBreakpoints

\* AsebaVMSetBreakpoint: the same address may be set twice.
RobotSetsBreakpoint(m) ==
  LET ok == HasRoom(robot.bps)
  IN  Becomes(IF ok THEN [robot EXCEPT !.bps = Append(@, m.pc)] ELSE robot,
              <<[type |-> "BreakpointSetResult", pc |-> m.pc, ok |-> ok, id |-> m.id]>>)

\* AsebaVMDebugMessage
RobotReceives(m) ==
  \/ m.type \in {"SetBytecode", "Reset"} /\ RobotResets(Stored(m))
  \/ m.type = "Run" /\ RobotRuns
  \/ m.type = "Pause" /\ RobotPauses
  \/ m.type = "Step" /\ RobotSteps
  \/ m.type = "Stop" /\ RobotStops
  \/ m.type = "GetExecutionState" /\ Becomes(robot, <<State(robot)>>)
  \/ m.type = "BreakpointSet" /\ RobotSetsBreakpoint(m)
  \/ m.type = "BreakpointClear" /\ Becomes([robot EXCEPT !.bps = RemoveFirst(@, m.pc)], <<>>)
  \/ m.type = "BreakpointClearAll" /\ Becomes([robot EXCEPT !.bps = <<>>], <<>>)
  \/ m.type = "Other" /\ Becomes(robot, <<>>)

\* AsebaVMRun: an event reaches a breakpoint, or an error ends it.
RobotReachesBreakpoint ==
  /\ robot.mode = "Running"
  /\ \E pc \in Range(robot.bps) :
       LET after == [robot EXCEPT !.mode = "Paused", !.pc = pc, !.steps = 0]
       IN  Becomes(after, <<State(after)>>)
  /\ UNCHANGED <<nodeVars, queue, posted, histVars>>

\* killSlowEvent: the event is abandoned and reported, the robot runs on.
RobotKillsEvent ==
  /\ robot.mode = "Running" /\ robot.faults < MaxFaults
  /\ LET after == [robot EXCEPT !.faults = @ + 1]
     IN  Becomes(after, <<[type |-> "EventExecutionKilled", pc |-> after.pc]>>)
  /\ UNCHANGED <<nodeVars, queue, posted, histVars>>

\* AsebaVMSetupEvent, of a robot that is step by step and has no event: the new one waits.
\* Its code, like that of the init event, is taken to begin with the first line that has any.
RobotSetsUpEvent ==
  /\ robot.mode = "Stopped" /\ robot.faults < MaxFaults
  /\ LET after == [robot EXCEPT !.mode = "Paused", !.pc = InitPc(robot.code[1]), !.faults = @ + 1]
     IN  Becomes(after, <<State(after)>>)
  /\ UNCHANGED <<nodeVars, queue, posted, histVars>>

RobotFails ==
  /\ robot.mode = "Running" /\ robot.faults < MaxFaults
  /\ LET after == [robot EXCEPT !.mode = "Stopped", !.faults = @ + 1] IN Becomes(after, <<Error(after)>>)
  /\ UNCHANGED <<nodeVars, queue, posted, histVars>>

-----------------------------------------------------------------------------
\* handle_write: the robot has the message; its callback is called or posted.
HandleWrite ==
  /\ queue # <<>>
  /\ queue' = Tail(queue)
  /\ RobotReceives(Head(queue).msg)
  /\ LET cb == Head(queue).cb
     IN  /\ answered' = IF cb.kind = "answer" THEN [answered EXCEPT ![cb.id] = @ + 1] ELSE answered
         /\ posted' = IF cb.kind \in {"load", "breakpoints"} THEN Append(posted, cb) ELSE posted
  /\ UNCHANGED <<nodeVars, issued, excused, missed, killed>>

-----------------------------------------------------------------------------
(* Requests of the client *)

This == issued + 1

\* The request This is made, and answered n times at once; those of "done" are answered.
Issue(n, done) ==
  /\ issued < MaxRequests
  /\ issued' = This
  /\ answered' = [r \in Requests |-> IF r = This THEN n ELSE answered[r] + (IF r \in done THEN 1 ELSE 0)]

Pending(request) == IF request = None THEN {} ELSE {request.id}

\* A program is given: the requests for breakpoints and to step are answered with an error.
Cancelled == Pending(bpreq) \cup Pending(stepreq)

Cancel == breakpoints' = {} /\ bpreq' = None /\ stepreq' = None

\* compile_and_send_program.  A program that does not compile leaves m_bytecode empty and is
\* sent all the same; a language that is not supported is answered at once.
CompileAndSend(p) ==
  /\ Issue(0, Cancelled)
  /\ Cancel
  /\ bytecode' = p
  /\ queue' = Queued(queue, SendBytecode(p), Callback("load", This))
  /\ UNCHANGED <<loads, vm, posted, up, robot, excused, missed, killed>>

CompileUnsupported ==
  /\ Issue(1, Cancelled)
  /\ Cancel
  /\ UNCHANGED <<bytecode, loads, vm, queue, posted, up, robot, excused, missed, killed>>

\* compile_and_save: m_bytecode is replaced, the robot gets nothing.
CompileAndSave(p) ==
  /\ Issue(1, Cancelled)
  /\ Cancel
  /\ bytecode' = p
  /\ UNCHANGED <<loads, vm, queue, posted, up, robot, excused, missed, killed>>

\* A language that is not supported is answered with an error and with the old bytecode.
SaveUnsupported ==
  /\ Issue(2, Cancelled)
  /\ Cancel
  /\ excused' = excused \cup {This}
  /\ UNCHANGED <<bytecode, loads, vm, queue, posted, up, robot, missed, killed>>

\* set_vm_execution_state, of the commands that are one message.
Command(type) ==
  /\ Issue(0, {})
  /\ queue' = Queued(queue, <<Msg(type)>>, Callback("answer", This))
  /\ UNCHANGED <<nodeVars, posted, up, robot, excused, missed, killed>>

\* Mutant: Stop is given the callback too.
StopAnswersTwice(q, p, r) ==
  LET loaded == Queued(q, SendBytecode(p), NoCallback)
      run    == Queued(loaded, <<Msg("Run")>>, Callback("answer", r))
  IN  Queued(run, <<Msg("Stop")>>, Callback("answer", r))

\* The callback is moved into the first call: the second one gets an empty one.
StopMessages(q, p, r) ==
  LET loaded == Queued(q, SendBytecode(p), NoCallback)
      run    == Queued(loaded, <<Msg("Run")>>, Callback("answer", r))
  IN  Queued(run, <<Msg("Stop")>>, NoCallback)

\* The program does not compile for a robot without the variables of the motors.
StopCommand == IF HasMotors THEN StopProgram ELSE NoProgram

\* set_vm_execution_state, Stop: m_bytecode is replaced, breakpoints and requests stay.
Stop ==
  /\ Issue(0, {})
  /\ bytecode' = StopCommand
  /\ queue' = StopMessages(queue, StopCommand, This)
  /\ UNCHANGED <<breakpoints, bpreq, stepreq, loads, vm, posted, up, robot, excused, missed, killed>>

\* set_node_variables: one message for each variable.  With no variables nothing is written
\* and the callback is dropped.
SetVariables(n) ==
  /\ Issue(0, {})
  /\ queue' = Queued(queue, [i \in 1..n |-> Msg("Other")], Callback("answer", This))
  /\ excused' = IF n = 0 THEN excused \cup {This} ELSE excused
  /\ UNCHANGED <<nodeVars, posted, up, robot, missed, killed>>

\* ... with a variable that is unknown, or a value it cannot have: an error, and no message.
SetVariablesRefused ==
  /\ Issue(1, {})
  /\ UNCHANGED <<nodeVars, queue, posted, up, robot, excused, missed, killed>>

\* group::emit_events: the callback is called when its last copy is gone.
EmitEvents(n) ==
  /\ Issue(IF n = 0 THEN 1 ELSE 0, {})
  /\ queue' = Queued(queue, [i \in 1..n |-> Msg("Other")], Callback("answer", This))
  /\ UNCHANGED <<nodeVars, posted, up, robot, excused, missed, killed>>

\* group::emit_events, with an event that is unknown: the client gets the error, and the
\* acknowledgement of the deleter of the callback.
EmitRefused ==
  /\ Issue(2, {})
  /\ excused' = excused \cup {This}
  /\ UNCHANGED <<nodeVars, queue, posted, up, robot, missed, killed>>

-----------------------------------------------------------------------------
(* Stepping to the next line *)

\* Mutant: a robot that is not paused leaves the request waiting.
StepOverWaiting(state) == FALSE

\* The request ends when the robot is not paused.
StepOver(state) == state # "Paused"

\* handle_step_request, for the request s and what is known of the robot: the request that
\* remains, the requests answered, the messages sent.
HandleStep(s, known) ==
  IF s = None THEN [request |-> None, done |-> {}, sent |-> <<>>]
  ELSE IF StepOver(known.state) \/ (known.state = "Paused" /\ known.line # s.line)
       THEN [request |-> None, done |-> {s.id}, sent |-> <<>>]
       ELSE [request |-> s, done |-> {}, sent |-> <<Msg("Step")>>]

StepToNextLine ==
  LET h == HandleStep([id |-> This, line |-> vm.line], vm)
  IN  /\ Issue(IF This \in h.done THEN 1 ELSE 0, Pending(stepreq))
      /\ stepreq' = h.request
      /\ queue' = Queued(queue, h.sent, NoCallback)
      /\ UNCHANGED <<bytecode, breakpoints, bpreq, loads, vm, posted, up, robot, excused, missed, killed>>

-----------------------------------------------------------------------------
(* Breakpoints *)

\* The lines that have to be sent: not believed to be set, and with code.
Fresh(want) == {l \in want \ breakpoints : PcOf[bytecode][l] # NoPc}

Stale(want) == {l \in breakpoints \ want : PcOf[bytecode][l] # NoPc}

\* The addresses of lines told to be set which the pending request was refused already: its
\* client gets no answer of it, and the next request is told what was asked, not what is set.
Overlooked(told) ==
  IF bpreq = None THEN {}
  ELSE {PcOf[bytecode][l] : l \in told \ (bpreq.set \cup {e.line : e \in bpreq.pending})} \ {NoPc}

\* set_breakpoints
SetBreakpoints(want) ==
  LET told == want \cap breakpoints
      pending == {[pc |-> PcOf[bytecode][l], line |-> l] : l \in Fresh(want)}
  IN  \E set \in SetToSeqs(Fresh(want)), clear \in SetToSeqs(Stale(want)) :
        LET msgs == IF want = {} THEN <<Msg("BreakpointClearAll")>>
                    ELSE [i \in DOMAIN set |-> BpSet(PcOf[bytecode][set[i]], This)]
                         \o [i \in DOMAIN clear |-> BpClear(PcOf[bytecode][clear[i]])]
        IN  /\ Issue(IF msgs = <<>> THEN 1 ELSE 0, Pending(bpreq))
            /\ breakpoints' = IF msgs = <<>> THEN told ELSE want
            /\ bpreq' = IF msgs = <<>> THEN None
                        ELSE [id |-> This, pending |-> pending, set |-> told]
            /\ queue' = Queued(queue, msgs, Callback("breakpoints", This))
            /\ missed' = missed \cup Overlooked(told)
            /\ UNCHANGED <<bytecode, stepreq, loads, vm, posted, up, robot, excused, killed>>

\* A posted callback runs: that of a load waits for the next execution state, that of
\* breakpoints answers if no answer of the robot is pending and no one has answered.
RunPosted ==
  /\ posted # <<>>
  /\ posted' = Tail(posted)
  /\ LET cb == Head(posted)
         settles == cb.kind = "breakpoints" /\ bpreq # None /\ bpreq.id = cb.id /\ bpreq.pending = {}
     IN  /\ loads' = IF cb.kind = "load" THEN Append(loads, cb.id) ELSE loads
         /\ breakpoints' = IF settles THEN bpreq.set ELSE breakpoints
         /\ bpreq' = IF settles THEN None ELSE bpreq
         /\ answered' = IF settles THEN [answered EXCEPT ![cb.id] = @ + 1] ELSE answered
  /\ UNCHANGED <<bytecode, stepreq, vm, queue, up, robot, issued, excused, missed, killed>>

-----------------------------------------------------------------------------
(* Messages of the robot *)

LineFromPc(p, pc) ==
  IF \E l \in Lines : PcOf[p][l] = pc THEN CHOOSE l \in Lines : PcOf[p][l] = pc ELSE 0

Received(types) == up # <<>> /\ Head(up).type \in types /\ up' = Tail(up)

\* on_execution_state_message: answers the loads, then the step request.
OnExecutionState ==
  /\ Received({"ExecutionState"})
  /\ vm' = [state |-> Head(up).state, pc |-> Head(up).pc, line |-> LineFromPc(bytecode, Head(up).pc)]
  /\ killed' = FALSE
  /\ loads' = <<>>
  /\ LET h == HandleStep(stepreq, vm')
     IN  /\ stepreq' = h.request
         /\ queue' = Queued(queue, h.sent, NoCallback)
         /\ answered' = [r \in Requests |->
                           answered[r] + (IF r \in Range(loads) \cup h.done THEN 1 ELSE 0)]
  /\ UNCHANGED <<bytecode, breakpoints, bpreq, posted, robot, issued, excused, missed>>

\* Mutant: the state is not changed.
StateAfterErrorKept(known, pc) == [known EXCEPT !.pc = pc]

StateAfterError(known, pc) ==
  [state |-> "Stopped", pc |-> pc, line |-> LineFromPc(bytecode, pc)]

\* on_vm_runtime_error
OnRuntimeError ==
  /\ Received({"RuntimeError", "EventExecutionKilled"})
  /\ answered' = [r \in Requests |-> answered[r] + (IF r \in Pending(stepreq) THEN 1 ELSE 0)]
  /\ stepreq' = None
  /\ vm' = StateAfterError(vm, Head(up).pc)
  /\ killed' = (Head(up).type = "EventExecutionKilled")
  /\ UNCHANGED <<bytecode, breakpoints, bpreq, loads, queue, posted, robot, issued, excused, missed>>

\* Mutant: a breakpoint is taken as set whatever the robot answers.
SetByResultAlways(set, line, ok) == set \cup {line}

SetByResult(set, line, ok) == IF ok THEN set \cup {line} ELSE set

\* on_breakpoint_set_result
OnBreakpointSetResult ==
  /\ Received({"BreakpointSetResult"})
  /\ LET res   == Head(up)
         match == IF bpreq = None THEN {} ELSE {e \in bpreq.pending : e.pc = res.pc}
     IN  /\ missed' = IF ~res.ok /\ (match = {} \/ bpreq.id # res.id)
                      THEN missed \cup {res.pc} ELSE missed
         /\ IF match = {}
            THEN UNCHANGED <<breakpoints, bpreq, answered>>
            ELSE LET set  == SetByResult(bpreq.set, (CHOOSE e \in match : TRUE).line, res.ok)
                     left == bpreq.pending \ match
                 IN  /\ bpreq' = IF left = {} THEN None
                                 ELSE [bpreq EXCEPT !.pending = left, !.set = set]
                     /\ breakpoints' = IF left = {} THEN set ELSE breakpoints
                     /\ answered' = IF left = {} THEN [answered EXCEPT ![bpreq.id] = @ + 1]
                                    ELSE answered
  /\ UNCHANGED <<bytecode, stepreq, loads, vm, queue, posted, robot, issued, excused, killed>>

\* schedule_execution_state_update, every second: one question is on its way at a time.
Poll ==
  /\ ~\E i \in DOMAIN queue : queue[i].msg.type = "GetExecutionState"
  /\ up = <<>> /\ Len(queue) <= MaxBacklog
  /\ queue' = Queued(queue, <<Msg("GetExecutionState")>>, NoCallback)
  /\ UNCHANGED <<nodeVars, posted, up, robot, histVars>>

-----------------------------------------------------------------------------
\* on_description_received has asked for the execution state.
Init ==
  /\ bytecode = NoProgram /\ breakpoints = {} /\ bpreq = None /\ stepreq = None /\ loads = <<>>
  /\ vm = [state |-> "Stopped", pc |-> 0, line |-> 0]
  /\ queue = Queued(<<>>, <<Msg("GetExecutionState")>>, NoCallback)
  /\ posted = <<>> /\ up = <<>>
  /\ \E found \in RobotsFound :
       robot = [code |-> [k \in PartNumbers |-> NoProgram], mode |-> found.mode, pc |-> 0,
                bps |-> found.bps, steps |-> 0, faults |-> 0]
  /\ issued = 0 /\ answered = [r \in Requests |-> 0] /\ excused = {} /\ missed = {} /\ killed = FALSE

Request ==
  \/ \E p \in Programs \cup {NoProgram} : CompileAndSend(p) \/ CompileAndSave(p)
  \/ CompileUnsupported
  \/ \E type \in {"Run", "Reset", "Pause", "Step", "Other"} : Command(type)
  \/ Stop
  \/ StepToNextLine
  \/ \E want \in SUBSET Lines : SetBreakpoints(want)
  \/ \E n \in 0..1 : SetVariables(n)
  \/ SaveUnsupported \/ EmitRefused \/ SetVariablesRefused
  \/ \E n \in 0..1 : EmitEvents(n)

Receive == OnExecutionState \/ OnRuntimeError \/ OnBreakpointSetResult

Next ==
  \/ Request \/ HandleWrite \/ RunPosted \/ Receive \/ Poll
  \/ RobotReachesBreakpoint \/ RobotSetsUpEvent \/ RobotFails \/ RobotKillsEvent

Spec == Init /\ [][Next]_vars

\* Writes are completed, posted callbacks run, timers expire, and the robot and the
\* stream from it do not stop.
FairSpec ==
  /\ Spec
  /\ WF_vars(HandleWrite) /\ WF_vars(RunPosted) /\ WF_vars(Receive) /\ WF_vars(Poll)

-----------------------------------------------------------------------------
Callbacks == [kind : {"none", "answer", "load", "breakpoints"}, id : 0..MaxRequests]

TypeOK ==
  /\ bytecode \in AllPrograms
  /\ breakpoints \subseteq Lines
  /\ bpreq = None \/ (bpreq.id \in Requests /\ bpreq.set \subseteq Lines)
  /\ stepreq = None \/ stepreq \in [id : Requests, line : Lines \cup {0}]
  /\ loads \in Seq(Requests)
  /\ vm \in [state : {"Running", "Paused", "Stopped"}, pc : Pcs \cup {0}, line : Lines \cup {0}]
  /\ \A i \in DOMAIN queue : queue[i].cb \in Callbacks
  /\ posted \in Seq(Callbacks)
  /\ robot.code \in [PartNumbers -> AllPrograms] /\ robot.bps \in Seq(Pcs)
  /\ Len(robot.bps) <= MaxBreakpoints
  /\ issued \in 0..MaxRequests /\ answered \in [Requests -> Nat]
  /\ excused \subseteq Requests /\ missed \subseteq Pcs /\ killed \in BOOLEAN

\* Nothing is on its way between the node and the robot.
Quiet == queue = <<>> /\ posted = <<>> /\ up = <<>>

\* No request is answered twice, whatever overtakes it: a result of the robot and the
\* callback of the write, a step and the load that cancels it, Run and Stop that share one
\* callback.  Two refusals are known to be answered twice (EmitRefused, SaveUnsupported).
AnsweredOnce == \A r \in Requests \ excused : answered[r] <= 1

\* When all messages have arrived, a breakpoint that set_breakpoints will not send again
\* because it is believed to be set is set in the robot, unless the robot's refusal came
\* for a request that had been overtaken, or that was overtaken before its other results
\* came.  Stop leaves breakpoints of another program behind.
BelievedIsSet ==
  (Quiet /\ bpreq = None /\ bytecode \in Programs) =>
    \A l \in breakpoints :
      PcOf[bytecode][l] # NoPc => PcOf[bytecode][l] \in Range(robot.bps) \cup missed

\* A robot that runs has one whole program: no Run gets between the messages of a load.
RunsWholeProgram ==
  robot.mode = "Running" =>
    \/ \A k \in PartNumbers : robot.code[k] = NoProgram
    \/ \E p \in AllPrograms \ {NoProgram} : \A k \in 1..Parts[p] : robot.code[k] = p

\* When all messages have arrived, the node knows whether the robot runs, and where it is
\* paused: no change of the robot goes unreported and none is applied out of order.  The
\* report of a killed event is taken for the end of the program until the next poll.
StateKnown ==
  (Quiet /\ ~killed) =>
    /\ vm.state = robot.mode
    /\ robot.mode # "Running" => vm.pc = robot.pc

\* Every request is answered in the end, but for one that sets no variables: whatever its
\* answer waits for (a write, results of the robot, a change of its state) comes.
AllAnswered == <>[](\A r \in 1..issued : answered[r] > 0 \/ r \in excused)
=============================================================================
