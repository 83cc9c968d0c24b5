# Verification of Aseba and the Thymio Device Manager

Aseba runs small event-driven programs on robots. A program is compiled on a host, sent over
a link to the robot and executed there by a virtual machine; the Thymio Device Manager (TDM)
on the host finds the robots, keeps what it knows of them, and lets several client
applications use them. This project models the parts of that system in which order, loss and
interruption matter, checks them with TLC and proves some of their properties with TLAPS.

`PROJECT.json` maps every definition to the lines it stands for, and lists the components,
the runs, the hazards and the theorems.

## 1. The system

| Component | State it keeps | Operations | What makes it hard |
|---|---|---|---|
| Virtual machine (`vm/vm.c`) | bytecode, variables, stack, pc, flags, breakpoints | one step per instruction; run loops; debug messages (SET_BYTECODE, RESET, RUN, PAUSE, STEP, STOP, breakpoints, SET_VARIABLES); events | an event may be abandoned between any two instructions; instructions modify themselves (`when`); a program arrives in pieces |
| VM glue (`transport/buffer/vm-buffer.c`, playground glue) | packet buffer | dispatch of incoming messages; description; variables and changed variables | events dropped while stepping; packets cut at a size limit |
| Endpoint write queue (`aseba_endpoint.h`) | `m_msg_queue`, one write in progress | `write_messages`, `write_next`, `handle_write` | whether to start a write is deduced from the length of the queue; errors; callbacks |
| Endpoint (`aseba_endpoint.cpp`) | nodes by native id, pings, health check | read, ping, disconnect silent nodes, reboot, upgrade | timers racing messages |
| Node (`aseba_node.cpp`) | status, lock, description, variables, breakpoints, pending requests | discovery; compile and load; execution state; breakpoints; variables | replies matched to requests by order only; polling messages look like replies |
| Registry (`aseba_node_registery.cpp`) | node objects by id, groups | add, remove, change of id, status | two objects for one robot; an id that changes |
| Client session (`app_endpoint.h`) | protocol version, queue, locks, watched nodes | handshake, requests, notifications, pings | notifications posted and delivered late; life time held by handlers |
| Group (`group.cpp`) | endpoints, shared variables, events, scratchpads | emit, assign, watch | partial failure over several endpoints |
| JavaScript client (`js/src/thymio.ts`) | pending requests, node and group objects, flags, callbacks | requests as promises; messages of the server applied to its objects | answers overtake each other; objects mirror a server that changes meanwhile |
| Acceptors, wireless configurator, firmware upgrade | connected devices | OS notifications, boot loader protocol | device goes away in mid-operation |
| Compiler (`compiler/`) | tree, bytecode | parse, passes, emit, link | stack depth, addresses |
| Qt client library, Studio, VPL, playground | mirrors, user interface | | |

Interactions: a client's request arrives in its session, is applied to a node, becomes one or
several messages in the queue of the node's endpoint, and is answered by the callback of the
write or by a later message of the robot. Status changes go the other way: node, registry,
signal, a call posted to the strand of each session, the session's queue, the client. The TDM
has one `io_context` run by one thread: handlers are atomic, what interleaves are handlers.
The robot has one thread too: a message is handled, then `AsebaVMRun` is called.

The properties that make each part correct: the machine never leaves its arrays, never runs a
half-loaded program, and the debugger always knows where a paused machine stands; the queue
neither stalls nor writes twice at once nor reorders; no two clients drive one robot, a lock
ends with its session, clients are told the truth; a description is complete and in order in
spite of losses; every request is answered once, and what a node believes of its robot comes
true; a client that is accepted hears the reply to its handshake first and its session ends
with it; the library's nodes, groups and promises follow the server.

## 2. Modules

| Module | Models | Composes / used by |
|---|---|---|
| `AsebaVM` | `vm.c` with the dispatch of the glue | `MCAsebaVM` (programs), `AsebaVMProofs` |
| `CompiledPrograms` | what the compiler establishes of a program (`Compiler::verifyStackCalls`, `Compiler::link`) | hypothesis in `AsebaVMProofs`, evaluated on the programs of `MCAsebaVM` |
| `AsebaEndpoint` | the write queue | `MCAsebaEndpoint`, `AsebaEndpointProofs` |
| `NodeLock` | nodes, registry and sessions as far as locks and statuses go | `MCNodeLock`, `NodeLockProofs`, `NodeLockRefinement` |
| `ExclusiveUse` | abstract: what locks promise | implemented by `NodeLock` |
| `Discovery` | the description, host and robot with the lossy channel between them | `MCDiscovery`, `DiscoveryProofs` |
| `AppSession` | one client session | checked directly; `AppSessionProofs` |
| `NodeRequests` | the requests of a node with the endpoint's queue and the robot's side of them | `MCNodeRequests`, `NodeRequestsProofs`; the queue is that of `AsebaEndpoint`, the robot an abstraction of `AsebaVM` |
| `ThymioClient` | the JavaScript library and the session it talks to, with groups and watches | `MCThymioClient`, `ThymioClientProofs` |

Operators whose comment begins with "Mutant:" are plausible mistakes in the definition that
follows them. They are part of no specification: substituted for that definition, each makes
one property fail, which shows that the property depends on the code.

### AsebaVM

`vm` is `AsebaVMState`, plus `said` (the last message a debugger received) and `fault` (the
assertion that failed, or an access outside an array). Every assertion of `vm.c` is there, those
of instructions and those of the handlers of messages (a chunk outside the bytecode, a breakpoint
outside it, variables outside the array), and so are the accesses no assertion guards: the words
an EMIT sends and the packet buffer they fill, and the variables a native function is given. The
stack is a sequence. Bytecode words stay 16-bit numbers, because the code confuses instructions
with operands in one place (see findings); data are 16-bit two's complement. Each instruction is
an operator from a state to a set of states: a set because a shift by a distance out of range is
undefined in C and a native function is abstracted to "stores to some of the variables its
arguments cover, or fails" (`NativeArgs` says which words on the stack are addresses and sizes).
Messages are actions that run to their end (`Handle`), after which `run` is "pending"; `VMRun`,
`LoopStep`, `HitBreakpoint` and `LoopEnd` are the two loops of `AsebaVMRun`, one instruction per
step, so that the state between instructions is visible to the invariants. Messages are not
handled inside a loop, as in the code of the playground. `SetBytecode` includes the reset into
which the code falls through. `Spans` are the parts of the variables that clients read and write
(`GetVariables`, `SetVariables`). `Upload` stands for the client that hands a program to
`sendBytecode`; its chunks arrive in any order (the endpoint's queue reverses them) with other
messages between them, but RUN and STEP are not sent before all of them are out, since all clients
use one ordered queue per robot. `edge` and `loaded` are history.

### CompiledPrograms

The machine checks little of what it executes: an index against the size of its array, a
displacement against the bytecode space. The rest it leaves to the compiler, and `Verified(p, l)`
says what that is. A layout `l` gives each address at which an instruction begins the `callDepth`
of its event or subroutine, as `verifyStackCalls` computes it, and the operands on the stack
before it. At each such address (`Checks`) the operands are there, callDepth and operands fit the
stack, the instructions that may follow are in the layout with what this one leaves, a call is a
statement of its own and leads to a deeper subroutine, and variables, operators and native
functions exist; what an EMIT sends lies in the variables and fits the buffer. Of the operands a
layout also gives those it knows, the immediates on the stack (`known`): the compiler pushes the
addresses and sizes of a native function's arguments as constants, and they must lie in the
variables (`NativesKnown`). An element `a[i]` given to a native function, whose address is
computed (`LoadNativeArgNode`), has no layout. The entries of the vector table lead to events. The
layout covers what can be reached: a subroutine nobody calls is not in it. `Unremembered` excludes
words that `AsebaVMResetWhenFlags` would change (finding 1). `RequestsFit` says the same of
messages: breakpoints at addresses of the bytecode, variables that the robot's description names,
no more than a message holds, as the device manager sends them.

`verifyStackCalls` relies on `getStackDepth`, which in two cases says one word or more less than
what is used: for a store with a computed index (`a[i] = v`) it takes the maximum of value and
index (`tree-emit.cpp:83`), although the value is on the stack while the index is computed, and
for a native call (`tree-emit.cpp:443`) it adds to each argument the number of those before it,
although they are emitted last first. A program that such a store or call brings to the end of
the stack is let go, has no layout, and is outside the theorems; the assertion of
`ASEBA_ASSERT` builds would see it.

### AsebaEndpoint

`queue` is `m_msg_queue`; `writing` counts asynchronous writes (a number and not a flag, so
that two at once can be seen). `WriteMessages(b)` inserts a batch where the code inserts it:
the search for a place behind the last important message begins at `end()` and stops there at
once, so at the end; and each message goes in front of the one before, so in reverse. The
histories `calls`, `wire`, `failed` and `called` serve the properties. `UpgradeFirmware` sets
the flag that stops `write_next`.

### NodeLock

`fresh`/`attached` are the life of node objects, `registry` is `m_aseba_nodes`, `locked` the
`m_locked_nodes` of each session with weak pointers: `Alive` says whether `lock()` of the weak
pointer succeeds (the endpoint or a posted call still refers to the object). `box` is the sequence
of `do_node_changed` calls posted to a session. `OnDeviceInfo` contains all that
`handle_node_uuid_change` and `set_status` do. A session that ends unlocks its nodes in the order
of a hash map; `CloseApp` allows every order. A session's address may be used again by a later
session. Each node is alone on its endpoint.

`ExclusiveUse` says what remains of this for a client: robots appear and vanish, sessions open
and close, and a session drives a robot that it took while it was present and driven by nobody,
until it gives it back, loses it, or one of the two goes. `NodeLock` implements it
(`ImplementsExclusiveUse`) under this mapping: a robot is present when an attached object has
told its persistent id (`Present`), and a session drives it when `get_locked_node` gives the
session that object (`Drives`). A posted disconnection that erases a lock is a `Lose`, a
duplicate taken from its endpoint too; a disconnection is a `Vanish`, all else that happens
to objects, ids, timers and posted calls is stuttering.

### Discovery

Both directions are sequences, from whose front messages are delivered or lost (`MaxLost`); a
message that finds the channel full is dropped too (`Sent`). A fragment stands for its name,
which is how the code recognises duplicates. `fragmented` chooses between the protocol of
version 8 (fragments on request) and the older one (all at once). `fired` separates the expiry
of the timer from its handler: cancelling does not recall a queued handler. The GetDescription
broadcast of the first USB ping is not answered by this version of the virtual machine (it
answers protocol versions up to 4 only, `vm.c`), hence is not in the model.

### AppSession

`out` is `m_queue` with the number of writes in progress. The session is `Alive` as long as a
handler with a strong reference is outstanding; when none is, its destructor has run. Status
changes are posted, then written; requests are answered at once. `early` records that
something was queued before the handshake. A handshake is accepted (`HandleHandshake`, which
arms the timer of the pings: `Accepted`), refused for want of the right password
(`HandleRefused`), of an unknown version (`HandleIncompatible`) or no handshake at all
(`HandleIntruder`). A client without the password is told nothing and read no more, but the
version is set before the password is looked at (`app_endpoint.h:1012`): as long as changes
that were posted keep the session alive, they are written to it. The reply to an unknown version
is queued and never written, since the version stays 0. The strong reference that the callback
of a firmware upgrade holds is left out of `Alive`: the session of such a client ends when the
upgrade does.

### NodeRequests

The handlers of `aseba_node.cpp` that a locked node's client calls, up to `MaxRequests` of them
in any order and without waiting for answers. `queue` is the endpoint's queue: a batch is
appended in reverse and its callback hangs on the message written first, as in `AsebaEndpoint`.
The robot takes a message when its write completes (`HandleWrite`): nothing else reaches it, so
a delay on the way out cannot be told from one on the way back (`up`). The robot keeps of
`AsebaVM` what the host can see: which program each part of its bytecode belongs to, mode,
address, breakpoints; a reset finds an init event or not, a step stays on its line, moves, ends
or fails, a running program reaches a breakpoint, fails or is killed, and a robot that is
stopped pauses when an event comes (`RobotSetsUpEvent`). Programs are abstracted
to the address of each line (`PcOf`). `NoProgram` is an empty `m_bytecode`: what a program that
does not compile leaves, and what is then sent, as one message without words.

A callback that only answers the client counts as called when it is posted; those that change the
node (`posted`) run later, as in the code. `excused` collects the requests that the code is known
not to answer exactly once: one that sets no variables (never answered), an event that is refused
and a save in an unsupported language (answered twice). So those are not caught by `AnsweredOnce`
and `AllAnswered`, which show that there are no others. In the same way `missed` collects the
addresses that the robot refused without any client hearing of it. That happens in two ways, since
`m_breakpoints` is set to what is asked for (line 545) before the robot has answered: the refusal
comes for a request that has already been replaced, or it has come while other results of the
request were still missing, and then the request is replaced (`Overlooked`). In both, the later
request is told that the line is set, and does not send it. A robot may be found with breakpoints
of an earlier session (`RobotsFound`), which the node does not know of and which fill its table.
`killed` says that the last report was that of a killed event, which the node takes for the end of
the program until the next poll. Loss and disconnection in the middle of a request are left out;
they are in `Discovery` and `NodeLock`.

### ThymioClient

The library is an event loop: calls of the application and messages are atomic. `requests` is the
table of pending ids, `promise` what the application holds; `nodes` and `groups` are the objects,
where a Group object lives as long as a node refers to it. The server's side is the session's
`watch_node_or_group` with its connections (`watch`), and the signals of registry and groups,
which are posted to the strand (`strand`) before they are written (`down`). `conn` counts the
objects a node has had, so that a watch of an earlier one can be told from one of its successor,
and `since` remembers the first of them since the clients were last told that the node had gone. A
node may also get another object without a word (`Connect` of a registered node):
`remove_duplicated_node` forgets the old object before it disconnects it. The session then stays
connected to the old one, and the client's variables stop until it asks again; `WatchedIsServed`
promises no more than that. Values are versions; `Own` marks the variables of a robot. The answers
of devices come in any order (`later`), those of the server in order. A device's answer may come
twice (`RefuseLater`: an emit that is refused, a program that cannot be saved) or never
(`DropLater`: an empty `setVariables`, a write that fails), as in `NodeRequests` and
`AsebaEndpoint`. If the first of two answers frees an id and the id is drawn again before the
second has come, the second settles the wrong promise: `redrawn` marks the promises this may
happen to, and the properties except them. Ids are drawn at random from 32 bits, so it is
improbable in the library; with 2 ids it happens all the time.

Watching a group twice (watch true, false, true) makes the session stop watching it while the
flags on the client say otherwise (`SharedWatch`). This is in the model, and no property
forbids it: `SharedCurrent` speaks of the groups the session does watch.

What the model makes visible besides the properties: the promise of `asebaVMDescription` is
never settled, since the list it fills was never made (`thymio.ts:1357`); promises pending when
the connection closes stay so; changes of nodes are ignored until `onNodesChanged` is set.

## 3. Runs

| Run | Bounds | Shows |
|---|---|---|
| `vm` | 34 words of bytecode: a `when`, a subroutine that divides, array accesses in and out of bounds, a native call, an emitted event, an endless loop; 2 chunks; 3 words of stack, exactly what the program needs; 1 breakpoint; 12 steps, so that the loop is killed | `TypeOK`, `NoFault`, `PausedIsReported`, `IdleIsSettled`, `HalfLoadedNeverRuns`, `CodeIntact`, `WhenOnRisingEdge`, `RunsEnd` |
| `vm_reset_code` | a program with a large constant | `CodeIntact` is **violated** |
| `endpoint` | batches of 0 to 3 messages, any order, errors, upgrade | `OneWriteAtATime`, `NeverStalled`, `BatchesInOrder`, `AllWritten` |
| `lock` | a robot and a simulated node, 2 sessions, 1 question, 3 posted changes | `OwnerHolds`, `ClientsAgree` |
| `lock_replaced` | two objects for one robot, 2 sessions, 2 questions, 4 posted changes | `HolderOwns`, `OneObjectPerRobot`, `ImplementsExclusiveUse` |
| `lock_kept` | one robot, 2 questions | `OwnerHolds` is **violated** |
| `discovery` | 4 fragments of 3 kinds, 2 losses, 5 messages in flight | `DescriptionIntact`, `StoredInOrder`, `Completes` |
| `session` | 3 status changes, 2 requests, 2 pings | `HandshakeFirst`, `HandshakeAnswered`, `SessionEnds` |
| `session_stalled` | 1 of each | `Flushed` is **violated** |
| `requests` | 3 requests of any kind, programs of 2 and 1 messages, 2 lines, a robot found stopped with room for 2 breakpoints and 1 of an earlier session, 1 step per event, 1 fault or event set up while stopped, a poll that finds the queue empty | `AnsweredOnce`, `BelievedIsSet`, `RunsWholeProgram`, `StateKnown`, `AllAnswered` |
| `client` | 2 nodes, 2 groups, 2 requests with 2 ids, 2 changes on the server (beginning to listen late is one, and so are a second answer and a dropped one), 4 messages on their way | `NodesAgree`, `OneObjectPerGroup`, `SharedCurrent`, `WatchedIsServed`, `AnswersMeetTheirRequests`, `NoneForgotten` |
| `client_own_variables` | the same | `GroupVariablesAreShared` is **violated** |

Why the bounds are enough. The machine's control does not depend on data beyond the cases the
programs have (condition true and false, divisor zero and not, index in and out); the stack is as
small as the programs allow, so one word left behind overflows it. The queue's decisions depend on
empty, one, or more messages, and on a batch being shorter or longer than what is queued: three
non-empty batches and an empty one reach all. Locks need two clients and two objects to conflict;
in `lock_replaced` the history of what clients were told is left out of the states compared
(`MCDriving`), which is sound since no action reads it. Two losses allow a question and the
repetition of it to be lost, and five messages in flight a late answer to each of several
repetitions. Three status changes can be before, in, and after the handshake. A request of
`requests` can be overtaken by a second while a third changes the program; with one breakpoint
left by an earlier session and room for one more, the robot takes the first of two lines and
refuses the other, or finds the one it has asked for again; a program of two messages can be cut
by another. In `client` two nodes can share a group or not, and two changes let a node leave and
come back, or change its group twice, while the full list is on its way; answers can overtake with
two requests, and an id can be drawn again while a second answer under it is on its way.

What needs a hypothesis: `OwnerHolds` and `ClientsAgree` hold in `lock` because the robot
answers once and is not replaced (`Once`). With a second answer they fail, which is the finding
of `lock_kept`; they also fail when a robot comes back as another object, and is locked, while
a session has yet to hear that it had gone, which takes four posted changes. Whenever answers
come in turn, which excludes just these two, both are proved for any bounds (section 5).
`HolderOwns` holds without any hypothesis.

Deadlock is not checked where the system may rest: a queue with nothing to write, all bounds
used up, a session that has ended. The virtual machine can always be sent a message, so `vm`
checks it, and so does `requests`, where the node polls its robot.

### Fairness

* `AsebaVM`: weak fairness of the run loop alone. The thread that calls `AsebaVMRun` is not
  suspended for ever; nothing is assumed of clients.
* `AsebaEndpoint`: a write in progress is completed or fails; Asio guarantees one of the two.
* `Discovery`: the robot answers what it receives, delivery happens unless the message is
  lost (a finite number of times), timers expire, queued handlers run.
* `AppSession`: posted handlers run, a write completes, a read on a closed connection fails.
  Nothing is assumed of the client, not even that it sends a handshake.
* `NodeRequests`: writes complete, posted callbacks run, what the robot sends is received, the
  polling timer expires. Nothing is assumed of the client, nor that a program reaches a
  breakpoint, fails or ends; a step of a paused event is one of boundedly many (`MaxSteps`),
  since an event that never left its line would keep `step_to_next_line` waiting.

## 4. Findings

Four runs show a statement of the repository that the code does not keep; details and
quotations are in `PROJECT.json`.

1. `vm.c:653`: the walk that resets `when` flags starts at `bytecode[0] * 2 + 1` although
   `bytecode[0]` already counts words; it may take an operand for a branch and change it.
2. `aseba_node_registery.cpp:52`: a second answer with the persistent id makes the owner of a
   node lose its lock while the node still believes in it.
3. `app_endpoint.h:178`: a message queued before the handshake is handled stops the queue.
4. `thymio.ts:1043`: the variables of a robot are stored as the shared variables of its group
   if its callback was removed while they were on their way.

## 5. Proofs

All theorems hold for every value of the constants, under the assumptions named in the modules:
sizes and bounds are natural numbers, lines with code are at different addresses (a word of
bytecode has one line, `RequestsAssumption`), distinguished values are not members of their sets, the
sets of lines, nodes and groups are finite, programs, arguments of events and results of native
functions are made of 16-bit words and a native function takes a number of arguments
(`SizesAssumption`), and there is room for one message on its way to a client (`MaxPosted`).

* `AsebaVMProofs`: `PausedIsReportedAlways`, `IdleIsSettledAlways` and `HalfLoadedNeverRunsAlways`
  first. The lemma `StepOutcome` says that an instruction leaves flags and last message alone, or
  ends the event, or stops with an error and says so; so the proof does not look at values. The
  three properties need each other and two facts about the loop (`LoopMode`: step by step inside
  the loop only after an error; `LoopLive`: an active event inside the loop has "running" set and
  steps left, otherwise `LoopEnd` would leave it active). `WhenOnRisingEdgeAlways`, an action
  property: as long as nothing has failed, an address whose condition held at its last evaluation
  has its was-true bit set (`Remembered`). Only a conditional branch writes bytecode
  (`StepKeepsCode`), and it writes its own word (`BranchOutcome`); a reset forgets bits and
  history together. The proof does not assume that branches lie where the compiler puts them: a
  jump may run into operands. A "when" with an empty body (displacement 2) is excluded, since
  there entering and skipping the body are the same step. `TypeOKAlways` goes through every
  operator: that the bitwise ones stay within 16 bits (`BitsMakeValues`), that the remainder does
  (`RemainderIsValue`), that division truncates. `NoFaultOfCompiled` and `CodeIntactOfCompiled`
  assume that the programs are such as the compiler lets go (`Compiled`) and that messages name
  what the robot has (`RequestsFit`); TLC evaluates on `MCWhole` that the first holds of it, and
  that it does not of the program of `vm_reset_code` (`MCWholeIsVerified`, `MCLargeIsNot`), and
  that the second holds in `vm` (`MCRequestsFit`). Without `RequestsFit` an assertion can fail:
  the machine trusts who debugs it. While an event is active (`InPlace`) the pc is in the layout,
  and the stack holds the return addresses of the calls in progress, none nested deeper than the
  layout's level allows (`Frames`, `Within`), then the operands of the layout; so each instruction
  finds what it takes, and room for what it leaves (`StepInPlace`); the operands the layout knows
  are on the stack as it says (`Recalled`), so what a native function is given lies in the
  variables. What is held differs from the program only in was-true bits (`Intact`), which change
  neither the instruction nor its operands (`Fetched`). An event may be abandoned anywhere,
  because the next one starts with an empty stack, at an entry of the table, which no instruction
  can change (`EventAddresses`). While a program arrives, the chunks that have come are all there
  (`Arrived`), in whatever order and with whatever resets between; nothing runs until the last has
  come (`HalfLoadedNeverRuns`), and the chunks cover the program (`ChunksCover`). The invariant
  (`CodeInv`) was checked with TLC on the program of `vm` before it was proved.
* `AsebaEndpointProofs`: `OneWriteAtATimeAlways`, `NeverStalledAlways`, proved together: a
  call that finds messages waiting relies on a handler to come, a handler relies on having
  only its own message in progress. `TypeOKAlways` follows from them. `BatchesInOrderAlways`:
  what is queued is sorted by the turn of its call, what is on the wire or called back is of no
  later turn than what is queued (`InOrder`), and a call has one turn (`CallsOnce`).
* `NodeLockProofs`: `HolderOwnsAlways`. An entry of `m_locked_nodes` whose weak pointer can be
  locked belongs to the node's owner (`LiveEntryOwns`). To be inductive it needs that a node has
  its final id before it can be locked (`LockedIsSettled`), and that registry and locks name nodes
  by that id (`RegisteredUnderUuid`, `LockedUnderUuid`): otherwise an unlock by id, or a
  disconnection under another id, would leave an entry behind when another session takes the node.
  Objects not created yet are known to nobody (`FreshUnknown`). `TypeOKAlways` needs in addition
  that questions, answers and posted calls stay within their bounds (`BInv`).
* `NodeLockRefinement`: `OneObjectPerRobotAlways`, since an attached object is the registered one
  of its id (`AttachedIsRegistered`), and the refinement: `Implements` shows
  `ImplementsExclusiveUse`, step by step. What a registration or a lock removes is expressed
  through `Registered` and `Entries`, the images of `Present` and `Drives` under the invariant;
  each handler is then one of `Appear`, `Vanish`, `Take`, `Give`, `Lose`, `Open`, `Close` or
  stuttering. It needs that a session that is closed holds nothing (`ClosedHoldsNothing`), or a
  new session at its address would begin with locks. `OwnerHoldsInTurn` and `ClientsAgreeInTurn`
  are about the behaviours in which answers come in turn (`AnswersInTurn`): an object tells once
  which robot it stands for, and when it does, no session has yet to hear of an earlier object of
  that robot. Robots may still go and come back any number of times, questions and answers be
  lost, and sessions be late in everything else. Then no loss that waits to be told names an
  attached object (`NoLossWaits`), and no object that sessions have yet to hear of has the id of
  an attached one (`GoneIsApart`), so a change that is told late removes no entry of an owner
  (`OwnerHasEntry`), and the weak pointer a session holds under the id of a node is that node or
  nobody (`ShownIsSeen`). The last change that waits in a session's box under the id of a node
  tells the status the node has, and where none waits the client sees it (`Agrees`, `VInv`). Each
  part was checked with TLC on two objects of one robot, under the same hypothesis, before it was
  proved. `InTurnOnce` shows that answers are in turn where each robot has one object which asks
  it once, as in `lock` (`OwnerHoldsOnce`, `ClientsAgreeOnce`).
* `DiscoveryProofs`: `TypeOKAlways`, `StoredInOrderAlways`, `DescriptionIntactAlways`. With
  fragments asked for one by one, the number of fragments stored (`Total`) is the next one asked
  for; those stored of a kind are the fragments of that kind below it, each at its rank
  (`Prefix`), and no question or answer on its way goes beyond it. A head that comes late finds
  nothing stored, as heads go before fragments in both directions (`HeadsFirst`): this is why the
  repeated head, which replaces the lists and leaves the counters, does no harm. In the older
  protocol everything is asked once and comes in ascending order with gaps (`Increasing`); if as
  many have come as the head announced, there is no gap (an injection of a finite set into
  itself is onto).
* `AppSessionProofs`: `TypeOKAlways` (one write at a time) and `HandshakeFirstAlways`. Nothing is
  written before the handshake; once it is accepted, as long as the client has heard nothing, the
  queue is not empty and what is being written is the reply, or nothing is being written because
  something was queued before. A client that is refused has nothing but changes in its queue.
* `NodeRequestsProofs`: `TypeOKAlways`; `RunsWholeProgramAlways`: the chunks of a load follow
  one another in the queue down to the first (`Ordered`), while some have been written the robot is not
  running and has the rest (`LoadInv`), as each chunk resets it; `StateKnownAlways`: the last
  report on its way tells the robot's state, and if there is none the node knows it, was told
  of a killed event, or has a question in its queue (`KnowInv`); `AnsweredOnceAlways`: an
  unanswered request waits in at most one of five places, the queue's callbacks, the posted
  ones, the loads, the breakpoint request and the step request (`Apart`), and one that waits has
  not been answered; `BelievedIsSetAlways`: for each line that is in `m_breakpoints`, or that the
  pending request has told or waits for, the last message in the queue about its address
  sets it, or none is about it and the robot has it, or a refusal of it is on its way or counted
  (`Holds`, `BelieveInv`). Lines are at different addresses, so nothing else in a batch undoes
  its messages, and a refusal takes the right line out of the request.
* `ThymioClientProofs`: `TypeOKAlways`; `OneObjectPerGroupAlways`, with an induction over the list
  of changes done as an argument by the least counterexample, since the loop is a recursive
  function; `AnswersMeetTheirRequestsAlways` and `NoneForgottenAlways`: a request is on its way,
  or waits for a device, or has been answered, each once, and only the last of its answers on its
  way may be the first it gets (`Placed`). Whatever is on its way finds its own promise under its
  id, or none, or one that was drawn while it was there (`Meet`), and a first answer finds it
  (`FirstMeets`), so an answer that frees an id leaves nothing behind but second answers, which
  the next to draw the id is marked for (`Redrawn`). A promise that is not settled has its request
  or its first answer on its way, unless a device dropped it (`Remembered`); `NodesAgreeAlways`:
  the latest news about a node agrees with the registry, what is posted before what is written,
  what is written before what the client shows (`NodesInv`). It needs `conn`, since a signal of an
  object that has gone is written with the null group. `SharedCurrentAlways`: for each group the
  session watches, the last message about its variables or its events table, posted, else written,
  carries the version the group has, and if there is none the group's objects hold that version or
  nothing (`Tracked`, `SharedInv`). Each update of a loop over nodes keeps it, as an object goes
  with its group's last node and a new one is empty; the first time a group is watched, what it
  has is sent after all that was posted before. Values of a robot stored in a group's object are
  `Own`, which the property allows (finding 4). It assumes that `NoConnection` is no group.
  `WatchedIsServedAlways`: for each node whose flags ask for its variables, the last request on
  its way about what is watched of it asks for them too, and if there is none the session is
  connected to an object that has stood for the node since its last announced disconnection
  (`Served`, `WatchInv`, `SinceInv`): to the present one, unless that took the place of another
  without a word. A node that was announced gone and has come back has a new `since`, but then the
  client is still to be told that it had gone (`Leaving`, `GoneIsLeaving`, from `NodesInv`, which
  for that is true of every client, also of one that began to listen late): it will delete the
  node, and the flags with it, before it shows the new one.

Only model-checked, and why:

* all liveness (`RunsEnd`, `AllWritten`, `Completes`, `HandshakeAnswered`, `SessionEnds`,
  `AllAnswered`): fairness is out of the prover's reach;
* that what the compiler emits is `Compiled`: induction over its trees. Without it `NoFault` (of an
  arbitrary sequence of words) and `CodeIntact` (finding 1) are false;
* that answers are in turn (`AnswersInTurn`) when robots are asked again or come back: it is a
  hypothesis on how fast robots and sessions are, not a promise of the code.

## 6. Not modelled

The compiler's passes before `verifyStackCalls` and `link` (unbounded trees), the arithmetic of
native functions, packet layouts and flatbuffers conversions (data without control), user
interfaces, physics, discovery of devices by the operating system, mDNS, scratchpads (text for
editors, which steers nothing), the Qt client library (the protocol of `ThymioClient` once more).
Reads and decoding on the endpoint are atomic deliveries. Memory effects of several threads are
left out: the TDM runs one.

Of the files with the extension `.ts` only `js/src/thymio.ts` is a program; the others, under
`translations/`, are Qt translation catalogues, XML with the texts of the user interfaces, in
which there is no behaviour to model. The logic of the system is in C and C++ (`vm/`,
`transport/`, `thymio-device-manager/`), which the modules translate together with `thymio.ts`.

## 7. Plan

In this order:

1. `ChangedVariables`: encoder (`vm-buffer.c`) and decoder (`msg.cpp`, `aseba_node.cpp`)
   against the robot's memory: what the host knows after a poll, packet limits included.
2. An endpoint with several nodes (wireless key): reading, pings, health check, `remove_node`,
   and the timer shared by `Discovery` and the device information.
3. An abstract specification of a reliable description which `Discovery` implements.
4. Firmware upgrade, wireless configurator; `getStackDepth` as a function of small trees against
   the layouts of `CompiledPrograms`.
