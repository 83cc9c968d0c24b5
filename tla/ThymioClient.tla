---------------------------- MODULE ThymioClient ----------------------------
(***************************************************************************)
(* The JavaScript client library (js/src/thymio.ts) and the session of the *)
(* Thymio Device Manager it talks to (app_endpoint.h): the table of        *)
(* requests behind the promises, the Node and Group objects built from the *)
(* messages of the server, the flags that say what is watched on either    *)
(* side, and what the library knows of shared variables and events.        *)
(*                                                                         *)
(* The client is an event loop: each handler, and each call of the         *)
(* application, runs to its end.  Messages are delivered in order; between *)
(* the two sides, and between the signals of the server and its strand,    *)
(* anything may happen.  The handshake is over (AppSession).               *)
(***************************************************************************)
EXTENDS Naturals, Sequences, FiniteSets

CONSTANTS
  Nodes,        \* ids of nodes
  Groups,       \* ids of groups
  NoGroup,      \* the null id
  RequestIds,   \* what _gen_request_id draws from
  MaxRequests,  \* bound on the requests of the application
  MaxChanges,   \* bound on changes on the server, refusals and losses of devices, listening late
  MaxPosted     \* bound on the messages on their way to the client

\* What an id that is not watched is connected to.
NoConnection == "none"

ASSUME ClientAssumption ==
  /\ NoGroup \notin Groups /\ Nodes \cap Groups = {} /\ NoConnection \notin Groups \cup {NoGroup}
  /\ IsFiniteSet(Nodes) /\ IsFiniteSet(Groups)
  /\ MaxRequests \in Nat /\ MaxChanges \in Nat /\ MaxPosted \in Nat \ {0}

VARIABLES
  socket,    \* "open" or "closed"
  heard,     \* onNodesChanged: "no", set before the first message ("since") or after ("late")
  requests,  \* _requests: the promise each pending id stands for
  promise,   \* the promises handed to the application, in the order of the calls
  nodes,     \* _nodes
  groups,    \* the Group objects that nodes refer to
  up,        \* messages to the server
  down,      \* messages to the client
  strand,    \* what the server's signals have posted
  registry,  \* nodes the server knows, their status and group
  conn,      \* how many objects each node has had: the last one stands for it
  since,     \* history: its first one since the clients were told of a disconnection
  shared,    \* shared variables and events table of each group, as versions
  watch,     \* m_watch_nodes: what each id is connected to
  later,     \* requests that wait for a device; "dropped" ones wait for ever
  changes    \* how much of MaxChanges is used

clientVars == <<socket, heard, requests, promise, nodes, groups>>
serverVars == <<registry, conn, since, shared, watch, later, changes>>
vars == <<clientVars, serverVars, up, down, strand>>

\* What may be known of the variables or the events of a group: nothing, the variables of
\* a robot, or a version.
Null == 0
Own == 1
FirstVersion == 2

Ids == Nodes \cup Groups

NotWatching == [shared |-> [id \in Ids |-> NoConnection], own |-> [n \in Nodes |-> 0]]

\* Group objects are told apart by numbers; one more than there are nodes is enough.
Objects == 1..(Cardinality(Nodes) + 1)

-----------------------------------------------------------------------------
(* Requests: Request, _gen_request_id, _prepare_request, _get_request *)

\* Mutant: zero may be drawn, which the protocol uses for "no request".
IdsFromZero == (RequestIds \cup {0}) \ DOMAIN requests

\* Mutant: an id that is pending may be drawn again.
DrawnIds == RequestIds

\* _gen_request_id
FreshIds == RequestIds \ DOMAIN requests

\* Requests that will be answered, and answers: on their way, or waiting for a device.  A
\* request that was answered and will be once more, and that second answer, are "again".
InFlight ==
  {up[i] : i \in DOMAIN up} \cup {r \in later : r.kind = "device"}
  \cup {down[i] : i \in {i \in DOMAIN down : down[i].kind \in {"completed", "error", "description"}}}

\* History: an id is drawn while a second answer is on its way under it, or the answer to
\* a request that had that misfortune itself.
Redrawn(id) == \E r \in InFlight : r.id = id /\ (r.again \/ promise[r.serial].redrawn)

\* A request is sent, then registered.  A closed socket discards what is sent.
Send(kind, target, flags) ==
  /\ Len(promise) < MaxRequests
  /\ \E id \in FreshIds :
       LET s == Len(promise) + 1
       IN  /\ up' = IF socket = "closed" THEN up
                    ELSE Append(up, [kind |-> kind, id |-> id, serial |-> s, again |-> FALSE,
                                     target |-> target, flags |-> flags])
           /\ requests' = [i \in DOMAIN requests \cup {id} |-> IF i = id THEN s ELSE requests[i]]
           /\ promise' = Append(promise, [kind |-> kind, state |-> "pending",
                                              redrawn |-> Redrawn(id)])

Answer(kind, r) == [kind |-> kind, id |-> r.id, serial |-> r.serial, again |-> r.again]

Ask(n, kind) ==
  /\ n \in DOMAIN nodes
  /\ Send(kind, n, {})
  /\ UNCHANGED <<socket, heard, nodes, groups, down, strand, serverVars>>

\* _request_aseba_vm_description
AskDescription(n) == Ask(n, "describe")

\* _send_program, _set_vm_execution_state, _set_variables and _emit_events: what the device
\* has to do.
AskDevice(n) == Ask(n, "device")

\* _set_events_descriptions, _set_scratchpad, _lock_node, _unlock_node and _rename_node:
\* what the server does itself.
AskServer(n) == Ask(n, "server")

-----------------------------------------------------------------------------
(* What is watched: BasicNode *)

\* _set_monitoring_flags
Flagged(flags, flag, on) == IF on THEN flags \cup {flag} ELSE flags \ {flag}

\* The flags are set before the server is asked; nothing is sent if they were so.
SetMonitoringFlags(id, old, new) ==
  IF old = new THEN UNCHANGED <<up, requests, promise>> ELSE Send("watch", id, new)

\* The setter of onVariablesChanged.
SetOnVariablesChanged(n, on) ==
  /\ n \in DOMAIN nodes
  /\ LET new == Flagged(nodes[n].flags, "variables", on)
     IN  /\ SetMonitoringFlags(n, nodes[n].flags, new)
         /\ nodes' = [nodes EXCEPT ![n].flags = new, ![n].callback = on]
  /\ UNCHANGED <<socket, heard, groups, down, strand, serverVars>>

\* watchSharedVariablesAndEvents, of a node or of its group.
WatchNode(n, on) ==
  /\ n \in DOMAIN nodes
  /\ LET new == Flagged(nodes[n].flags, "shared", on)
     IN  /\ SetMonitoringFlags(n, nodes[n].flags, new)
         /\ nodes' = [nodes EXCEPT ![n].flags = new]
  /\ UNCHANGED <<socket, heard, groups, down, strand, serverVars>>

WatchGroup(n, on) ==
  /\ n \in DOMAIN nodes /\ groups[nodes[n].group].id # NoGroup
  /\ LET g == nodes[n].group
         new == Flagged(groups[g].flags, "shared", on)
     IN  /\ SetMonitoringFlags(groups[g].id, groups[g].flags, new)
         /\ groups' = [groups EXCEPT ![g].flags = new]
  /\ UNCHANGED <<socket, heard, nodes, down, strand, serverVars>>

ListenToNodes ==
  /\ heard = "no" /\ changes < MaxChanges
  /\ heard' = "late"
  /\ changes' = changes + 1
  /\ UNCHANGED <<socket, requests, promise, nodes, groups, up, down, strand,
                 registry, conn, since, shared, watch, later>>

-----------------------------------------------------------------------------
(* _onmessage *)

Receive(kinds) == socket = "open" /\ down # <<>> /\ Head(down).kind \in kinds /\ down' = Tail(down)

\* Mutant: a Group object is made for every node.
GroupAlone(ns, gs, g) == {}

\* _group_from_id: the object is known only through a node that has it.
GroupFromId(ns, gs, g) == {ns[m].group : m \in {m \in DOMAIN ns : gs[ns[m].group].id = g}}

NewGroup(g) == [id |-> g, variables |-> Null, events |-> Null, flags |-> {}]

\* _set_group, of a node that stays: the Group objects, and which of them is the node's.
\* Objects nothing refers to any more are collected.
Regrouped(ns, gs, n, node, g) ==
  LET known == GroupFromId(ns, gs, g)
      o == IF known # {} THEN CHOOSE o \in known : TRUE
           ELSE CHOOSE o \in Objects : \A m \in DOMAIN ns \ {n} : ns[m].group # o
      left == {o} \cup {ns[m].group : m \in DOMAIN ns \ {n}}
  IN  [nodes |-> [m \in DOMAIN ns \cup {n} |-> IF m = n THEN [node EXCEPT !.group = o] ELSE ns[m]],
       groups |-> [p \in left |-> IF p = o /\ known = {} THEN NewGroup(g) ELSE gs[p]]]

\* Mutant: a node that disconnects is kept.
Kept(ns, gs, n) == [nodes |-> ns, groups |-> gs]

Deleted(ns, gs, n) ==
  LET rest == DOMAIN ns \ {n}
  IN  [nodes |-> [m \in rest |-> ns[m]], groups |-> [p \in {ns[m].group : m \in rest} |-> gs[p]]]

NewNode == [status |-> "unknown", group |-> 1, flags |-> {}, callback |-> FALSE]

\* One round of the loop of _nodes_changed_as_node_list.
Updated(ns, gs, c) ==
  IF c.status = "disconnected" THEN Deleted(ns, gs, c.node)
  ELSE Regrouped(ns, gs, c.node,
                 [(IF c.node \in DOMAIN ns THEN ns[c.node] ELSE NewNode) EXCEPT !.status = c.status],
                 c.group)

\* The loop itself.
AllUpdated(ns, gs, list) ==
  LET after[i \in 0..Len(list)] ==
        IF i = 0 THEN [nodes |-> ns, groups |-> gs]
        ELSE Updated(after[i - 1].nodes, after[i - 1].groups, list[i])
  IN  after[Len(list)]

OnNodesChanged ==
  /\ Receive({"nodes"})
  /\ LET new == IF heard = "no" THEN [nodes |-> nodes, groups |-> groups]
                ELSE AllUpdated(nodes, groups, Head(down).changes)
     IN  nodes' = new.nodes /\ groups' = new.groups
  /\ UNCHANGED <<socket, heard, requests, promise, up, strand, serverVars>>

\* RequestCompleted, Error, CompilationResultSuccess, CompilationResultFailure, and
\* NodeAsebaVMDescription.  Of a description, the list of variables is read into an array
\* that was never made: the request is gone from the table, the promise is left as it is.
OnAnswer ==
  /\ Receive({"completed", "error", "description"})
  /\ LET m == Head(down)
         outcome == [completed |-> "resolved", error |-> "rejected", description |-> "pending"]
     IN  IF m.id \in DOMAIN requests
         THEN /\ requests' = [i \in DOMAIN requests \ {m.id} |-> requests[i]]
              /\ promise' = [promise EXCEPT ![requests[m.id]].state = outcome[m.kind]]
         ELSE UNCHANGED <<requests, promise>>
  /\ UNCHANGED <<socket, heard, nodes, groups, up, strand, serverVars>>

\* Mutant: variables are stored once only.
StoredFirst(m) == {nodes[n].group : n \in {n \in DOMAIN nodes :
                     /\ groups[nodes[n].group].id = m.target
                     /\ groups[nodes[n].group].variables = Null}}

\* The Group objects a VariablesChanged is stored in: those of the nodes it is for, except
\* of the node itself if it has a callback.
StoredIn(m) == {nodes[n].group : n \in {n \in DOMAIN nodes :
                  (n = m.target /\ ~nodes[n].callback)
                  \/ (n # m.target /\ groups[nodes[n].group].id = m.target)}}

OnVariablesChanged ==
  /\ Receive({"variables"})
  /\ groups' = [o \in DOMAIN groups |-> IF o \in StoredIn(Head(down))
                                        THEN [groups[o] EXCEPT !.variables = Head(down).value]
                                        ELSE groups[o]]
  /\ UNCHANGED <<socket, heard, requests, promise, nodes, up, strand, serverVars>>

\* A group no node is known of is made for the message, and forgotten with it.
OnEventsDescriptionsChanged ==
  /\ Receive({"events"})
  /\ groups' = [o \in DOMAIN groups |-> IF o \in GroupFromId(nodes, groups, Head(down).target)
                                        THEN [groups[o] EXCEPT !.events = Head(down).value]
                                        ELSE groups[o]]
  /\ UNCHANGED <<socket, heard, requests, promise, nodes, up, strand, serverVars>>

\* _onclose: what is pending stays pending.  The session of the server ends, and its
\* connections with it.
OnClose ==
  /\ socket = "open"
  /\ socket' = "closed"
  /\ up' = <<>> /\ down' = <<>> /\ strand' = <<>> /\ later' = {} /\ watch' = NotWatching
  /\ UNCHANGED <<heard, requests, promise, nodes, groups, registry, conn, since, shared, changes>>

-----------------------------------------------------------------------------
(* The session: watch_node_or_group and the other handlers of requests *)

Registered == {n \in Nodes : registry[n].status # "absent"}

\* group_from_id, as a set of at most one group.
ServerGroup(id) ==
  {registry[n].group : n \in {n \in Registered : n = id \/ registry[n].group = id}}

SharedVariables(g) == [kind |-> "variables", target |-> g, value |-> shared[g].variables]
EventsTable(g) == [kind |-> "events", target |-> g, value |-> shared[g].events]

\* The session ends with the connection.
Room(k) == socket = "open" /\ Len(strand) + Len(down) + k <= MaxPosted

\* Asked again for the id of a group, the session stops to watch it; for the id of a node
\* it keeps the connection, whatever group the node is in by now.  Flags that are not set
\* change nothing.
SharedWatch(id, flags) ==
  IF "shared" \notin flags \/ ServerGroup(id) = {} THEN watch.shared[id]
  ELSE IF watch.shared[id] = NoConnection THEN CHOOSE g \in ServerGroup(id) : TRUE
  ELSE IF id \in ServerGroup(id) THEN NoConnection
  ELSE watch.shared[id]

\* Mutant: the flags are compared, not tested for the one that is meant.
OwnWatchAlone(id, flags) ==
  IF id \notin Registered THEN watch.own[id]
  ELSE IF flags = {"variables"} THEN conn[id] ELSE 0

\* The connection to a node's own variables is made anew each time.
OwnWatch(id, flags) ==
  IF id \notin Registered THEN watch.own[id]
  ELSE IF "variables" \in flags THEN conn[id] ELSE 0

\* What is watched for the first time is sent at once.
FirstValues(id, flags) ==
  (IF "shared" \in flags /\ ServerGroup(id) # {} /\ watch.shared[id] = NoConnection
   THEN LET g == CHOOSE g \in ServerGroup(id) : TRUE IN <<SharedVariables(g), EventsTable(g)>>
   ELSE <<>>)
  \o (IF "variables" \in flags /\ id \in Registered /\ watch.own[id] = 0
      THEN <<[kind |-> "variables", target |-> id, value |-> Own]>> ELSE <<>>)

Handle(kind) == up # <<>> /\ Head(up).kind = kind /\ up' = Tail(up)

\* Mutant: a request for an id that has gone is not answered.
RefusedSilently(r) == <<>>

Refused(r) == <<Answer("error", r)>>

WatchNodeOrGroup ==
  /\ Handle("watch")
  /\ LET r == Head(up)
     IN  IF ServerGroup(r.target) = {}
         THEN /\ Room(1) /\ down' = down \o Refused(r)
              /\ UNCHANGED <<watch, strand>>
         ELSE /\ Room(4) /\ down' = Append(down, Answer("completed", r))
              /\ strand' = strand \o FirstValues(r.target, r.flags)
              /\ watch' = [shared |-> [watch.shared EXCEPT ![r.target] = SharedWatch(r.target, r.flags)],
                           own |-> IF r.target \in Nodes
                                   THEN [watch.own EXCEPT ![r.target] = OwnWatch(r.target, r.flags)]
                                   ELSE watch.own]
  /\ UNCHANGED <<clientVars, registry, conn, since, shared, later, changes>>

\* send_aseba_vm_description: of a node that has gone there is no answer.
SendAsebaVMDescription ==
  /\ Handle("describe") /\ Room(1)
  /\ down' = IF Head(up).target \in Registered THEN Append(down, Answer("description", Head(up)))
             ELSE down
  /\ UNCHANGED <<clientVars, strand, serverVars>>

\* set_events_table, update_node_scratchpad, lock_node, unlock_node, rename_node: done, or
\* refused, and answered.
HandleServer ==
  /\ Handle("server") /\ Room(1)
  /\ \E kind \in {"completed", "error"} : down' = Append(down, Answer(kind, Head(up)))
  /\ UNCHANGED <<clientVars, strand, serverVars>>

\* compile_and_send_program, set_vm_execution_state, set_variables, emit_events: answered by
\* the callback of a device, in any order, if it is called.
HandleDevice ==
  /\ Handle("device")
  /\ later' = later \cup {Head(up)}
  /\ UNCHANGED <<clientVars, down, strand, registry, conn, since, shared, watch, changes>>

AnswerLater(r) ==
  /\ r \in later /\ r.kind = "device" /\ Room(1)
  /\ \E kind \in {"completed", "error"} : down' = Append(down, Answer(kind, r))
  /\ later' = later \ {r}
  /\ UNCHANGED <<clientVars, up, strand, registry, conn, since, shared, watch, changes>>

\* An emit that the devices of the group refuse: each refusal is answered, and their end is
\* answered again (group::emit_events); so is a program that cannot be saved.
RefuseLater(r) ==
  /\ r \in later /\ r.kind = "device" /\ Room(1) /\ changes < MaxChanges
  /\ down' = Append(down, Answer("error", r))
  /\ later' = (later \ {r}) \cup {[r EXCEPT !.again = TRUE]}
  /\ changes' = changes + 1
  /\ UNCHANGED <<clientVars, up, strand, registry, conn, since, shared, watch>>

\* An empty set_variables, whose callback belongs to no message, and whatever is queued for
\* a device when a write to it fails or is cancelled: no callback is called.
DropLater(r) ==
  /\ r \in later /\ r.kind = "device" /\ ~r.again /\ changes < MaxChanges
  /\ later' = (later \ {r}) \cup {[r EXCEPT !.kind = "dropped"]}
  /\ changes' = changes + 1
  /\ UNCHANGED <<clientVars, up, down, strand, registry, conn, since, shared, watch>>

-----------------------------------------------------------------------------
(* Nodes and groups of the server *)

Changed(n, s) == [kind |-> "nodes", node |-> n, conn |-> conn[n], status |-> s]

\* A node comes, or another object takes the place of the one it has: remove_duplicated_node
\* forgets that one before it disconnects it, so nobody is told.
Connect(n, g) ==
  /\ Room(1) /\ changes < MaxChanges
  /\ registry' = [registry EXCEPT ![n] = [status |-> "available", group |-> g]]
  /\ conn' = [conn EXCEPT ![n] = @ + 1]
  /\ since' = IF n \in Registered THEN since ELSE [since EXCEPT ![n] = conn[n] + 1]
  /\ strand' = Append(strand, [Changed(n, "available") EXCEPT !.conn = conn[n] + 1])
  /\ changes' = changes + 1
  /\ UNCHANGED <<clientVars, up, down, shared, watch, later>>

\* set_status: here, another client locks or unlocks the node.
SetStatus(n) ==
  /\ n \in Registered /\ Room(1) /\ changes < MaxChanges
  /\ LET s == IF registry[n].status = "busy" THEN "available" ELSE "busy"
     IN  /\ registry' = [registry EXCEPT ![n].status = s]
         /\ strand' = Append(strand, Changed(n, s))
  /\ changes' = changes + 1
  /\ UNCHANGED <<clientVars, up, down, conn, since, shared, watch, later>>

Disconnect(n) ==
  /\ n \in Registered /\ Room(1) /\ changes < MaxChanges
  /\ registry' = [registry EXCEPT ![n] = [status |-> "absent", group |-> NoGroup]]
  /\ strand' = Append(strand, Changed(n, "disconnected"))
  /\ changes' = changes + 1
  /\ UNCHANGED <<clientVars, up, down, conn, since, shared, watch, later>>

Watchers(g) == {id \in Ids : watch.shared[id] = g}

\* A signal of the group calls the session once for each connection.
Signalled(g, message) == [i \in 1..Cardinality(Watchers(g)) |-> message]

\* group::attach_to_endpoint: the endpoint of a node joins the group of another.
AttachToEndpoint(n, g) ==
  /\ n \in Registered /\ registry[n].group # g /\ changes < MaxChanges
  /\ Room(1 + 2 * Cardinality(Watchers(g)))
  /\ registry' = [registry EXCEPT ![n].group = g]
  /\ strand' = strand \o <<Changed(n, registry[n].status)>>
               \o Signalled(g, SharedVariables(g)) \o Signalled(g, EventsTable(g))
  /\ changes' = changes + 1
  /\ UNCHANGED <<clientVars, up, down, conn, since, shared, watch, later>>

\* group::set_shared_variables
SetSharedVariables(g) ==
  /\ changes < MaxChanges /\ Room(Cardinality(Watchers(g)))
  /\ shared' = [shared EXCEPT ![g].variables = @ + 1]
  /\ strand' = strand \o Signalled(g, [SharedVariables(g) EXCEPT !.value = @ + 1])
  /\ changes' = changes + 1
  /\ UNCHANGED <<clientVars, up, down, registry, conn, since, watch, later>>

\* group::set_events_table
SetEventsTable(g) ==
  /\ changes < MaxChanges /\ Room(Cardinality(Watchers(g)))
  /\ shared' = [shared EXCEPT ![g].events = @ + 1]
  /\ strand' = strand \o Signalled(g, [EventsTable(g) EXCEPT !.value = @ + 1])
  /\ changes' = changes + 1
  /\ UNCHANGED <<clientVars, up, down, registry, conn, since, watch, later>>

\* The variables of a node that is watched have changed.
OwnVariablesChanged(n) ==
  /\ n \in Registered /\ watch.own[n] = conn[n] /\ changes < MaxChanges /\ Room(1)
  /\ strand' = Append(strand, [kind |-> "variables", target |-> n, value |-> Own])
  /\ changes' = changes + 1
  /\ UNCHANGED <<clientVars, up, down, registry, conn, since, shared, watch, later>>

\* The group is looked up when the change is written.  An object that does not stand for
\* the node any more has one as long as it has an endpoint; of a disconnection the client
\* does not read it.
GroupsOf(m) ==
  IF m.kind # "nodes" \/ m.status = "disconnected" THEN {NoGroup}
  ELSE IF m.node \in Registered /\ m.conn = conn[m.node] THEN {registry[m.node].group}
  ELSE Groups \cup {NoGroup}

Written(m, g) ==
  IF m.kind # "nodes" THEN m
  ELSE [kind |-> "nodes", changes |-> <<[node |-> m.node, status |-> m.status, group |-> g]>>]

\* do_node_changed, do_group_variables_changed, do_events_description_changed and
\* do_node_variables_changed.
RunStrand ==
  /\ strand # <<>>
  /\ strand' = Tail(strand)
  /\ \E g \in GroupsOf(Head(strand)) : down' = Append(down, Written(Head(strand), g))
  /\ UNCHANGED <<clientVars, up, serverVars>>

-----------------------------------------------------------------------------
\* After the handshake: the full list of nodes is on its way.
Init ==
  /\ socket = "open" /\ heard \in {"no", "since"}
  /\ requests = [i \in {} |-> 0] /\ promise = <<>>
  /\ nodes = [n \in {} |-> NewNode] /\ groups = [o \in {} |-> NewGroup(NoGroup)]
  /\ up = <<>> /\ strand = <<>>
  /\ registry \in [Nodes -> {[status |-> "absent", group |-> NoGroup]}
                              \cup [status : {"available"}, group : Groups]]
  /\ \E order \in [1..Cardinality(Registered) -> Registered] :
       /\ \A n \in Registered : \E i \in DOMAIN order : order[i] = n
       /\ down = <<[kind |-> "nodes", changes |-> [i \in DOMAIN order |->
                      [node |-> order[i], status |-> "available", group |-> registry[order[i]].group]]]>>
  /\ conn = [n \in Nodes |-> 1] /\ since = conn
  /\ shared = [g \in Groups |-> [variables |-> FirstVersion, events |-> FirstVersion]]
  /\ watch = NotWatching
  /\ later = {} /\ changes = 0

Application ==
  \/ ListenToNodes
  \/ \E n \in Nodes : \/ AskDescription(n) \/ AskDevice(n) \/ AskServer(n)
                      \/ \E on \in BOOLEAN : \/ SetOnVariablesChanged(n, on)
                                             \/ WatchNode(n, on)
                                             \/ WatchGroup(n, on)

OnMessage == OnNodesChanged \/ OnAnswer \/ OnVariablesChanged \/ OnEventsDescriptionsChanged

HandleRead == WatchNodeOrGroup \/ SendAsebaVMDescription \/ HandleServer \/ HandleDevice

Environment ==
  \/ \E n \in Nodes : SetStatus(n) \/ Disconnect(n) \/ OwnVariablesChanged(n)
  \/ \E n \in Nodes, g \in Groups : Connect(n, g) \/ AttachToEndpoint(n, g)
  \/ \E g \in Groups : SetSharedVariables(g) \/ SetEventsTable(g)

Next ==
  \/ Application \/ OnMessage \/ OnClose \/ HandleRead \/ RunStrand \/ Environment
  \/ \E r \in later : AnswerLater(r) \/ RefuseLater(r) \/ DropLater(r)

Spec == Init /\ [][Next]_vars

-----------------------------------------------------------------------------
(* Properties *)

TypeOK ==
  /\ socket \in {"open", "closed"} /\ heard \in {"no", "since", "late"}
  /\ DOMAIN requests \subseteq RequestIds
  /\ \A i \in DOMAIN requests : requests[i] \in DOMAIN promise
  /\ DOMAIN nodes \subseteq Nodes /\ DOMAIN groups \subseteq Objects
  /\ \A n \in DOMAIN nodes : nodes[n].group \in DOMAIN groups
  /\ \A o \in DOMAIN groups : groups[o].id \in Groups \cup {NoGroup}
  /\ Len(strand) + Len(down) <= MaxPosted

Quiet == socket = "open" /\ up = <<>> /\ strand = <<>> /\ down = <<>>

\* "it's up to the client to maintain a list of all nodes" (thymio.fbs): whatever nodes
\* come, go, come back or change group, also while the full list is on its way, a client
\* that listened from the start has the nodes of the server once all is delivered.
NodesAgree ==
  (Quiet /\ heard = "since") =>
     /\ DOMAIN nodes = Registered
     /\ \A n \in Registered : /\ nodes[n].status = registry[n].status
                              /\ groups[nodes[n].group].id = registry[n].group

\* "Group hold the events and shared variables for all robots in the group": nodes of one
\* group have one Group object, so callbacks and values set through one are the other's.
OneObjectPerGroup ==
  \A m, n \in DOMAIN nodes :
     groups[nodes[m].group].id = groups[nodes[n].group].id => nodes[m].group = nodes[n].group

\* What is known of a group the session is connected to is what the group has: no
\* update is lost or applied to the wrong group, through any change of objects.
SharedCurrent ==
  Quiet => \A o \in DOMAIN groups : Watchers(groups[o].id) # {} =>
     /\ groups[o].variables \in {Null, Own, shared[groups[o].id].variables}
     /\ groups[o].events \in {Null, shared[groups[o].id].events}

\* A node whose onVariablesChanged is set gets its variables: the session is connected to
\* the object that stands for the node now, never to one whose disconnection was announced.
\* Where the object was replaced without a word, the connection may be to an earlier one,
\* and then nothing comes until the client asks again.
WatchedIsServed ==
  Quiet => \A n \in DOMAIN nodes : n \in Registered =>
     ("variables" \in nodes[n].flags => watch.own[n] \in since[n]..conn[n])

\* An answer settles the promise of its own request, also if answers overtake each other, if
\* some are given twice and if ids are drawn again: no other promise is in the table under
\* its id, and its own still is when the first answer comes.  Nothing is claimed of a
\* promise whose id was drawn while the second answer to another was on its way.
AnswersMeetTheirRequests ==
  \A r \in InFlight :
     /\ r.id \in DOMAIN requests =>
           requests[r.id] = r.serial \/ promise[requests[r.id]].redrawn
     /\ (~r.again /\ ~promise[r.serial].redrawn) => r.id \in DOMAIN requests

Dropped == {r.serial : r \in {r \in later : r.kind = "dropped"}}

\* "trigger the promise or raise an exception once the request is completed and the
\* server replies": as long as the connection is open, a promise that is not settled is
\* in the table, and its own request or the answer to it is still to be handled, unless a
\* device dropped its callback.  (Not so for asebaVMDescription, see OnAnswer and
\* SendAsebaVMDescription, nor where an id was drawn too soon.)
NoneForgotten ==
  socket = "open" => \A s \in DOMAIN promise \ Dropped :
     (promise[s].state = "pending" /\ promise[s].kind # "describe" /\ ~promise[s].redrawn) =>
        \E i \in DOMAIN requests : requests[i] = s /\ \E r \in InFlight : r.id = i /\ r.serial = s

\* "Shared variables registered on this group": what a Group holds as its variables are
\* never the ones of a robot.
GroupVariablesAreShared == \A o \in DOMAIN groups : groups[o].variables # Own
=============================================================================
