------------------------------ MODULE NodeLock ------------------------------
(***************************************************************************)
(* Who may drive a robot.  The life of an aseba_node object in the Thymio  *)
(* Device Manager (aseba_node.cpp), the registry that gives it an id       *)
(* (aseba_node_registery.cpp), and the application sessions that lock it   *)
(* (app_endpoint.h).                                                       *)
(*                                                                         *)
(* All handlers run on one thread; what crosses it asynchronously are the  *)
(* status changes, posted to each session's strand (box), the answers of   *)
(* the robot, which may be late or lost, and the timer that repeats the    *)
(* question.  Sessions keep weak pointers to nodes; a node object lives as *)
(* long as its endpoint or a posted status change refers to it.            *)
(***************************************************************************)
EXTENDS Naturals, Sequences

CONSTANTS
  Apps,       \* application_endpoint objects (addresses, used again once freed)
  Nodes,      \* aseba_node objects
  Uuids,      \* persistent ids of robots
  Uuid,       \* the persistent id of the robot each node object stands for
  Simulated,  \* nodes that are not asked for their persistent id
  NoApp, NoNode,
  MaxAsks,    \* bound on the questions asked of one node
  MaxPosted   \* bound on the status changes posted to one session

ASSUME NodeAssumption ==
  /\ Uuid \in [Nodes -> Uuids] /\ Simulated \subseteq Nodes
  /\ Uuids \cap Nodes = {}
  /\ NoApp \notin Apps /\ NoNode \notin Nodes
  /\ MaxAsks \in Nat /\ MaxPosted \in Nat

\* A node is registered under its object's random id until it has its persistent one.
Ids == Uuids \cup Nodes

VARIABLES
  fresh,       \* node objects not created yet
  attached,    \* node objects in their endpoint's table
  status,      \* m_status
  owner,       \* m_connected_app
  identified,  \* nodes whose m_uuid is the persistent one
  timer,       \* m_resend_timer: "off", "armed", or "expired" with its handler queued
  asks,        \* questions asked of each node
  answers,     \* answers to them that are on their way
  registry,    \* m_aseba_nodes
  open,        \* sessions
  locked,      \* m_locked_nodes of each session
  box,         \* calls of do_node_changed posted to each session
  view         \* history: the status of each id the session's client was told last

robotVars == <<timer, asks, answers>>
nodeVars == <<fresh, attached, status, owner, identified, registry>>
appVars == <<open, locked, view>>
vars == <<nodeVars, robotVars, appVars, box>>

-----------------------------------------------------------------------------
(* Helpers *)

Change(n, id, s) == [node |-> n, id |-> id, status |-> s]

\* weak_ptr::lock() succeeds.  Posted variables, events and states of a node, and callbacks of
\* writes to it, refer to it too; they are left out, as all they do is to keep a detached
\* object longer, like the posted changes in box.
Alive(n) ==
  n \in attached \/ \E a \in Apps : \E i \in DOMAIN box[a] : box[a][i].node = n

\* The id find() returns for a node, if it is registered.
KeysOf(n) == {id \in Ids : registry[id] = n}

\* m_node_status_changed_signal, to every session that listens.
Signalled(S, changes) == [a \in Apps |-> IF a \in S THEN box[a] \o changes ELSE box[a]]

\* set_node_status: nodes that are not registered are not announced.
Announced(n, s) == IF KeysOf(n) = {} THEN <<>> ELSE <<Change(n, CHOOSE id \in KeysOf(n) : TRUE, s)>>

\* node_from_id
NodeFromId(id) == IF registry[id] # NoNode /\ Alive(registry[id]) THEN registry[id] ELSE NoNode

\* get_locked_node
GetLockedNode(a, id) ==
  IF locked[a][id] # NoNode /\ Alive(locked[a][id]) THEN locked[a][id] ELSE NoNode

\* uuid()
UuidOf(n) == IF n \in identified THEN Uuid[n] ELSE n

\* What a session tells its client of a status: do_node_changed looks under the id of the
\* change, serialize_node under the one the node has by now.
Shown(a, n, id, s) ==
  CASE s = "busy" /\ (GetLockedNode(a, id) # NoNode \/ GetLockedNode(a, UuidOf(n)) # NoNode) -> "ready"
    [] s = "upgrading" -> "busy"
    [] OTHER -> s

\* Bound: no session is flooded with status changes.
Room(k) == \A a \in Apps : Len(box[a]) + k <= MaxPosted

-----------------------------------------------------------------------------
(* The robot and its node *)

\* A message of an unknown node creates the object, and add_node registers it.
Connect(n) ==
  /\ n \in fresh /\ Room(1)
  /\ fresh' = fresh \ {n}
  /\ attached' = attached \cup {n}
  /\ status' = [status EXCEPT ![n] = "connected"]
  /\ registry' = [registry EXCEPT ![n] = n]
  /\ box' = Signalled(open, <<Change(n, n, "connected")>>)
  /\ UNCHANGED <<owner, identified, robotVars, appVars>>

\* request_device_info: the flag it tests, m_uuid_received, is never set.
RequestDeviceInfo(n) ==
  /\ asks' = [asks EXCEPT ![n] = @ + 1]
  /\ answers' = [answers EXCEPT ![n] = @ + 1]
  /\ timer' = [timer EXCEPT ![n] = "armed"]

\* on_description_received: a description completed once may be completed again, by
\* the answer to a repeated request.
OnDescriptionReceived(n) ==
  /\ n \in attached /\ asks[n] < MaxAsks /\ Room(1)
  /\ IF n \in Simulated
     THEN /\ status' = [status EXCEPT ![n] = "available"]
          /\ box' = Signalled(open, Announced(n, "available"))
          /\ asks' = [asks EXCEPT ![n] = @ + 1]
          /\ UNCHANGED <<timer, answers>>
     ELSE RequestDeviceInfo(n) /\ UNCHANGED <<status, box>>
  /\ UNCHANGED <<fresh, attached, owner, identified, registry, appVars>>

TimerExpires(n) ==
  /\ timer[n] = "armed"
  /\ timer' = [timer EXCEPT ![n] = "expired"]
  /\ UNCHANGED <<nodeVars, asks, answers, appVars, box>>

\* The handler holds a weak pointer to the node.
ResendDeviceInfo(n) ==
  /\ timer[n] = "expired" /\ Alive(n) /\ asks[n] < MaxAsks
  /\ RequestDeviceInfo(n)
  /\ UNCHANGED <<nodeVars, appVars, box>>

AnswerLost(n) ==
  /\ answers[n] > 0
  /\ answers' = [answers EXCEPT ![n] = @ - 1]
  /\ UNCHANGED <<nodeVars, timer, asks, appVars, box>>

\* remove_duplicated_node: the object registered under the same persistent id, if any,
\* is taken from its endpoint.  Each node is the only one of its endpoint here.
Duplicates(n) == {m \in attached : m # n /\ registry[Uuid[n]] = m}

\* Mutant: the object registered before under the persistent id keeps its lock.
ReregisteredBeside(n) == [registry EXCEPT ![n] = NoNode]

\* handle_node_uuid_change
Reregistered(n) == [id \in Ids |-> IF id = Uuid[n] THEN n
                                   ELSE IF registry[id] = n THEN NoNode ELSE registry[id]]

\* on_device_info, of the persistent id: cancelling the timer does not recall a handler
\* that is already queued, and the status is set whatever it was.
OnDeviceInfo(n) ==
  /\ answers[n] > 0 /\ n \in attached /\ Room(2)
  /\ answers' = [answers EXCEPT ![n] = @ - 1]
  /\ timer' = [timer EXCEPT ![n] = IF @ = "armed" THEN "off" ELSE @]
  /\ identified' = identified \cup {n}
  /\ registry' = Reregistered(n)
  /\ attached' = attached \ Duplicates(n)
  /\ status' = [m \in Nodes |-> IF m = n THEN "available"
                                ELSE IF m \in Duplicates(n) THEN "disconnected" ELSE status[m]]
  /\ box' = Signalled(open, Announced(n, "disconnected") \o <<Change(n, Uuid[n], "available")>>)
  /\ UNCHANGED <<fresh, owner, asks, appVars>>

\* on_device_info of a name, or a first firmware version: the status is announced again.
AnnounceAgain(n) ==
  /\ n \in attached /\ status[n] # "connected" /\ Room(1)
  /\ box' = Signalled(open, Announced(n, status[n]))
  /\ UNCHANGED <<nodeVars, robotVars, appVars>>

\* The health check finds the node silent, or its endpoint is destroyed.
Disconnect(n) ==
  /\ n \in attached /\ Room(1)
  /\ status' = [status EXCEPT ![n] = "disconnected"]
  /\ registry' = [id \in Ids |-> IF registry[id] = n THEN NoNode ELSE registry[id]]
  /\ attached' = attached \ {n}
  /\ box' = Signalled(open, Announced(n, "disconnected"))
  /\ UNCHANGED <<fresh, owner, identified, robotVars, appVars>>

-----------------------------------------------------------------------------
(* Sessions *)

\* start, on_initialized: the session listens to status changes.
OpenApp(a) ==
  /\ a \notin open
  /\ open' = open \cup {a}
  /\ locked' = [locked EXCEPT ![a] = [id \in Ids |-> NoNode]]
  /\ view' = [view EXCEPT ![a] = [id \in Ids |-> "unknown"]]
  /\ UNCHANGED <<nodeVars, robotVars, box>>

\* send_full_node_list, at the end of the handshake or on request.
SendFullNodeList(a) ==
  /\ a \in open
  /\ view' = [view EXCEPT ![a] = [id \in Ids |-> IF NodeFromId(id) = NoNode THEN @[id]
                                                 ELSE Shown(a, NodeFromId(id), id, status[NodeFromId(id)])]]
  /\ UNCHANGED <<nodeVars, robotVars, open, locked, box>>

\* do_node_changed
DoNodeChanged(a) ==
  /\ box[a] # <<>>
  /\ LET c == Head(box[a])
     IN  /\ view' = [view EXCEPT ![a][c.id] = Shown(a, c.node, c.id, c.status)]
         /\ locked' = IF c.status = "disconnected" THEN [locked EXCEPT ![a][c.id] = NoNode]
                      ELSE locked
  /\ box' = [box EXCEPT ![a] = Tail(@)]
  /\ UNCHANGED <<nodeVars, robotVars, open>>

\* Mutant: only the status is tested.
MayLockByStatus(n) == status[n] = "available"

\* Mutant: a node may be locked whatever its status.
MayLockAtAnyTime(n) == owner[n] = NoApp

\* aseba_node::lock, of a node nobody has locked.
MayLock(n) == owner[n] = NoApp /\ status[n] = "available"

Locked(n) == [status EXCEPT ![n] = "busy"]

\* lock_node.  The entry made before the node is asked is removed when it refuses.
LockNode(a, id) ==
  LET n == NodeFromId(id)
  IN  /\ a \in open /\ n # NoNode /\ Room(1)
      /\ \/ /\ owner[n] = a
            /\ locked' = [locked EXCEPT ![a][id] = n]
            /\ UNCHANGED <<status, owner, box>>
         \/ /\ owner[n] # a /\ MayLock(n)
            /\ locked' = [locked EXCEPT ![a][id] = n]
            /\ owner' = [owner EXCEPT ![n] = a]
            /\ status' = Locked(n)
            /\ box' = Signalled(open, Announced(n, "busy"))
         \/ /\ owner[n] # a /\ ~MayLock(n)
            /\ locked' = [locked EXCEPT ![a][id] = NoNode]
            /\ UNCHANGED <<status, owner, box>>
      /\ UNCHANGED <<fresh, attached, identified, registry, robotVars, open, view>>

\* Mutant: an unlocked node stays busy.
UnlockedBusy(n) == [status EXCEPT ![n] = "busy"]

\* Mutant: an unlocked node takes the status its former owner saw.
UnlockedReady(n) == [status EXCEPT ![n] = "ready"]

Unlocked(n) == [status EXCEPT ![n] = "available"]

\* unlock_node
UnlockNode(a, id) ==
  LET n == GetLockedNode(a, id)
  IN  /\ a \in open /\ locked[a][id] # NoNode /\ Room(1)
      /\ locked' = [locked EXCEPT ![a][id] = NoNode]
      /\ IF n # NoNode /\ owner[n] = a
         THEN /\ owner' = [owner EXCEPT ![n] = NoApp]
              /\ status' = Unlocked(n)
              /\ box' = Signalled(open, Announced(n, "available"))
         ELSE UNCHANGED <<owner, status, box>>
      /\ UNCHANGED <<fresh, attached, identified, registry, robotVars, open, view>>

\* Mutant: a session that ends does not unlock its nodes.
ReleasedNot(a) == {}

\* The nodes a session that ends unlocks, and the changes this announces.
Released(a) == {n \in Nodes : owner[n] = a /\ \E id \in Ids : GetLockedNode(a, id) = n}

Releases(a) == UNION {{Change(n, id, "available") : id \in KeysOf(n)} : n \in Released(a)}

\* ~application_endpoint: it stops listening, then unlocks its nodes in the order of a
\* hash map.  Posted calls keep the object alive, so none is left.
CloseApp(a) ==
  /\ a \in open /\ box[a] = <<>>
  /\ owner' = [n \in Nodes |-> IF n \in Released(a) THEN NoApp ELSE owner[n]]
  /\ status' = [n \in Nodes |-> IF n \in Released(a) THEN "available" ELSE status[n]]
  /\ \E k \in 0..MaxPosted : \E order \in [1..k -> Releases(a)] :
       /\ \A c \in Releases(a) : \E i \in 1..k : order[i] = c
       /\ \A i, j \in 1..k : order[i] = order[j] => i = j
       /\ Room(k)
       /\ box' = Signalled(open \ {a}, order)
  /\ open' = open \ {a}
  /\ locked' = [locked EXCEPT ![a] = [id \in Ids |-> NoNode]]
  /\ UNCHANGED <<fresh, attached, identified, registry, robotVars, view>>

\* upgrade_node_firmware: the node is not locked, it is merely required to be available.
\* The endpoint does not survive the upgrade (Disconnect).
UpgradeNodeFirmware(a, id) ==
  LET n == NodeFromId(id)
  IN  /\ a \in open /\ n # NoNode /\ n \in attached /\ Room(1)
      /\ status[n] = "available"
      /\ status' = [status EXCEPT ![n] = "upgrading"]
      /\ box' = Signalled(open, Announced(n, "upgrading"))
      /\ UNCHANGED <<fresh, attached, owner, identified, registry, robotVars, appVars>>

-----------------------------------------------------------------------------
Init ==
  /\ fresh = Nodes /\ attached = {} /\ identified = {} /\ open = {}
  /\ status = [n \in Nodes |-> "disconnected"]
  /\ owner = [n \in Nodes |-> NoApp]
  /\ timer = [n \in Nodes |-> "off"]
  /\ asks = [n \in Nodes |-> 0]
  /\ answers = [n \in Nodes |-> 0]
  /\ registry = [id \in Ids |-> NoNode]
  /\ locked = [a \in Apps |-> [id \in Ids |-> NoNode]]
  /\ box = [a \in Apps |-> <<>>]
  /\ view = [a \in Apps |-> [id \in Ids |-> "unknown"]]

NodeStep(n) ==
  \/ Connect(n) \/ OnDescriptionReceived(n) \/ TimerExpires(n) \/ ResendDeviceInfo(n)
  \/ AnswerLost(n) \/ OnDeviceInfo(n) \/ AnnounceAgain(n) \/ Disconnect(n)

Request(a) ==
  \/ SendFullNodeList(a)
  \/ \E id \in Ids : LockNode(a, id) \/ UnlockNode(a, id) \/ UpgradeNodeFirmware(a, id)

Next ==
  \/ \E n \in Nodes : NodeStep(n)
  \/ \E a \in Apps : OpenApp(a) \/ CloseApp(a) \/ DoNodeChanged(a) \/ Request(a)

Spec == Init /\ [][Next]_vars

-----------------------------------------------------------------------------
(* Properties *)

Statuses == {"connected", "available", "busy", "disconnected", "upgrading"}

TypeOK ==
  /\ fresh \subseteq Nodes /\ attached \subseteq Nodes /\ identified \subseteq Nodes
  /\ status \in [Nodes -> Statuses]
  /\ owner \in [Nodes -> Apps \cup {NoApp}]
  /\ timer \in [Nodes -> {"off", "armed", "expired"}]
  /\ asks \in [Nodes -> 0..MaxAsks] /\ answers \in [Nodes -> 0..MaxAsks]
  /\ registry \in [Ids -> Nodes \cup {NoNode}]
  /\ open \subseteq Apps
  /\ locked \in [Apps -> [Ids -> Nodes \cup {NoNode}]]
  /\ \A a \in Apps : Len(box[a]) <= MaxPosted
  /\ view \in [Apps -> [Ids -> Statuses \cup {"ready", "unknown"}]]

\* A session that get_locked_node lets drive a node is the one that locked it: no two
\* sessions ever drive the same robot, whatever answers, disconnections and duplicated
\* objects come between.
HolderOwns ==
  \A a \in Apps, id \in Ids : GetLockedNode(a, id) # NoNode => owner[GetLockedNode(a, id)] = a

\* "The lock remain until the client disconnect, the device disconnect or a UnlockNode
\* message is sent" (thymio.fbs): the session that owns an attached node is open and can
\* still drive it, or unlock it, so that a lock is never left behind.
OwnerHolds ==
  \A n \in attached : owner[n] # NoApp =>
     owner[n] \in open /\ \E id \in Ids : locked[owner[n]][id] = n

\* A persistent id never names two live objects, and a node that is attached is
\* registered under exactly one id.
OneObjectPerRobot ==
  /\ \A n \in attached : \E id \in Ids : KeysOf(n) = {id}
  /\ \A m, n \in attached \cap identified : Uuid[m] = Uuid[n] => m = n

\* "The node is busy - this will be sent to all clients, except the one who locked the
\* node"; "The node is ready - this will be sent the client that optained a lock on the
\* node" (thymio.fbs): once all posted changes are delivered, each client that knows the
\* node sees "ready" if it drives it, "busy" if another does, and the status otherwise.
ClientsAgree ==
  \A a \in open : \A n \in attached : \A id \in KeysOf(n) :
     (box[a] = <<>> /\ view[a][id] # "unknown") =>
        view[a][id] = IF status[n] # "busy" THEN (IF status[n] = "upgrading" THEN "busy" ELSE status[n])
                      ELSE IF owner[n] = a THEN "ready" ELSE "busy"

-----------------------------------------------------------------------------
(* The abstract specification *)

\* A robot is present when an object that stands for it has told its persistent id.
Present == {Uuid[n] : n \in attached \cap identified}

\* A session drives a robot when get_locked_node gives it the object that stands for it.
Drives ==
  {d \in Apps \X Uuids :
     \E n \in attached \cap identified, id \in Ids :
       Uuid[n] = d[2] /\ GetLockedNode(d[1], id) = n}

Exclusive == INSTANCE ExclusiveUse WITH Robots <- Uuids, present <- Present, drives <- Drives

\* Locks as clients see them are those of ExclusiveUse: a robot changes hands only by being
\* given back or lost and then taken while it is there and free, across duplicated objects,
\* repeated answers, upgrades and sessions that end.
ImplementsExclusiveUse == Exclusive!Spec
=============================================================================
