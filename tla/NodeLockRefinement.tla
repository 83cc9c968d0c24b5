------------------------- MODULE NodeLockRefinement -------------------------
(***************************************************************************)
(* The registry knows one object for each robot, and locks are those of    *)
(* ExclusiveUse, for any number of nodes, sessions, questions and posted   *)
(* changes.                                                                *)
(*                                                                         *)
(* Under the refinement mapping a robot is present when its persistent id  *)
(* is registered, and a session drives it when the entry of the session    *)
(* under that id is an attached object (the lemmas PresentIsRegistered     *)
(* and DrivesAttached): a step is then told by what it does to registry,   *)
(* attached and locked.                                                    *)
(*                                                                         *)
(* The rest is about what holds only while robots answer in turn           *)
(* (AnswersInTurn): owners keep the entries of their sessions, and clients *)
(* see the statuses nodes have.                                            *)
(***************************************************************************)
EXTENDS NodeLockProofs

\* Attached objects are registered under the id they have, and only they are registered.
AttachedIsRegistered == \A n \in attached : registry[UuidOf(n)] = n

RegisteredIsAttached == \A id \in Ids : registry[id] # NoNode => registry[id] \in attached

\* An address that is no session has no locks.
ClosedHoldsNothing == \A a \in Apps \ open, id \in Ids : locked[a][id] = NoNode

RInv ==
  /\ IInv
  /\ AttachedIsRegistered
  /\ RegisteredIsAttached
  /\ ClosedHoldsNothing

-----------------------------------------------------------------------------
(* The invariant *)

LEMMA RInitially == Init => RInv
<1> SUFFICES ASSUME Init PROVE RInv
  OBVIOUS
<1>1. IInv
  BY Initially
<1> QED BY <1>1 DEF RInv, AttachedIsRegistered, RegisteredIsAttached, ClosedHoldsNothing, Init

LEMMA UuidIsId ==
  ASSUME NEW n \in Nodes
  PROVE  UuidOf(n) \in Ids /\ (n \in identified => UuidOf(n) \in Uuids)
                           /\ (n \notin identified => UuidOf(n) \notin Uuids)
BY NodeAssumption DEF UuidOf, Ids

\* Steps that leave the objects and the registry alone, and lock nothing in a session that
\* is closed.
LEMMA RegistryKept ==
  ASSUME RInv, IInv', UNCHANGED <<attached, identified, registry>>,
         \A a \in Apps \ open', id \in Ids : locked'[a][id] = NoNode
  PROVE  RInv'
BY DEF RInv, AttachedIsRegistered, RegisteredIsAttached, ClosedHoldsNothing, UuidOf

LEMMA RConnect ==
  ASSUME RInv, IInv', NEW n \in Nodes, Connect(n) PROVE RInv'
<1>1. Types /\ n \notin identified /\ n \in Ids /\ attached \subseteq Nodes
  BY DEF RInv, IInv, FreshUnknown, Types, Ids, Connect
<1>2. /\ registry' = [registry EXCEPT ![n] = n] /\ attached' = attached \cup {n}
      /\ UNCHANGED <<identified, locked, open>>
  BY DEF Connect, appVars
<1>3. \A m \in attached : m # n => UuidOf(m) # n
  BY <1>1, NodeAssumption DEF UuidOf
<1>4. AttachedIsRegistered'
  BY <1>1, <1>2, <1>3 DEF RInv, AttachedIsRegistered, UuidOf, Types
<1>5. RegisteredIsAttached'
  BY <1>1, <1>2 DEF RInv, RegisteredIsAttached, Types
<1>6. ClosedHoldsNothing'
  BY <1>2 DEF RInv, ClosedHoldsNothing
<1> QED BY <1>4, <1>5, <1>6 DEF RInv

LEMMA ROnDeviceInfo ==
  ASSUME RInv, IInv', NEW n \in Nodes, OnDeviceInfo(n) PROVE RInv'
<1>1. Types /\ n \in attached /\ Uuid[n] \in Uuids /\ Uuid[n] \in Ids /\ n # NoNode
  BY NodeAssumption DEF RInv, IInv, OnDeviceInfo, Ids
<1>2. /\ registry' = Reregistered(n) /\ attached' = attached \ Duplicates(n)
      /\ identified' = identified \cup {n} /\ UNCHANGED <<locked, open>>
  BY DEF OnDeviceInfo, appVars
<1>3. AttachedIsRegistered'
  <2> SUFFICES ASSUME NEW m \in attached' PROVE registry'[UuidOf(m)'] = m
    BY DEF AttachedIsRegistered
  <2>1. m \in attached /\ m \in Nodes /\ (m # n => registry[Uuid[n]] # m)
    BY <1>1, <1>2 DEF Types, Duplicates
  <2>2. CASE m = n
    BY <1>1, <1>2, <2>2 DEF Reregistered, UuidOf
  <2>3. CASE m # n
    <3>1. UuidOf(m)' = UuidOf(m) /\ UuidOf(m) \in Ids
      BY <1>2, <2>1, <2>3, UuidIsId DEF UuidOf
    <3>2. registry[UuidOf(m)] = m
      BY <2>1 DEF RInv, AttachedIsRegistered
    <3>3. UuidOf(m) # Uuid[n]
      BY <2>1, <2>3, <3>2
    <3> QED BY <1>2, <2>3, <3>1, <3>2, <3>3 DEF Reregistered
  <2> QED BY <2>2, <2>3
<1>4. RegisteredIsAttached'
  <2> SUFFICES ASSUME NEW id \in Ids, registry'[id] # NoNode PROVE registry'[id] \in attached'
    BY DEF RegisteredIsAttached
  <2>1. CASE id = Uuid[n]
    BY <1>1, <1>2, <2>1 DEF Reregistered, Duplicates
  <2>2. CASE id # Uuid[n]
    <3>1. registry'[id] = registry[id] /\ registry[id] \in attached /\ registry[id] \in Nodes
      BY <1>1, <1>2, <2>2 DEF RInv, RegisteredIsAttached, Reregistered, Types
    <3>2. registry[Uuid[n]] # registry[id]
      BY <1>1, <2>2, <3>1 DEF RInv, IInv, RegisteredUnderUuid
    <3> QED BY <1>2, <3>1, <3>2 DEF Duplicates
  <2> QED BY <2>1, <2>2
<1>5. ClosedHoldsNothing'
  BY <1>2 DEF RInv, ClosedHoldsNothing
<1> QED BY <1>3, <1>4, <1>5 DEF RInv

LEMMA RDisconnect ==
  ASSUME RInv, IInv', NEW n \in Nodes, Disconnect(n) PROVE RInv'
<1>1. Types /\ NoNode # n
  BY NodeAssumption DEF RInv, IInv
<1>2. /\ registry' = [id \in Ids |-> IF registry[id] = n THEN NoNode ELSE registry[id]]
      /\ attached' = attached \ {n} /\ UNCHANGED <<identified, locked, open>>
  BY DEF Disconnect, appVars
<1>3. \A m \in attached : UuidOf(m) \in Ids
  BY <1>1, UuidIsId DEF Types
<1>4. AttachedIsRegistered' /\ RegisteredIsAttached' /\ ClosedHoldsNothing'
  BY <1>1, <1>2, <1>3 DEF RInv, AttachedIsRegistered, RegisteredIsAttached, ClosedHoldsNothing, UuidOf
<1> QED BY <1>4 DEF RInv

LEMMA RInductive == RInv /\ [Next]_vars => RInv'
<1> SUFFICES ASSUME RInv, [Next]_vars PROVE RInv'
  OBVIOUS
<1>1. IInv' /\ Types
  BY Inductive DEF RInv, IInv
<1>2. CASE UNCHANGED vars
  BY <1>1, <1>2, RegistryKept DEF vars, nodeVars, appVars, RInv, ClosedHoldsNothing
<1>3. ASSUME NEW n \in Nodes, NodeStep(n) PROVE RInv'
  <2>1. CASE Connect(n) \/ OnDeviceInfo(n) \/ Disconnect(n)
    BY <1>1, <2>1, RConnect, ROnDeviceInfo, RDisconnect
  <2>2. CASE ~ (Connect(n) \/ OnDeviceInfo(n) \/ Disconnect(n))
    <3>1. UNCHANGED <<attached, identified, registry, open, locked>>
      BY <1>3, <2>2 DEF NodeStep, OnDescriptionReceived, TimerExpires, ResendDeviceInfo,
           AnswerLost, AnnounceAgain, nodeVars, appVars
    <3> QED BY <1>1, <3>1, RegistryKept DEF RInv, ClosedHoldsNothing
  <2> QED BY <2>1, <2>2
<1>4. ASSUME NEW a \in Apps, OpenApp(a) \/ CloseApp(a) \/ DoNodeChanged(a) \/ Request(a)
      PROVE  RInv'
  <2>1. UNCHANGED <<attached, identified, registry>>
    BY <1>4 DEF OpenApp, CloseApp, DoNodeChanged, Request, SendFullNodeList, LockNode,
         UnlockNode, UpgradeNodeFirmware, nodeVars
  <2>2. \A b \in Apps \ open', id \in Ids : locked'[b][id] = NoNode
    <3> SUFFICES ASSUME NEW b \in Apps \ open', NEW id \in Ids PROVE locked'[b][id] = NoNode
      OBVIOUS
    <3> USE <1>1 DEF Types, RInv, ClosedHoldsNothing, appVars
    <3>1. CASE OpenApp(a)
      BY <3>1 DEF OpenApp
    <3>2. CASE CloseApp(a)
      BY <3>2 DEF CloseApp
    <3>3. CASE DoNodeChanged(a)
      BY <3>3 DEF DoNodeChanged
    <3>4. CASE SendFullNodeList(a) \/ \E x \in Ids : UpgradeNodeFirmware(a, x)
      BY <3>4 DEF SendFullNodeList, UpgradeNodeFirmware
    <3>5. ASSUME NEW x \in Ids, LockNode(a, x) \/ UnlockNode(a, x) PROVE locked'[b][id] = NoNode
      <4>1. a \in open /\ open' = open /\ \E v : locked' = [locked EXCEPT ![a][x] = v]
        BY <3>5 DEF LockNode, UnlockNode
      <4> QED BY <4>1
    <3> QED BY <1>4, <3>1, <3>2, <3>3, <3>4, <3>5 DEF Request
  <2> QED BY <1>1, <2>1, <2>2, RegistryKept
<1> QED BY <1>2, <1>3, <1>4 DEF Next

\* Every reachable state satisfies the invariant that the refinement needs.
THEOREM RInvariance == Spec => []RInv
BY RInitially, RInductive, PTL DEF Spec

\* A persistent id never names two attached objects, and an attached node is registered under
\* exactly one id, whatever answers of robots come late, twice, or from a second object that
\* stands for the same robot (handle_node_uuid_change, remove_duplicated_node).
THEOREM OneObjectPerRobotAlways == Spec => []OneObjectPerRobot
<1>1. RInv => OneObjectPerRobot
  <2> SUFFICES ASSUME RInv PROVE OneObjectPerRobot
    OBVIOUS
  <2>1. attached \subseteq Nodes
    BY DEF RInv, IInv, Types
  <2>2. ASSUME NEW n \in attached PROVE \E id \in Ids : KeysOf(n) = {id}
    <3>1. UuidOf(n) \in Ids /\ registry[UuidOf(n)] = n
      BY <2>1, UuidIsId DEF RInv, AttachedIsRegistered
    <3>2. \A id \in Ids : registry[id] = n => id = UuidOf(n)
      BY <2>1 DEF RInv, IInv, RegisteredUnderUuid
    <3> QED BY <3>1, <3>2 DEF KeysOf
  <2>3. \A m, n \in attached \cap identified : Uuid[m] = Uuid[n] => m = n
    BY DEF RInv, AttachedIsRegistered, UuidOf
  <2> QED BY <2>2, <2>3 DEF OneObjectPerRobot
<1> QED BY RInvariance, <1>1, PTL

-----------------------------------------------------------------------------
(* The refinement *)

\* Robots whose persistent id is registered, and sessions whose entry under such an id is an
\* attached object.
Registered == {r \in Uuids : registry[r] # NoNode}

Entries == {d \in Apps \X Uuids : locked[d[1]][d[2]] \in attached}

\* An entry for an attached object is the registered one, of the session that owns it.
LEMMA EntryIsOwner ==
  ASSUME RInv, NEW a \in Apps, NEW id \in Ids, locked[a][id] \in attached
  PROVE  /\ locked[a][id] \in Nodes /\ id = UuidOf(locked[a][id])
         /\ locked[a][id] = registry[id] /\ owner[registry[id]] = a
<1>1. locked[a][id] \in Nodes
  BY DEF RInv, IInv, Types
<1>2. id = UuidOf(locked[a][id])
  BY <1>1 DEF RInv, IInv, LockedUnderUuid
<1>3. Alive(locked[a][id])
  BY DEF Alive
<1>4. owner[locked[a][id]] = a
  BY <1>1, <1>3 DEF RInv, IInv, LiveEntryOwns
<1>5. registry[id] = locked[a][id]
  BY <1>2 DEF RInv, AttachedIsRegistered
<1> QED BY <1>1, <1>2, <1>4, <1>5

LEMMA PresentIsRegistered == RInv => Present = Registered
<1> SUFFICES ASSUME RInv PROVE Present = Registered
  OBVIOUS
<1>1. Types
  BY DEF RInv, IInv
<1>2. ASSUME NEW n \in attached \cap identified PROVE Uuid[n] \in Registered
  <2>1. n \in Nodes /\ n # NoNode /\ Uuid[n] \in Uuids /\ UuidOf(n) = Uuid[n]
    BY <1>1, NodeAssumption DEF Types, UuidOf
  <2> QED BY <2>1 DEF RInv, AttachedIsRegistered, Registered
<1>3. ASSUME NEW r \in Registered PROVE \E n \in attached \cap identified : Uuid[n] = r
  <2>1. r \in Uuids /\ r \in Ids /\ registry[r] # NoNode
    BY DEF Registered, Ids
  <2>2. registry[r] \in attached /\ registry[r] \in Nodes
    BY <1>1, <2>1 DEF RInv, RegisteredIsAttached, Types
  <2>3. r = UuidOf(registry[r])
    BY <2>1, <2>2 DEF RInv, IInv, RegisteredUnderUuid
  <2>4. registry[r] \in identified
    BY <2>1, <2>2, <2>3, UuidIsId
  <2> QED BY <2>2, <2>3, <2>4 DEF UuidOf
<1> QED BY <1>2, <1>3 DEF Present

LEMMA DrivesAttached == RInv => Drives = Entries
<1> SUFFICES ASSUME RInv, NEW a \in Apps, NEW r \in Uuids
             PROVE  (\E n \in attached \cap identified, id \in Ids :
                       Uuid[n] = r /\ GetLockedNode(a, id) = n) <=> locked[a][r] \in attached
  BY DEF Drives, Entries
<1>1. Types /\ r \in Ids
  BY DEF RInv, IInv, Ids
<1>2. ASSUME NEW n \in attached \cap identified, NEW id \in Ids, Uuid[n] = r, GetLockedNode(a, id) = n
      PROVE  locked[a][r] \in attached
  <2>1. n \in Nodes /\ n # NoNode /\ UuidOf(n) = r
    BY <1>1, <1>2, NodeAssumption DEF Types, UuidOf
  <2>2. locked[a][id] = n
    BY <1>2, <2>1 DEF GetLockedNode
  <2> QED BY <2>1, <2>2 DEF RInv, IInv, LockedUnderUuid
<1>3. ASSUME locked[a][r] \in attached
      PROVE  \E n \in attached \cap identified, id \in Ids : Uuid[n] = r /\ GetLockedNode(a, id) = n
  <2> DEFINE n == locked[a][r]
  <2>1. n \in Nodes /\ r = UuidOf(n) /\ n # NoNode
    BY <1>1, <1>3, EntryIsOwner, NodeAssumption
  <2>2. n \in identified
    BY <2>1, UuidIsId
  <2>3. GetLockedNode(a, r) = n
    BY <1>3, <2>1 DEF GetLockedNode, Alive
  <2> QED BY <1>1, <1>3, <2>1, <2>2, <2>3 DEF UuidOf
<1> QED BY <1>2, <1>3

LEMMA MappedNext == RInv' => (Present = Registered)' /\ (Drives = Entries)'
BY PresentIsRegistered, DrivesAttached, PTL

\* What a step of NodeLock is, told by what it does to the registry and to the entries.
ExclusiveStep ==
  \/ UNCHANGED <<Registered, open, Entries>>
  \/ \E r \in Uuids :
       \/ /\ r \notin Registered /\ Registered' = Registered \cup {r}
          /\ UNCHANGED <<open, Entries>>
       \/ /\ Registered' = Registered \ {r} /\ Entries' = {d \in Entries : d[2] # r}
          /\ UNCHANGED open
  \/ \E a \in Apps :
       \/ open' = open \cup {a} /\ UNCHANGED <<Registered, Entries>>
       \/ /\ open' = open \ {a} /\ Entries' = {d \in Entries : d[1] # a}
          /\ UNCHANGED Registered
  \/ \E a \in Apps, r \in Uuids :
       \/ /\ a \in open /\ r \in Registered /\ ~\E d \in Entries : d[2] = r
          /\ Entries' = Entries \cup {<<a, r>>} /\ UNCHANGED <<Registered, open>>
       \/ Entries' = Entries \ {<<a, r>>} /\ UNCHANGED <<Registered, open>>

LEMMA StepIsExclusive ==
  ASSUME RInv, RInv', ExclusiveStep
  PROVE  [Exclusive!Next]_(Exclusive!vars)
<1>1. /\ Present = Registered /\ Drives = Entries
      /\ Present' = Registered' /\ Drives' = Entries'
  BY PresentIsRegistered, DrivesAttached, MappedNext
<1> QED
  BY <1>1 DEF ExclusiveStep, Exclusive!Next, Exclusive!vars, Exclusive!Appear, Exclusive!Vanish,
       Exclusive!Open, Exclusive!Close, Exclusive!Take, Exclusive!Lose

\* A first object of a robot is known by its random id only.
LEMMA ConnectIsExclusive ==
  ASSUME RInv, NEW n \in Nodes, Connect(n) PROVE ExclusiveStep
<1>1. Types /\ n \notin Uuids /\ n \in fresh
  BY NodeAssumption DEF RInv, IInv, Connect
<1>2. Registered' = Registered
  BY <1>1 DEF Registered, Connect, Types, Ids
<1>3. \A a \in Apps, r \in Uuids : locked[a][r] # n
  BY <1>1 DEF RInv, IInv, FreshUnknown, Ids
<1>4. Entries' = Entries /\ open' = open
  BY <1>3 DEF Entries, Connect, appVars
<1> QED BY <1>2, <1>4 DEF ExclusiveStep

\* The robot appears, says its id again, or comes back on another connection: the object
\* that stood for it is detached, and the session that drove that object loses the robot.
LEMMA OnDeviceInfoIsExclusive ==
  ASSUME RInv, NEW n \in Nodes, OnDeviceInfo(n) PROVE ExclusiveStep
<1> DEFINE r == Uuid[n]
<1>1. Types /\ n \in attached /\ r \in Uuids /\ r \in Ids /\ n # NoNode
  BY NodeAssumption DEF RInv, IInv, OnDeviceInfo, Ids
<1>2. /\ registry' = Reregistered(n) /\ attached' = attached \ Duplicates(n)
      /\ UNCHANGED <<locked, open>>
  BY DEF OnDeviceInfo, appVars
<1>3. \A x \in Uuids : x # r => registry[x] # n
  <2> SUFFICES ASSUME NEW x \in Uuids, registry[x] = n PROVE x = r
    OBVIOUS
  <2>1. x = UuidOf(n)
    BY DEF RInv, IInv, RegisteredUnderUuid, Ids
  <2> QED BY <2>1, UuidIsId DEF UuidOf
<1>4. Registered' = Registered \cup {r}
  BY <1>1, <1>2, <1>3 DEF Registered, Reregistered, Ids
<1>5. CASE registry[r] \in {NoNode, n}
  <2>1. Duplicates(n) = {}
    BY <1>1, <1>5, NodeAssumption DEF Duplicates, Types
  <2>2. Entries' = Entries
    BY <1>2, <2>1 DEF Entries
  <2> QED BY <1>1, <1>2, <1>4, <2>2 DEF ExclusiveStep
<1>6. CASE registry[r] \notin {NoNode, n}
  <2> DEFINE m == registry[r]
  <2>1. m \in attached /\ m \in Nodes /\ Duplicates(n) = {m}
    BY <1>1, <1>6 DEF RInv, RegisteredIsAttached, Types, Duplicates
  <2>2. Registered' = Registered
    BY <1>1, <1>4, <1>6 DEF Registered
  <2>3. Entries' = {d \in Entries : locked[d[1]][d[2]] # m}
    BY <1>2, <2>1 DEF Entries
  <2>4. \A a \in Apps, x \in Uuids :
           locked[a][x] = m => x = r /\ a = owner[m]
    <3> SUFFICES ASSUME NEW a \in Apps, NEW x \in Uuids, locked[a][x] = m PROVE x = r /\ a = owner[m]
      OBVIOUS
    <3>1. x = UuidOf(m) /\ owner[m] = a
      BY <2>1, EntryIsOwner DEF Ids
    <3>2. r = UuidOf(m)
      BY <1>1, <2>1 DEF RInv, IInv, RegisteredUnderUuid
    <3> QED BY <3>1, <3>2
  <2>5. \A a \in Apps : <<a, r>> \in Entries => locked[a][r] = m
    BY <1>1, EntryIsOwner DEF Entries
  <2> HIDE DEF m, r
  <2>6. Entries \subseteq Apps \X Uuids
    BY DEF Entries
  <2>7. CASE owner[m] \in Apps
    <3>1. Entries' = Entries \ {<<owner[m], r>>}
      BY <2>3, <2>4, <2>5, <2>6, <2>7
    <3> QED BY <1>1, <1>2, <2>2, <2>7, <3>1 DEF ExclusiveStep
  <2>8. CASE owner[m] \notin Apps
    <3>1. Entries' = Entries
      BY <2>3, <2>4, <2>6, <2>8
    <3> QED BY <1>2, <2>2, <3>1 DEF ExclusiveStep
  <2> QED BY <2>7, <2>8
<1> QED BY <1>5, <1>6

\* The robot vanishes with its object; an object that had not told its id stood for none.
LEMMA DisconnectIsExclusive ==
  ASSUME RInv, NEW n \in Nodes, Disconnect(n) PROVE ExclusiveStep
<1>1. Types /\ n \in attached /\ n # NoNode
  BY NodeAssumption DEF RInv, IInv, Disconnect
<1>2. /\ registry' = [id \in Ids |-> IF registry[id] = n THEN NoNode ELSE registry[id]]
      /\ attached' = attached \ {n} /\ UNCHANGED <<locked, open>>
  BY DEF Disconnect, appVars
<1>3. \A x \in Ids : registry[x] = n <=> x = UuidOf(n)
  BY <1>1 DEF RInv, IInv, RegisteredUnderUuid, AttachedIsRegistered
<1>4. \A a \in Apps, x \in Uuids : locked[a][x] \in attached => (locked[a][x] = n <=> x = UuidOf(n))
  BY <1>3, EntryIsOwner DEF Ids
<1>5. Registered' = Registered \ {UuidOf(n)}
  BY <1>1, <1>2, <1>3 DEF Registered, Ids
<1>6. Entries' = {d \in Entries : d[2] # UuidOf(n)}
  BY <1>2, <1>4 DEF Entries
<1>7. CASE n \in identified
  BY <1>2, <1>5, <1>6, <1>7, UuidIsId DEF ExclusiveStep
<1>8. CASE n \notin identified
  <2>1. UuidOf(n) \notin Uuids
    BY <1>8, UuidIsId
  <2>2. Registered' = Registered /\ Entries' = Entries
    BY <1>5, <1>6, <2>1 DEF Registered, Entries
  <2> QED BY <1>2, <2>2 DEF ExclusiveStep
<1> QED BY <1>7, <1>8

\* An entry that is removed: the session loses the robot, or had not driven it.
LEMMA RemovalIsExclusive ==
  ASSUME RInv, NEW a \in Apps, NEW id \in Ids, UNCHANGED <<attached, registry, open>>,
         locked' = [locked EXCEPT ![a][id] = NoNode]
  PROVE  ExclusiveStep
<1>1. Types /\ NoNode \notin attached
  BY NodeAssumption DEF RInv, IInv, Types
<1>2. Registered' = Registered
  BY DEF Registered
<1>3. \A b \in Apps, x \in Uuids :
         locked'[b][x] \in attached <=> locked[b][x] \in attached /\ ~ (b = a /\ x = id)
  BY <1>1 DEF Types, Ids
<1>4. Entries' = {d \in Entries : d # <<a, id>>}
  BY <1>3 DEF Entries
<1>5. CASE id \in Uuids
  BY <1>2, <1>4, <1>5 DEF ExclusiveStep
<1>6. CASE id \notin Uuids
  <2>1. Entries' = Entries
    BY <1>4, <1>6 DEF Entries
  <2> QED BY <1>2, <2>1 DEF ExclusiveStep
<1> QED BY <1>5, <1>6

\* A session that locks a robot takes it when no session drives it, or drives it already.
LEMMA LockNodeIsExclusive ==
  ASSUME RInv, NEW a \in Apps, NEW id \in Ids, LockNode(a, id) PROVE ExclusiveStep
<1> DEFINE n == NodeFromId(id)
<1>1. Types /\ n \in Nodes /\ registry[id] = n /\ n # NoNode /\ IInv
  BY HandedOut, NodeAssumption DEF RInv, IInv, LockNode
<1>2. n \in attached
  BY <1>1 DEF RInv, RegisteredIsAttached
<1>3. a \in open /\ UNCHANGED <<attached, registry, open>>
  BY DEF LockNode
<1>4. \/ locked' = [locked EXCEPT ![a][id] = n] /\ owner[n] \in {a, NoApp}
      \/ locked' = [locked EXCEPT ![a][id] = NoNode]
  BY DEF LockNode, MayLock
<1> HIDE DEF n
<1>5. CASE locked' = [locked EXCEPT ![a][id] = NoNode]
  BY <1>3, <1>5, RemovalIsExclusive
<1>6. CASE locked' = [locked EXCEPT ![a][id] = n] /\ owner[n] \in {a, NoApp}
  <2>1. Registered' = Registered
    BY <1>3 DEF Registered
  <2>2. \A b \in Apps, x \in Uuids :
           locked'[b][x] \in attached <=> locked[b][x] \in attached \/ (b = a /\ x = id)
    BY <1>1, <1>2, <1>6 DEF Types, Ids
  <2>3. \A b \in Apps, x \in Uuids :
           <<b, x>> \in Entries' <=> <<b, x>> \in Entries \/ (b = a /\ x = id)
    BY <1>3, <2>2 DEF Entries
  <2>4. Entries \subseteq Apps \X Uuids /\ Entries' \subseteq Apps \X Uuids
    BY DEF Entries
  <2>5. CASE id \notin Uuids
    <3>1. Entries' = Entries
      BY <2>3, <2>4, <2>5
    <3> QED BY <1>3, <2>1, <3>1 DEF ExclusiveStep
  <2>6. CASE id \in Uuids
    <3>1. Entries' = Entries \cup {<<a, id>>}
      BY <2>3, <2>4, <2>6
    <3>2. \A b \in Apps : <<b, id>> \in Entries => b = a
      <4> SUFFICES ASSUME NEW b \in Apps, <<b, id>> \in Entries PROVE b = a
        OBVIOUS
      <4>1. owner[n] = b
        BY <1>1, EntryIsOwner DEF Entries
      <4> QED BY <1>6, <4>1, NodeAssumption
    <3>3. CASE <<a, id>> \in Entries
      <4>1. Entries' = Entries
        BY <3>1, <3>3
      <4> QED BY <1>3, <2>1, <4>1 DEF ExclusiveStep
    <3>4. CASE <<a, id>> \notin Entries
      <4>1. ~\E d \in Entries : d[2] = id
        BY <2>4, <3>2, <3>4
      <4>2. id \in Registered
        BY <1>1, <2>6 DEF Registered
      <4> QED BY <1>3, <2>1, <2>6, <3>1, <4>1, <4>2 DEF ExclusiveStep
    <3> QED BY <3>3, <3>4
  <2> QED BY <2>5, <2>6
<1> QED BY <1>4, <1>5, <1>6

LEMMA SessionIsExclusive ==
  ASSUME RInv, NEW a \in Apps, OpenApp(a) \/ CloseApp(a) PROVE ExclusiveStep
<1>1. Types /\ NoNode \notin attached
  BY NodeAssumption DEF RInv, IInv, Types
<1>2. /\ UNCHANGED <<attached, registry>>
      /\ locked' = [locked EXCEPT ![a] = [id \in Ids |-> NoNode]]
  BY DEF OpenApp, CloseApp, nodeVars
<1>3. Registered' = Registered
  BY <1>2 DEF Registered
<1>4. \A b \in Apps, x \in Uuids :
         locked'[b][x] \in attached <=> locked[b][x] \in attached /\ b # a
  BY <1>1, <1>2 DEF Types, Ids
<1>5. Entries' = {d \in Entries : d[1] # a}
  BY <1>2, <1>4 DEF Entries
<1>6. CASE OpenApp(a)
  <2>1. \A x \in Uuids : locked[a][x] = NoNode
    BY <1>6 DEF RInv, ClosedHoldsNothing, OpenApp, Ids
  <2>2. Entries' = Entries
    BY <1>1, <1>5, <2>1 DEF Entries
  <2> QED BY <1>3, <1>6, <2>2 DEF ExclusiveStep, OpenApp
<1>7. CASE CloseApp(a)
  BY <1>3, <1>5, <1>7 DEF ExclusiveStep, CloseApp
<1> QED BY <1>6, <1>7

LEMMA QuietIsExclusive ==
  ASSUME UNCHANGED <<attached, registry, open, locked>> PROVE ExclusiveStep
BY DEF ExclusiveStep, Registered, Entries

LEMMA NextIsExclusive == RInv /\ [Next]_vars => ExclusiveStep
<1> SUFFICES ASSUME RInv, [Next]_vars PROVE ExclusiveStep
  OBVIOUS
<1>1. CASE UNCHANGED vars
  BY <1>1, QuietIsExclusive DEF vars, nodeVars, appVars
<1>2. ASSUME NEW n \in Nodes, NodeStep(n) PROVE ExclusiveStep
  <2>1. CASE Connect(n) \/ OnDeviceInfo(n) \/ Disconnect(n)
    BY <2>1, ConnectIsExclusive, OnDeviceInfoIsExclusive, DisconnectIsExclusive
  <2>2. CASE ~ (Connect(n) \/ OnDeviceInfo(n) \/ Disconnect(n))
    <3>1. UNCHANGED <<attached, registry, open, locked>>
      BY <1>2, <2>2 DEF NodeStep, OnDescriptionReceived, TimerExpires, ResendDeviceInfo,
           AnswerLost, AnnounceAgain, nodeVars, appVars
    <3> QED BY <3>1, QuietIsExclusive
  <2> QED BY <2>1, <2>2
<1>3. ASSUME NEW a \in Apps, DoNodeChanged(a) PROVE ExclusiveStep
  <2>1. Types /\ box[a] \in Seq(Changes) /\ box[a] # <<>>
    BY <1>3 DEF RInv, IInv, Types, DoNodeChanged
  <2>2. Head(box[a]) \in Changes
    BY <2>1
  <2>3. Head(box[a]).id \in Ids
    BY <2>2 DEF Changes
  <2>4. /\ UNCHANGED <<attached, registry, open>>
        /\ locked' = locked \/ locked' = [locked EXCEPT ![a][Head(box[a]).id] = NoNode]
    BY <1>3 DEF DoNodeChanged, nodeVars
  <2> QED BY <2>3, <2>4, QuietIsExclusive, RemovalIsExclusive
<1>4. ASSUME NEW a \in Apps, Request(a) PROVE ExclusiveStep
  <2>1. CASE SendFullNodeList(a) \/ \E id \in Ids : UpgradeNodeFirmware(a, id)
    BY <2>1, QuietIsExclusive DEF SendFullNodeList, UpgradeNodeFirmware, nodeVars, appVars
  <2>2. ASSUME NEW id \in Ids, LockNode(a, id) PROVE ExclusiveStep
    BY <2>2, LockNodeIsExclusive
  <2>3. ASSUME NEW id \in Ids, UnlockNode(a, id) PROVE ExclusiveStep
    BY <2>3, RemovalIsExclusive DEF UnlockNode
  <2> QED BY <1>4, <2>1, <2>2, <2>3 DEF Request
<1> QED BY <1>1, <1>2, <1>3, <1>4, SessionIsExclusive DEF Next

\* The device manager implements ExclusiveUse: whatever duplicated objects, repeated and late
\* answers, upgrades, posted changes and sessions that end come between, a robot changes hands
\* only by being given back or lost, and is taken only when it is there and nobody drives it.
THEOREM Implements == Spec => ImplementsExclusiveUse
<1>1. Init => Exclusive!Init
  BY DEF Init, Exclusive!Init, Present, Drives
<1>2. RInv /\ RInv' /\ [Next]_vars => [Exclusive!Next]_(Exclusive!vars)
  BY NextIsExclusive, StepIsExclusive
<1> QED BY RInvariance, <1>1, <1>2, PTL DEF Spec, Exclusive!Spec, ImplementsExclusiveUse

-----------------------------------------------------------------------------
(* Owners keep their entries                                               *)
(*                                                                         *)
(* A session's entry is removed by a posted "disconnected" that it is told *)
(* of late, when the robot has come back and been locked again.  With      *)
(* answers in turn this does not happen, however often robots come back.   *)

\* Each object tells once which robot it stands for, when every session has been told all there
\* is to tell of the objects that stood for the robot before.
AnswersInTurn ==
  \A n \in Nodes : OnDeviceInfo(n) =>
     n \notin identified /\ \A m \in identified : Uuid[m] = Uuid[n] => m \notin Posted

\* The changes that are posted to some session.
Waiting == {c \in Changes : \E a \in Apps : \E i \in DOMAIN box[a] : box[a][i] = c}

\* A change tells the random id of the node, or the persistent one when it has it.
ChangesNamed ==
  \A c \in Waiting : c.id = c.node \/ (c.node \in identified /\ c.id = Uuid[c.node])

\* No object that sessions have yet to hear of has the id of an attached one.
GoneIsApart == \A m \in Posted, n \in attached : UuidOf(m) = UuidOf(n) => m = n

\* No session has yet to hear of the loss of an id that an attached object has.
NoLossWaits ==
  \A c \in Waiting, n \in attached : c.id = UuidOf(n) => c.status # "disconnected"

AttachedIsConnected == \A n \in attached : status[n] # "disconnected"

FreshIsFree == \A n \in fresh : owner[n] = NoApp

OwnerHasEntry ==
  \A n \in attached : owner[n] # NoApp =>
     owner[n] \in open /\ locked[owner[n]][UuidOf(n)] = n

TInv ==
  /\ ChangesNamed
  /\ GoneIsApart
  /\ NoLossWaits
  /\ AttachedIsConnected
  /\ FreshIsFree
  /\ OwnerHasEntry

LEMMA WaitingIsPosted ==
  ASSUME Types, NEW c \in Waiting
  PROVE  c \in Changes /\ c.node \in Posted
<1>1. c \in Changes /\ c.node \in Nodes
  BY DEF Waiting, Changes
<1>2. PICK a \in Apps : \E i \in DOMAIN box[a] : box[a][i] = c
  BY DEF Waiting
<1> QED BY <1>1, <1>2 DEF Posted

\* What posting leaves to be told.
LEMMA PostingWaits ==
  ASSUME Types, NEW S \in SUBSET Apps, NEW changes \in Seq(Changes), NEW W,
         \A i \in DOMAIN changes : changes[i] \in W,
         box' = Signalled(S, changes)
  PROVE  Waiting' \subseteq Waiting \cup W
<1> SUFFICES ASSUME NEW c \in Waiting' PROVE c \in Waiting \cup W
  OBVIOUS
<1>1. c \in Changes
  BY DEF Waiting
<1>2. PICK a \in Apps : \E i \in DOMAIN box'[a] : box'[a][i] = c
  BY DEF Waiting
<1>3. PICK i \in DOMAIN box'[a] : box'[a][i] = c
  BY <1>2
<1>4. CASE a \notin S
  <2>1. box'[a] = box[a]
    BY <1>4 DEF Signalled
  <2> QED BY <2>1, <1>1, <1>3 DEF Waiting
<1>5. CASE a \in S
  <2>1. box'[a] = box[a] \o changes /\ box[a] \in Seq(Changes)
    BY <1>5 DEF Signalled, Types
  <2>2. CASE i \in DOMAIN box[a]
    <3>1. box'[a][i] = box[a][i]
      BY <2>1, <2>2
    <3> QED BY <1>1, <1>3, <2>2, <3>1 DEF Waiting
  <2>3. CASE i \notin DOMAIN box[a]
    <3>1. i - Len(box[a]) \in DOMAIN changes /\ box'[a][i] = changes[i - Len(box[a])]
      BY <1>3, <2>1, <2>3
    <3> QED BY <1>3, <3>1
  <2> QED BY <2>2, <2>3
<1> QED BY <1>4, <1>5

\* set_node_status announces attached nodes only, under the id they have.
LEMMA AnnouncedIs ==
  ASSUME RInv, NEW n \in Nodes, NEW s \in Statuses
  PROVE  /\ n \notin attached => Announced(n, s) = <<>>
         /\ n \in attached => Announced(n, s) = <<Change(n, UuidOf(n), s)>>
         /\ Change(n, UuidOf(n), s) \in Changes
<1>1. n # NoNode /\ UuidOf(n) \in Ids
  BY NodeAssumption, UuidIsId
<1>2. CASE n \notin attached
  <2>1. KeysOf(n) = {}
    BY <1>1, <1>2 DEF RInv, RegisteredIsAttached, KeysOf
  <2> QED BY <1>1, <1>2, <2>1 DEF Announced, Change, Changes
<1>3. CASE n \in attached
  <2>1. KeysOf(n) = {UuidOf(n)}
    BY <1>1, <1>3 DEF RInv, IInv, AttachedIsRegistered, RegisteredUnderUuid, KeysOf
  <2>2. (CHOOSE id \in KeysOf(n) : TRUE) = UuidOf(n)
    BY <2>1
  <2> QED BY <1>1, <1>3, <2>1, <2>2 DEF Announced, Change, Changes
<1> QED BY <1>2, <1>3

LEMMA AttachedApart ==
  ASSUME RInv, NEW m \in attached, NEW n \in attached, UuidOf(m) = UuidOf(n)
  PROVE  m = n
BY DEF RInv, AttachedIsRegistered

\* Steps that attach no object, change no id, and announce attached nodes: a loss, if the node
\* is attached no more.
LEMMA ChangesKept ==
  ASSUME RInv, Types', ChangesNamed, GoneIsApart, NoLossWaits,
         attached' \subseteq attached, identified' = identified,
         NEW W \in SUBSET Changes, Waiting' \subseteq Waiting \cup W,
         Posted' \subseteq Posted \cup {c.node : c \in W},
         \A c \in W : /\ c.node \in attached /\ c.id = UuidOf(c.node)
                      /\ c.status = "disconnected" => c.node \notin attached'
  PROVE  ChangesNamed' /\ GoneIsApart' /\ NoLossWaits'
<1>1. Types /\ attached \subseteq Nodes
  BY DEF RInv, IInv, Types
<1>2. \A m \in Nodes : UuidOf(m)' = UuidOf(m)
  BY DEF UuidOf
<1>3. ChangesNamed'
  BY <1>1 DEF ChangesNamed, UuidOf
<1>4. GoneIsApart'
  <2> SUFFICES ASSUME NEW m \in Posted', NEW n \in attached', UuidOf(m)' = UuidOf(n)'
               PROVE  m = n
    BY DEF GoneIsApart
  <2>1. m \in Nodes /\ n \in attached /\ UuidOf(m) = UuidOf(n)
    BY <1>1, <1>2 DEF Posted
  <2>2. CASE m \in Posted
    BY <2>1, <2>2 DEF GoneIsApart
  <2>3. CASE m \in attached
    BY <2>1, <2>3, AttachedApart
  <2> QED BY <2>2, <2>3
<1>5. NoLossWaits'
  <2> SUFFICES ASSUME NEW c \in Waiting', NEW n \in attached', c.id = UuidOf(n)'
               PROVE  c.status # "disconnected"
    BY DEF NoLossWaits
  <2>1. n \in attached /\ c.id = UuidOf(n)
    BY <1>1, <1>2
  <2>2. CASE c \in Waiting
    BY <2>1, <2>2 DEF NoLossWaits
  <2>3. CASE c \in W
    BY <2>1, <2>3, AttachedApart
  <2> QED BY <2>2, <2>3
<1> QED BY <1>3, <1>4, <1>5

LEMMA AnnouncingKeeps ==
  ASSUME RInv, Types', TInv, NEW n \in Nodes, NEW s \in Statuses,
         box' = Signalled(open, Announced(n, s)),
         attached' \subseteq attached, identified' = identified,
         s = "disconnected" => n \notin attached'
  PROVE  ChangesNamed' /\ GoneIsApart' /\ NoLossWaits'
<1> DEFINE changes == Announced(n, s)
           W == IF n \in attached THEN {Change(n, UuidOf(n), s)} ELSE {}
           N == {c.node : c \in W}
<1>1. Types /\ open \in SUBSET Apps
  BY DEF RInv, IInv, Types
<1>2. changes \in Seq(Changes)
  BY Announcing
<1>3. \A i \in DOMAIN changes : changes[i] \in W /\ changes[i].node \in N
  BY AnnouncedIs
<1>4. W \in SUBSET Changes /\ N \in SUBSET Nodes
  BY AnnouncedIs DEF Change
<1>5. \A c \in W : /\ c.node \in attached /\ c.id = UuidOf(c.node)
                   /\ c.status = "disconnected" => c.node \notin attached'
  BY DEF Change
<1>6. box' = Signalled(open, changes)
  OBVIOUS
<1> HIDE DEF changes, W
<1>7. Waiting' \subseteq Waiting \cup W
  BY ONLY <1>1, <1>2, <1>3, <1>6, PostingWaits
<1>8. Posted' \subseteq Posted \cup N
  <2> HIDE DEF N
  <2> QED BY ONLY <1>1, <1>2, <1>3, <1>4, <1>6, Posting
<1> QED BY <1>4, <1>5, <1>7, <1>8, ChangesKept DEF TInv

\* Steps that post nothing more, and leave the objects and their ids as they are.
LEMMA SilenceKeeps ==
  ASSUME RInv, Types', TInv, attached' = attached, identified' = identified,
         Waiting' \subseteq Waiting, Posted' \subseteq Posted
  PROVE  ChangesNamed' /\ GoneIsApart' /\ NoLossWaits'
<1> DEFINE W == {}
<1>1. /\ W \in SUBSET Changes /\ Waiting' \subseteq Waiting \cup W
      /\ Posted' \subseteq Posted \cup {c.node : c \in W}
      /\ \A c \in W : /\ c.node \in attached /\ c.id = UuidOf(c.node)
                      /\ c.status = "disconnected" => c.node \notin attached'
  OBVIOUS
<1> HIDE DEF W
<1> QED BY <1>1, ChangesKept DEF TInv

\* Steps that change no owner and remove no entry.
LEMMA OwnersKept ==
  ASSUME RInv, TInv, fresh' \subseteq fresh, attached' \subseteq attached,
         identified' = identified, owner' = owner, open' = open, locked' = locked,
         \A n \in attached' : status'[n] # "disconnected"
  PROVE  AttachedIsConnected' /\ FreshIsFree' /\ OwnerHasEntry'
<1>1. \A n \in Nodes : UuidOf(n)' = UuidOf(n)
  BY DEF UuidOf
<1>2. attached' \subseteq Nodes
  BY DEF RInv, IInv, Types
<1> QED BY <1>1, <1>2 DEF TInv, AttachedIsConnected, FreshIsFree, OwnerHasEntry

-----------------------------------------------------------------------------
LEMMA TInitially == Init => TInv
<1> SUFFICES ASSUME Init PROVE TInv
  OBVIOUS
<1>1. Waiting = {} /\ Posted = {} /\ attached = {}
  BY DEF Init, Waiting, Posted
<1> QED BY <1>1
      DEF Init, TInv, ChangesNamed, GoneIsApart, NoLossWaits, AttachedIsConnected, FreshIsFree, OwnerHasEntry

LEMMA TConnect ==
  ASSUME RInv, RInv', TInv, NEW n \in Nodes, Connect(n) PROVE TInv'
<1> DEFINE c0 == Change(n, n, "connected")
           changes == <<c0>>
           W == {c0}
           N == {n}
<1>1. /\ Types /\ Types' /\ open \in SUBSET Apps /\ attached \subseteq Nodes
      /\ n \notin attached /\ n \notin Posted /\ n \notin identified /\ n \in fresh
  BY DEF RInv, IInv, Types, FreshUnknown, Connect
<1>2. c0 \in Changes /\ c0.node = n /\ c0.id = n /\ c0.status = "connected"
  BY DEF Change, Changes, Ids, Statuses
<1>3. /\ attached' = attached \cup {n} /\ fresh' = fresh \ {n}
      /\ status' = [status EXCEPT ![n] = "connected"]
      /\ box' = Signalled(open, changes)
      /\ UNCHANGED <<owner, identified, open, locked>>
  BY DEF Connect, appVars
<1> HIDE DEF c0
<1>4. changes \in Seq(Changes) /\ \A i \in DOMAIN changes : changes[i] \in W /\ changes[i].node \in N
  BY <1>2
<1>5. N \in SUBSET Nodes
  OBVIOUS
<1> HIDE DEF changes, W, N
<1>6. Waiting' \subseteq Waiting \cup W
  BY ONLY <1>1, <1>3, <1>4, PostingWaits
<1>7. Posted' \subseteq Posted \cup N
  BY ONLY <1>1, <1>3, <1>4, <1>5, Posting
<1> USE DEF W, N
<1>8. \A m \in Nodes : /\ UuidOf(m)' = UuidOf(m)
                       /\ UuidOf(m) = n => m = n
  BY <1>3, NodeAssumption DEF UuidOf
<1>9. UuidOf(n) = n
  BY <1>1 DEF UuidOf
<1>10. ChangesNamed'
  BY <1>2, <1>3, <1>6 DEF TInv, ChangesNamed
<1>11. GoneIsApart'
  <2> SUFFICES ASSUME NEW m \in Posted', NEW x \in attached', UuidOf(m)' = UuidOf(x)'
               PROVE  m = x
    BY DEF GoneIsApart
  <2>1. m \in Nodes /\ x \in Nodes /\ UuidOf(m) = UuidOf(x)
    BY <1>1, <1>3, <1>8 DEF Posted
  <2>2. CASE m = n \/ x = n
    BY <1>8, <1>9, <2>1, <2>2
  <2>3. CASE m # n /\ x # n
    BY <1>3, <1>7, <2>1, <2>3 DEF TInv, GoneIsApart
  <2> QED BY <2>2, <2>3
<1>12. NoLossWaits'
  <2> SUFFICES ASSUME NEW c \in Waiting', NEW x \in attached', c.id = UuidOf(x)'
               PROVE  c.status # "disconnected"
    BY DEF NoLossWaits
  <2>1. x \in Nodes /\ c.id = UuidOf(x)
    BY <1>1, <1>3, <1>8
  <2>2. CASE c \in W
    BY <1>2, <2>2
  <2>3. CASE c \in Waiting /\ x # n
    BY <1>3, <2>1, <2>3 DEF TInv, NoLossWaits
  <2>4. CASE c \in Waiting /\ x = n
    <3>1. c.node \in Posted /\ c.node \in Nodes
      BY <1>1, <2>4, WaitingIsPosted DEF Posted
    <3>2. c.id = n
      BY <1>9, <2>1, <2>4
    <3>3. c.node # n
      BY <1>1, <3>1
    <3>4. c.id = Uuid[c.node]
      BY <2>4, <3>2, <3>3 DEF TInv, ChangesNamed
    <3> QED BY <3>1, <3>2, <3>4, NodeAssumption
  <2> QED BY <1>6, <2>2, <2>3, <2>4
<1>13. AttachedIsConnected' /\ FreshIsFree'
  BY <1>1, <1>3 DEF TInv, AttachedIsConnected, FreshIsFree, Types
<1>14. OwnerHasEntry'
  BY <1>1, <1>3, <1>8 DEF TInv, FreshIsFree, OwnerHasEntry
<1> QED BY <1>10, <1>11, <1>12, <1>13, <1>14 DEF TInv

\* Steps of the robot, its timer and its announcements.
LEMMA TQuiet ==
  ASSUME RInv, RInv', TInv, UNCHANGED <<nodeVars, open, locked, box>> PROVE TInv'
<1>1. Waiting' = Waiting /\ Posted' = Posted /\ Types'
  BY DEF Waiting, Posted, RInv, IInv
<1>2. ChangesNamed' /\ GoneIsApart' /\ NoLossWaits'
  BY <1>1, SilenceKeeps DEF nodeVars
<1>3. AttachedIsConnected' /\ FreshIsFree' /\ OwnerHasEntry'
  BY OwnersKept DEF nodeVars, TInv, AttachedIsConnected
<1> QED BY <1>2, <1>3 DEF TInv

\* Steps that announce the new status of an attached node, which keeps its owner.
LEMMA TAnnounce ==
  ASSUME RInv, RInv', TInv, NEW n \in Nodes, NEW s \in Statuses,
         box' = Signalled(open, Announced(n, s)),
         fresh' = fresh, attached' \subseteq attached, identified' = identified,
         owner' = owner, open' = open, locked' = locked,
         s = "disconnected" => n \notin attached',
         \A m \in attached' : status'[m] # "disconnected"
  PROVE  TInv'
<1>1. Types'
  BY DEF RInv, IInv
<1>2. ChangesNamed' /\ GoneIsApart' /\ NoLossWaits'
  BY <1>1, AnnouncingKeeps
<1>3. AttachedIsConnected' /\ FreshIsFree' /\ OwnerHasEntry'
  BY OwnersKept
<1> QED BY <1>2, <1>3 DEF TInv

LEMMA TNodeStep ==
  ASSUME RInv, RInv', TInv, NEW n \in Nodes, NodeStep(n), ~Connect(n), ~OnDeviceInfo(n)
  PROVE  TInv'
<1>1. Types
  BY DEF RInv, IInv
<1>2. CASE OnDescriptionReceived(n)
  <2>1. CASE n \in Simulated
    <3>1. /\ box' = Signalled(open, Announced(n, "available"))
          /\ status' = [status EXCEPT ![n] = "available"]
          /\ UNCHANGED <<fresh, attached, identified, owner, open, locked>>
      BY <1>2, <2>1 DEF OnDescriptionReceived, appVars
    <3>2. \A m \in attached' : status'[m] # "disconnected"
      BY <1>1, <3>1 DEF Types, TInv, AttachedIsConnected
    <3> QED BY <3>1, <3>2, TAnnounce DEF Statuses
  <2>2. CASE n \notin Simulated
    BY <1>2, <2>2, TQuiet DEF OnDescriptionReceived, nodeVars, appVars
  <2> QED BY <2>1, <2>2
<1>3. CASE TimerExpires(n) \/ ResendDeviceInfo(n) \/ AnswerLost(n)
  BY <1>3, TQuiet DEF TimerExpires, ResendDeviceInfo, AnswerLost, appVars
<1>4. CASE AnnounceAgain(n)
  <2>1. /\ n \in attached /\ box' = Signalled(open, Announced(n, status[n]))
        /\ UNCHANGED <<nodeVars, open, locked>>
    BY <1>4 DEF AnnounceAgain, appVars
  <2>2. /\ status[n] \in Statuses
        /\ \A m \in attached' : status'[m] # "disconnected" /\ status[m] # "disconnected"
    BY <1>1, <2>1 DEF Types, TInv, AttachedIsConnected, nodeVars
  <2> QED BY <2>1, <2>2, TAnnounce DEF nodeVars
<1>5. CASE Disconnect(n)
  <2>1. /\ box' = Signalled(open, Announced(n, "disconnected"))
        /\ status' = [status EXCEPT ![n] = "disconnected"] /\ attached' = attached \ {n}
        /\ UNCHANGED <<fresh, identified, owner, open, locked>>
    BY <1>5 DEF Disconnect, appVars
  <2>2. \A m \in attached' : status'[m] # "disconnected"
    BY <1>1, <2>1 DEF Types, TInv, AttachedIsConnected
  <2> QED BY <2>1, <2>2, TAnnounce DEF Statuses
<1> QED BY <1>2, <1>3, <1>4, <1>5 DEF NodeStep

\* The node has no owner before it tells which robot it stands for, and no session has to hear
\* of an earlier object of the robot.
LEMMA TOnDeviceInfo ==
  ASSUME RInv, RInv', TInv, NEW n \in Nodes, OnDeviceInfo(n), n \notin identified,
         \A m \in identified : Uuid[m] = Uuid[n] => m \notin Posted
  PROVE  TInv'
<1> DEFINE gone == Announced(n, "disconnected")
           lost == Change(n, n, "disconnected")
           back == Change(n, Uuid[n], "available")
           changes == gone \o <<back>>
           W == {lost, back}
           N == {n}
<1>1. /\ Types /\ Types' /\ open \in SUBSET Apps /\ attached \subseteq Nodes /\ n \in attached
      /\ Uuid[n] \in Uuids /\ Uuid[n] \in Ids /\ n \in Ids /\ Uuid[n] # n
  BY NodeAssumption DEF RInv, IInv, Types, OnDeviceInfo, Ids
<1>2. n \notin Simulated
  BY <1>1 DEF OnDeviceInfo, RInv, IInv, SimulatedKeepsId
<1>3. owner[n] = NoApp
  BY <1>2 DEF RInv, IInv, LockedIsSettled, Settled
<1>4. /\ lost \in Changes /\ lost.node = n /\ lost.id = n
      /\ back \in Changes /\ back.node = n /\ back.id = Uuid[n] /\ back.status = "available"
  BY <1>1 DEF Change, Changes, Statuses
<1>5. gone = <<lost>>
  <2>1. UuidOf(n) = n
    BY DEF UuidOf
  <2> QED BY <1>1, <2>1, AnnouncedIs DEF Statuses
<1>6. /\ attached' = attached \ Duplicates(n) /\ identified' = identified \cup {n}
      /\ status' = [m \in Nodes |-> IF m = n THEN "available"
                                    ELSE IF m \in Duplicates(n) THEN "disconnected" ELSE status[m]]
      /\ box' = Signalled(open, changes)
      /\ UNCHANGED <<fresh, owner, open, locked>>
  BY DEF OnDeviceInfo, appVars
<1> HIDE DEF lost, back, gone
<1>7. changes \in Seq(Changes) /\ \A i \in DOMAIN changes : changes[i] \in W /\ changes[i].node \in N
  BY <1>4, <1>5
<1>8. N \in SUBSET Nodes
  OBVIOUS
<1> HIDE DEF changes, W, N
<1>9. Waiting' \subseteq Waiting \cup W
  BY ONLY <1>1, <1>6, <1>7, PostingWaits
<1>10. Posted' \subseteq Posted \cup N
  BY ONLY <1>1, <1>6, <1>7, <1>8, Posting
<1> USE DEF W, N
<1>11. \A m \in Nodes : UuidOf(m)' = IF m = n THEN Uuid[n] ELSE UuidOf(m)
  BY <1>6 DEF UuidOf
<1>12. \A m \in Nodes : UuidOf(m) = Uuid[n] => m \in identified /\ Uuid[m] = Uuid[n] /\ m \notin Posted
  BY <1>1, NodeAssumption DEF UuidOf
<1>13. \A m \in attached' : m # n => UuidOf(m) # Uuid[n]
  BY <1>6 DEF Duplicates, RInv, AttachedIsRegistered
<1>14. ChangesNamed'
  BY <1>4, <1>6, <1>9 DEF TInv, ChangesNamed
<1>15. GoneIsApart'
  <2> SUFFICES ASSUME NEW m \in Posted', NEW x \in attached', UuidOf(m)' = UuidOf(x)'
               PROVE  m = x
    BY DEF GoneIsApart
  <2>1. m \in Nodes /\ x \in Nodes /\ x \in attached
    BY <1>1, <1>6 DEF Posted
  <2>2. CASE m # n /\ x # n
    BY <1>10, <1>11, <2>1, <2>2 DEF TInv, GoneIsApart
  <2>3. CASE m # n /\ x = n
    BY <1>10, <1>11, <1>12, <2>1, <2>3
  <2>4. CASE m = n /\ x # n
    BY <1>11, <1>13, <2>1, <2>4
  <2> QED BY <2>2, <2>3, <2>4
<1>16. NoLossWaits'
  <2> SUFFICES ASSUME NEW c \in Waiting', NEW x \in attached', c.id = UuidOf(x)'
               PROVE  c.status # "disconnected"
    BY DEF NoLossWaits
  <2>1. x \in Nodes /\ x \in attached
    BY <1>1, <1>6
  <2>2. CASE c = back
    BY <1>4, <2>2
  <2>3. CASE c = lost
    <3>1. UuidOf(x)' # n
      <4>1. CASE x = n
        BY <1>1, <1>11, <4>1
      <4>2. CASE x # n
        BY <1>1, <1>11, <2>1, <4>2, NodeAssumption DEF UuidOf
      <4> QED BY <4>1, <4>2
    <3> QED BY <1>4, <2>3, <3>1
  <2>4. CASE c \in Waiting /\ x # n
    BY <1>11, <2>1, <2>4 DEF TInv, NoLossWaits
  <2>5. CASE c \in Waiting /\ x = n
    <3>1. c.node \in Posted /\ c.node \in Nodes /\ c.id = Uuid[n]
      BY <1>1, <1>11, <2>1, <2>5, WaitingIsPosted DEF Posted
    <3>2. c.id # c.node
      BY <1>1, <3>1, NodeAssumption
    <3>3. c.node \in identified /\ c.id = Uuid[c.node]
      BY <2>5, <3>2 DEF TInv, ChangesNamed
    <3> QED BY <3>1, <3>3
  <2> QED BY <1>9, <2>2, <2>3, <2>4, <2>5
<1>17. AttachedIsConnected' /\ FreshIsFree'
  BY <1>1, <1>6 DEF TInv, AttachedIsConnected, FreshIsFree
<1>18. OwnerHasEntry'
  BY <1>1, <1>3, <1>6, <1>11 DEF TInv, OwnerHasEntry
<1> QED BY <1>14, <1>15, <1>16, <1>17, <1>18 DEF TInv

-----------------------------------------------------------------------------
LEMMA TOpenApp ==
  ASSUME RInv, RInv', TInv, NEW a \in Apps, OpenApp(a) PROVE TInv'
<1>1. /\ UNCHANGED <<nodeVars, box>> /\ a \notin open /\ open' = open \cup {a}
      /\ locked' = [locked EXCEPT ![a] = [id \in Ids |-> NoNode]] /\ Types /\ Types'
  BY DEF OpenApp, RInv, IInv
<1>2. Waiting' = Waiting /\ Posted' = Posted /\ \A n \in Nodes : UuidOf(n)' = UuidOf(n)
  BY <1>1 DEF Waiting, Posted, UuidOf, nodeVars
<1>3. ChangesNamed' /\ GoneIsApart' /\ NoLossWaits'
  BY <1>1, <1>2, SilenceKeeps DEF nodeVars
<1>4. AttachedIsConnected' /\ FreshIsFree'
  BY <1>1 DEF TInv, AttachedIsConnected, FreshIsFree, nodeVars
<1>5. OwnerHasEntry'
  BY <1>1, <1>2 DEF TInv, OwnerHasEntry, nodeVars, Types
<1> QED BY <1>3, <1>4, <1>5 DEF TInv

\* What remains to be told when a session has been told its first change.
LEMMA TellingWaits ==
  ASSUME Types, NEW a \in Apps, box[a] # <<>>, box' = [box EXCEPT ![a] = Tail(@)]
  PROVE  /\ Head(box[a]) \in Waiting
         /\ Waiting' \subseteq Waiting /\ Posted' \subseteq Posted
<1>1. box[a] \in Seq(Changes) /\ box'[a] = Tail(box[a]) /\ \A b \in Apps \ {a} : box'[b] = box[b]
  BY DEF Types
<1>2. 1 \in DOMAIN box[a] /\ box[a][1] = Head(box[a]) /\ Head(box[a]) \in Changes
  BY <1>1
<1>3. Head(box[a]) \in Waiting
  BY <1>2 DEF Waiting
<1>4. ASSUME NEW b \in Apps, NEW i \in DOMAIN box'[b]
      PROVE  \E j \in DOMAIN box[b] : box[b][j] = box'[b][i]
  <2>1. CASE b = a
    <3>1. i \in DOMAIN Tail(box[a]) /\ box'[b][i] = Tail(box[a])[i]
      BY <1>1, <1>4, <2>1
    <3>2. i + 1 \in DOMAIN box[a] /\ box[a][i + 1] = Tail(box[a])[i]
      BY <1>1, <3>1
    <3> QED BY <2>1, <3>1, <3>2
  <2>2. CASE b # a
    BY <1>1, <1>4, <2>2
  <2> QED BY <2>1, <2>2
<1>5. Waiting' \subseteq Waiting
  <2> SUFFICES ASSUME NEW c \in Waiting' PROVE c \in Waiting
    OBVIOUS
  <2>1. PICK b \in Apps : \E i \in DOMAIN box'[b] : box'[b][i] = c
    BY DEF Waiting
  <2>2. PICK i \in DOMAIN box'[b] : box'[b][i] = c
    BY <2>1
  <2>3. c \in Changes
    BY DEF Waiting
  <2> QED BY <1>4, <2>2, <2>3 DEF Waiting
<1>6. Posted' \subseteq Posted
  <2> SUFFICES ASSUME NEW n \in Posted' PROVE n \in Posted
    OBVIOUS
  <2>1. n \in Nodes
    BY DEF Posted
  <2>2. PICK b \in Apps : \E i \in DOMAIN box'[b] : box'[b][i].node = n
    BY DEF Posted
  <2>3. PICK i \in DOMAIN box'[b] : box'[b][i].node = n
    BY <2>2
  <2>4. PICK j \in DOMAIN box[b] : box[b][j] = box'[b][i]
    BY <1>4
  <2> QED BY <2>1, <2>3, <2>4 DEF Posted
<1> QED BY <1>3, <1>5, <1>6

\* A session told of a loss removes no entry of an attached node.
LEMMA TDoNodeChanged ==
  ASSUME RInv, RInv', TInv, NEW a \in Apps, DoNodeChanged(a) PROVE TInv'
<1> DEFINE c == Head(box[a])
<1>1. /\ Types /\ Types' /\ UNCHANGED <<nodeVars, open>> /\ box[a] # <<>>
      /\ box' = [box EXCEPT ![a] = Tail(@)]
      /\ locked' = IF c.status = "disconnected" THEN [locked EXCEPT ![a][c.id] = NoNode] ELSE locked
  BY DEF DoNodeChanged, RInv, IInv
<1>2. c \in Waiting /\ Waiting' \subseteq Waiting /\ Posted' \subseteq Posted
  BY <1>1, TellingWaits
<1> HIDE DEF c
<1>3. ChangesNamed' /\ GoneIsApart' /\ NoLossWaits'
  BY <1>1, <1>2, SilenceKeeps DEF nodeVars
<1>4. AttachedIsConnected' /\ FreshIsFree'
  BY <1>1 DEF TInv, AttachedIsConnected, FreshIsFree, nodeVars
<1>5. OwnerHasEntry'
  <2> SUFFICES ASSUME NEW n \in attached, owner[n] # NoApp
               PROVE  owner[n] \in open /\ locked'[owner[n]][UuidOf(n)] = n
    BY <1>1 DEF OwnerHasEntry, UuidOf, nodeVars
  <2>1. owner[n] \in open /\ locked[owner[n]][UuidOf(n)] = n
    BY DEF TInv, OwnerHasEntry
  <2>2. c.status = "disconnected" => c.id # UuidOf(n)
    BY <1>2 DEF TInv, NoLossWaits
  <2>3. owner[n] \in Apps /\ UuidOf(n) \in Ids /\ c \in Changes /\ c.id \in Ids
    BY <1>1, <1>2, <2>1, UuidIsId DEF Types, Waiting, Changes
  <2> QED BY <1>1, <2>1, <2>2, <2>3 DEF Types
<1> QED BY <1>3, <1>4, <1>5 DEF TInv

LEMMA TLockNode ==
  ASSUME RInv, RInv', TInv, NEW a \in Apps, NEW id \in Ids, LockNode(a, id) PROVE TInv'
<1> DEFINE n == NodeFromId(id)
<1>1. Types /\ Types' /\ n \in Nodes /\ registry[id] = n /\ n # NoNode /\ IInv /\ a # NoApp
  BY HandedOut, NodeAssumption DEF RInv, IInv, LockNode
<1>2. n \in attached /\ id = UuidOf(n)
  BY <1>1 DEF RInv, RegisteredIsAttached, IInv, RegisteredUnderUuid
<1>3. a \in open /\ UNCHANGED <<fresh, attached, identified, registry, open>>
  BY DEF LockNode
<1>4. \/ /\ owner[n] = a
         /\ locked' = [locked EXCEPT ![a][id] = n]
         /\ UNCHANGED <<status, owner, box>>
      \/ /\ owner[n] = NoApp
         /\ locked' = [locked EXCEPT ![a][id] = n]
         /\ owner' = [owner EXCEPT ![n] = a]
         /\ status' = [status EXCEPT ![n] = "busy"]
         /\ box' = Signalled(open, Announced(n, "busy"))
      \/ /\ owner[n] # a
         /\ locked' = [locked EXCEPT ![a][id] = NoNode]
         /\ UNCHANGED <<status, owner, box>>
  BY DEF LockNode, MayLock, Locked
<1> HIDE DEF n
<1>5. ChangesNamed' /\ GoneIsApart' /\ NoLossWaits'
  <2>1. CASE UNCHANGED box
    <3>1. Waiting' = Waiting /\ Posted' = Posted
      BY <2>1 DEF Waiting, Posted
    <3> QED BY <1>1, <1>3, <3>1, SilenceKeeps
  <2>2. CASE box' = Signalled(open, Announced(n, "busy"))
    BY <1>1, <1>3, <2>2, AnnouncingKeeps DEF Statuses
  <2> QED BY <1>4, <2>1, <2>2
<1>6. AttachedIsConnected'
  BY <1>1, <1>3, <1>4 DEF TInv, AttachedIsConnected, Types
<1>7. n \notin fresh
  BY <1>1, <1>2 DEF IInv, FreshUnknown
<1>8. FreshIsFree'
  BY <1>1, <1>3, <1>4, <1>7 DEF TInv, FreshIsFree, Types
<1>9. OwnerHasEntry'
  <2> SUFFICES ASSUME NEW x \in attached, owner'[x] # NoApp
               PROVE  owner'[x] \in open /\ locked'[owner'[x]][UuidOf(x)] = x
    BY <1>3 DEF OwnerHasEntry, UuidOf
  <2>1. x \in Nodes /\ UuidOf(x) \in Ids
    BY <1>1, UuidIsId DEF Types
  <2>2. CASE x = n
    BY <1>1, <1>2, <1>3, <1>4, <2>1, <2>2 DEF Types, TInv, OwnerHasEntry
  <2>3. CASE x # n
    <3>1. owner'[x] = owner[x] /\ UuidOf(x) # id
      BY <1>1, <1>2, <1>4, <2>1, <2>3, AttachedApart DEF Types
    <3>2. owner[x] \in open /\ owner[x] \in Apps /\ locked[owner[x]][UuidOf(x)] = x
      BY <1>1, <3>1 DEF TInv, OwnerHasEntry, Types
    <3>3. \E v : locked' = [locked EXCEPT ![a][id] = v]
      BY <1>4
    <3>4. locked'[owner[x]][UuidOf(x)] = locked[owner[x]][UuidOf(x)]
      BY <1>1, <2>1, <3>1, <3>2, <3>3 DEF Types
    <3> QED BY <3>1, <3>2, <3>4
  <2> QED BY <2>2, <2>3
<1> QED BY <1>5, <1>6, <1>8, <1>9 DEF TInv

LEMMA TUnlockNode ==
  ASSUME RInv, RInv', TInv, NEW a \in Apps, NEW id \in Ids, UnlockNode(a, id) PROVE TInv'
<1> DEFINE n == GetLockedNode(a, id)
<1>1. /\ Types /\ Types' /\ a # NoApp /\ UNCHANGED <<fresh, attached, identified, registry, open>>
      /\ locked' = [locked EXCEPT ![a][id] = NoNode]
  BY NodeAssumption DEF RInv, IInv, UnlockNode
<1>2. n # NoNode => n \in Nodes
  BY HandedOut DEF RInv
<1>3. \/ /\ n # NoNode /\ owner[n] = a
         /\ owner' = [owner EXCEPT ![n] = NoApp] /\ status' = [status EXCEPT ![n] = "available"]
         /\ box' = Signalled(open, Announced(n, "available"))
      \/ ~(n # NoNode /\ owner[n] = a) /\ UNCHANGED <<owner, status, box>>
  BY DEF UnlockNode, Unlocked
<1>4. \A x \in attached : owner[x] = a /\ UuidOf(x) = id => x = n
  <2> SUFFICES ASSUME NEW x \in attached, owner[x] = a, UuidOf(x) = id PROVE x = n
    OBVIOUS
  <2>1. locked[a][id] = x /\ x # NoNode
    BY <1>1, NodeAssumption DEF TInv, OwnerHasEntry, Types
  <2> QED BY <2>1 DEF GetLockedNode, Alive
<1> HIDE DEF n
<1>5. ChangesNamed' /\ GoneIsApart' /\ NoLossWaits'
  <2>1. CASE UNCHANGED box
    <3>1. Waiting' = Waiting /\ Posted' = Posted
      BY <2>1 DEF Waiting, Posted
    <3> QED BY <1>1, <3>1, SilenceKeeps
  <2>2. CASE n # NoNode /\ box' = Signalled(open, Announced(n, "available"))
    BY <1>1, <1>2, <2>2, AnnouncingKeeps DEF Statuses
  <2> QED BY <1>3, <2>1, <2>2
<1>6. AttachedIsConnected' /\ FreshIsFree'
  BY <1>1, <1>2, <1>3 DEF TInv, AttachedIsConnected, FreshIsFree, Types
<1>7. OwnerHasEntry'
  <2> SUFFICES ASSUME NEW x \in attached, owner'[x] # NoApp
               PROVE  owner'[x] \in open /\ locked'[owner'[x]][UuidOf(x)] = x
    BY <1>1 DEF OwnerHasEntry, UuidOf
  <2>1. x \in Nodes /\ UuidOf(x) \in Ids
    BY <1>1, UuidIsId DEF Types
  <2>2. owner'[x] = owner[x]
    BY <1>1, <1>2, <1>3, <2>1 DEF Types
  <2>3. owner[x] = a => x # n
    BY <1>1, <1>2, <1>3, <2>1, <2>2, NodeAssumption DEF Types
  <2>4. owner[x] \in open /\ owner[x] \in Apps /\ locked[owner[x]][UuidOf(x)] = x
    BY <1>1, <2>2 DEF TInv, OwnerHasEntry, Types
  <2>5. ~(owner[x] = a /\ UuidOf(x) = id)
    BY <1>4, <2>3
  <2> QED BY <1>1, <2>1, <2>2, <2>4, <2>5 DEF Types
<1> QED BY <1>5, <1>6, <1>7 DEF TInv

\* What a session that ends announces.
LEMMA ReleasesAre ==
  ASSUME RInv, NEW a \in Apps, NEW c \in Releases(a)
  PROVE  /\ c \in Changes /\ c.node \in Released(a) /\ c.node \in attached
         /\ c.id = UuidOf(c.node) /\ c.status = "available"
<1>1. PICK n \in Released(a) : \E id \in KeysOf(n) : c = Change(n, id, "available")
  BY DEF Releases
<1>2. PICK id \in KeysOf(n) : c = Change(n, id, "available")
  BY <1>1
<1>3. n \in Nodes /\ n # NoNode /\ id \in Ids /\ registry[id] = n
  BY <1>1, <1>2, NodeAssumption DEF Released, KeysOf
<1>4. n \in attached /\ id = UuidOf(n)
  BY <1>3 DEF RInv, IInv, RegisteredIsAttached, RegisteredUnderUuid
<1> QED BY <1>1, <1>2, <1>3, <1>4 DEF Change, Changes, Statuses

LEMMA TCloseApp ==
  ASSUME RInv, RInv', TInv, NEW a \in Apps, CloseApp(a) PROVE TInv'
<1>1. /\ Types /\ Types' /\ a # NoApp /\ UNCHANGED <<fresh, attached, identified, registry>>
      /\ owner' = [n \in Nodes |-> IF n \in Released(a) THEN NoApp ELSE owner[n]]
      /\ status' = [n \in Nodes |-> IF n \in Released(a) THEN "available" ELSE status[n]]
      /\ open' = open \ {a}
      /\ locked' = [locked EXCEPT ![a] = [id \in Ids |-> NoNode]]
  BY NodeAssumption DEF RInv, IInv, CloseApp
<1> PICK k \in 0..MaxPosted : \E order \in [1..k -> Releases(a)] : box' = Signalled(open \ {a}, order)
  BY DEF CloseApp
<1>2. PICK order \in [1..k -> Releases(a)] : box' = Signalled(open \ {a}, order)
  OBVIOUS
<1> DEFINE W == Releases(a)
           N == {c.node : c \in W}
           S == open \ {a}
<1>3. W \in SUBSET Changes /\ N \in SUBSET Nodes /\ S \in SUBSET Apps
  BY <1>1, ReleasesAre DEF Types
<1>4. order \in Seq(Changes) /\ \A i \in DOMAIN order : order[i] \in W /\ order[i].node \in N
  BY <1>3, NodeAssumption
<1>5. \A c \in W : /\ c.node \in attached /\ c.id = UuidOf(c.node)
                   /\ c.status = "disconnected" => c.node \notin attached'
  BY ReleasesAre
<1>6. box' = Signalled(S, order)
  BY <1>2
<1> HIDE DEF W, S
<1>7. Waiting' \subseteq Waiting \cup W
  BY ONLY <1>1, <1>3, <1>4, <1>6, PostingWaits
<1>8. Posted' \subseteq Posted \cup N
  <2> HIDE DEF N
  <2> QED BY ONLY <1>1, <1>3, <1>4, <1>6, Posting
<1>9. ChangesNamed' /\ GoneIsApart' /\ NoLossWaits'
  BY <1>1, <1>3, <1>5, <1>7, <1>8, ChangesKept DEF TInv
<1>10. AttachedIsConnected' /\ FreshIsFree'
  BY <1>1 DEF TInv, AttachedIsConnected, FreshIsFree, Types
<1>11. OwnerHasEntry'
  <2> SUFFICES ASSUME NEW x \in attached, owner'[x] # NoApp
               PROVE  owner'[x] \in open' /\ locked'[owner'[x]][UuidOf(x)] = x
    BY <1>1 DEF OwnerHasEntry, UuidOf
  <2>1. x \in Nodes /\ UuidOf(x) \in Ids /\ x # NoNode
    BY <1>1, UuidIsId, NodeAssumption DEF Types
  <2>2. owner'[x] = owner[x] /\ x \notin Released(a)
    BY <1>1, <2>1
  <2>3. owner[x] \in open /\ owner[x] \in Apps /\ locked[owner[x]][UuidOf(x)] = x
    BY <1>1, <2>2 DEF TInv, OwnerHasEntry, Types
  <2>4. owner[x] # a
    BY <2>1, <2>2, <2>3 DEF Released, GetLockedNode, Alive
  <2> QED BY <1>1, <2>1, <2>2, <2>3, <2>4 DEF Types
<1> QED BY <1>9, <1>10, <1>11 DEF TInv

LEMMA TUpgradeNodeFirmware ==
  ASSUME RInv, RInv', TInv, NEW a \in Apps, NEW id \in Ids, UpgradeNodeFirmware(a, id) PROVE TInv'
<1> DEFINE n == NodeFromId(id)
<1>1. n \in Nodes /\ Types
  BY HandedOut DEF RInv, IInv, UpgradeNodeFirmware
<1>2. /\ box' = Signalled(open, Announced(n, "upgrading"))
      /\ status' = [status EXCEPT ![n] = "upgrading"]
      /\ UNCHANGED <<fresh, attached, identified, owner, open, locked>>
  BY DEF UpgradeNodeFirmware, appVars
<1> HIDE DEF n
<1>3. \A m \in attached' : status'[m] # "disconnected"
  BY <1>1, <1>2 DEF TInv, AttachedIsConnected, Types
<1> QED BY <1>1, <1>2, <1>3, TAnnounce DEF Statuses

LEMMA TInductive == RInv /\ TInv /\ [Next]_vars /\ [AnswersInTurn]_vars => TInv'
<1> SUFFICES ASSUME RInv, TInv, [Next]_vars, [AnswersInTurn]_vars PROVE TInv'
  OBVIOUS
<1>1. RInv'
  BY RInductive
<1>2. CASE UNCHANGED vars
  BY <1>1, <1>2, TQuiet DEF vars, appVars
<1>3. ASSUME ~UNCHANGED vars, NEW n \in Nodes, NodeStep(n) PROVE TInv'
  <2>1. CASE OnDeviceInfo(n)
    <3>1. n \notin identified /\ \A m \in identified : Uuid[m] = Uuid[n] => m \notin Posted
      BY <1>3, <2>1 DEF AnswersInTurn
    <3> QED BY <1>1, <2>1, <3>1, TOnDeviceInfo
  <2> QED BY <1>1, <1>3, <2>1, TConnect, TNodeStep
<1>4. ASSUME NEW a \in Apps, OpenApp(a) \/ CloseApp(a) \/ DoNodeChanged(a) PROVE TInv'
  BY <1>1, <1>4, TOpenApp, TCloseApp, TDoNodeChanged
<1>5. ASSUME NEW a \in Apps, Request(a) PROVE TInv'
  <2>1. CASE SendFullNodeList(a)
    BY <1>1, <2>1, TQuiet DEF SendFullNodeList
  <2> QED BY <1>1, <1>5, <2>1, TLockNode, TUnlockNode, TUpgradeNodeFirmware DEF Request
<1> QED BY <1>2, <1>3, <1>4, <1>5 DEF Next

\* The session that owns an attached node is open and holds the entry that lets it drive the node
\* or give it back, however often robots leave and come back as other objects (lock_node,
\* do_node_changed, ~application_endpoint), as long as each object tells once which robot it
\* stands for and no session has then to hear of an earlier one.
THEOREM OwnerHoldsInTurn == Spec /\ [][AnswersInTurn]_vars => []OwnerHolds
<1>1. RInv /\ TInv => OwnerHolds
  <2> SUFFICES ASSUME RInv, TInv, NEW n \in attached, owner[n] # NoApp
               PROVE  owner[n] \in open /\ \E id \in Ids : locked[owner[n]][id] = n
    BY DEF OwnerHolds
  <2>1. n \in Nodes
    BY DEF RInv, IInv, Types
  <2> QED BY <2>1, UuidIsId DEF TInv, OwnerHasEntry
<1> QED BY RInvariance, TInitially, TInductive, <1>1, PTL DEF Spec

-----------------------------------------------------------------------------
(* Clients agree on the nodes                                              *)
(*                                                                         *)
(* The last change a session has yet to hear of a node tells the status    *)
(* the node has, and a client whose session has nothing more to hear of    *)
(* the node sees that status.                                              *)

\* The sequence of changes names the id, and the last that does tells the status.
Names(s, id) == \E i \in DOMAIN s : s[i].id = id

LastTells(s, id, st) ==
  \A i \in DOMAIN s :
     (s[i].id = id /\ \A j \in DOMAIN s : s[j].id = id => j <= i) => s[i].status = st

\* What the client of a session is to see of a node.
Seen(a, n) ==
  IF status[n] # "busy" THEN (IF status[n] = "upgrading" THEN "busy" ELSE status[n])
  ELSE IF owner[n] = a THEN "ready" ELSE "busy"

Agrees(a, n) ==
  /\ LastTells(box[a], UuidOf(n), status[n])
  /\ ~Names(box[a], UuidOf(n)) /\ view[a][UuidOf(n)] # "unknown" => view[a][UuidOf(n)] = Seen(a, n)

ClosedIsTold == \A a \in Apps \ open : box[a] = <<>>

VInv ==
  /\ ClosedIsTold
  /\ \A a \in open, n \in attached : Agrees(a, n)

LEMMA MoreOfOthers ==
  ASSUME NEW s \in Seq(Changes), NEW t \in Seq(Changes), NEW id, NEW st,
         LastTells(s, id, st), ~Names(t, id)
  PROVE  LastTells(s \o t, id, st) /\ (Names(s \o t, id) <=> Names(s, id))
<1> DEFINE u == s \o t
<1>1. /\ DOMAIN u = 1..(Len(s) + Len(t)) /\ DOMAIN s = 1..Len(s) /\ DOMAIN t = 1..Len(t)
      /\ Len(s) \in Nat /\ Len(t) \in Nat
      /\ \A i \in DOMAIN s : u[i] = s[i]
      /\ \A i \in DOMAIN u : i \notin DOMAIN s => i - Len(s) \in DOMAIN t /\ u[i] = t[i - Len(s)]
  OBVIOUS
<1> HIDE DEF u
<1>2. \A i \in DOMAIN s : i \in DOMAIN u
  BY <1>1
<1>3. \A i \in DOMAIN u : u[i].id = id => i \in DOMAIN s
  BY <1>1 DEF Names
<1>4. LastTells(u, id, st)
  BY <1>1, <1>2, <1>3 DEF LastTells
<1>5. Names(u, id) <=> Names(s, id)
  BY <1>1, <1>2, <1>3 DEF Names
<1> QED BY <1>4, <1>5 DEF u

LEMMA ToldNow ==
  ASSUME NEW s \in Seq(Changes), NEW t \in Seq(Changes), NEW id, NEW st,
         Names(t, id), \A k \in DOMAIN t : t[k].id = id => t[k].status = st
  PROVE  LastTells(s \o t, id, st) /\ Names(s \o t, id)
<1> DEFINE u == s \o t
<1>1. /\ DOMAIN u = 1..(Len(s) + Len(t)) /\ DOMAIN s = 1..Len(s) /\ DOMAIN t = 1..Len(t)
      /\ Len(s) \in Nat /\ Len(t) \in Nat
      /\ \A k \in DOMAIN t : Len(s) + k \in DOMAIN u /\ u[Len(s) + k] = t[k]
      /\ \A i \in DOMAIN u : i \notin DOMAIN s => i - Len(s) \in DOMAIN t /\ u[i] = t[i - Len(s)]
  OBVIOUS
<1> HIDE DEF u
<1>2. PICK k \in DOMAIN t : t[k].id = id
  BY DEF Names
<1>3. Len(s) + k \in DOMAIN u /\ u[Len(s) + k].id = id
  BY <1>1, <1>2
<1>4. Names(u, id)
  BY <1>3 DEF Names
<1>5. LastTells(u, id, st)
  <2> SUFFICES ASSUME NEW i \in DOMAIN u, u[i].id = id, \A j \in DOMAIN u : u[j].id = id => j <= i
               PROVE  u[i].status = st
    BY DEF LastTells
  <2>1. Len(s) + k <= i
    BY <1>3
  <2>2. i \notin DOMAIN s
    BY <1>1, <1>2, <2>1
  <2> QED BY <1>1, <2>2
<1> QED BY <1>4, <1>5 DEF u

LEMMA FirstTold ==
  ASSUME NEW s \in Seq(Changes), s # <<>>, NEW id, NEW st, LastTells(s, id, st)
  PROVE  /\ LastTells(Tail(s), id, st)
         /\ Head(s).id # id => (Names(Tail(s), id) <=> Names(s, id))
         /\ Head(s).id = id /\ ~Names(Tail(s), id) => Head(s).status = st
<1> DEFINE u == Tail(s)
<1>1. /\ DOMAIN s = 1..Len(s) /\ DOMAIN u = 1..(Len(s) - 1) /\ Len(s) \in Nat /\ Len(s) > 0
      /\ Head(s) = s[1]
      /\ \A i \in DOMAIN u : i + 1 \in DOMAIN s /\ u[i] = s[i + 1]
      /\ \A i \in DOMAIN s : i # 1 => i - 1 \in DOMAIN u /\ u[i - 1] = s[i]
  OBVIOUS
<1> HIDE DEF u
<1>2. LastTells(u, id, st)
  <2> SUFFICES ASSUME NEW i \in DOMAIN u, u[i].id = id, \A j \in DOMAIN u : u[j].id = id => j <= i
               PROVE  u[i].status = st
    BY DEF LastTells
  <2>1. i + 1 \in DOMAIN s /\ s[i + 1] = u[i]
    BY <1>1
  <2>2. ASSUME NEW j \in DOMAIN s, s[j].id = id PROVE j <= i + 1
    <3>1. CASE j = 1
      BY <1>1, <3>1
    <3>2. CASE j # 1
      <4>1. j - 1 \in DOMAIN u /\ u[j - 1].id = id
        BY <1>1, <2>2, <3>2
      <4>2. j - 1 <= i
        BY <4>1
      <4> QED BY <1>1, <4>2
    <3> QED BY <3>1, <3>2
  <2> QED BY <2>1, <2>2 DEF LastTells
<1>3. Names(u, id) => Names(s, id)
  BY <1>1 DEF Names
<1>4. Head(s).id # id /\ Names(s, id) => Names(u, id)
  BY <1>1 DEF Names
<1>5. ASSUME Head(s).id = id, ~Names(u, id) PROVE Head(s).status = st
  <2>1. \A j \in DOMAIN s : s[j].id = id => j <= 1
    BY <1>1, <1>5 DEF Names
  <2>2. 1 \in DOMAIN s /\ s[1].id = id
    BY <1>1, <1>5
  <2> QED BY <1>1, <2>1, <2>2 DEF LastTells
<1> QED BY <1>2, <1>3, <1>4, <1>5 DEF u

\* A session that hears of an attached node shows its client what the client is to see.
LEMMA ShownIsSeen ==
  ASSUME RInv, TInv, NEW a \in Apps, NEW n \in attached
  PROVE  Shown(a, n, UuidOf(n), status[n]) = Seen(a, n)
<1> DEFINE id == UuidOf(n)
           m == GetLockedNode(a, id)
<1>1. Types /\ n \in Nodes /\ id \in Ids /\ n # NoNode /\ a # NoApp /\ status[n] \in Statuses
  BY UuidIsId, NodeAssumption DEF RInv, IInv, Types
<1>2. m # NoNode => owner[n] = a
  <2> SUFFICES ASSUME m # NoNode PROVE owner[n] = a
    OBVIOUS
  <2>1. m \in Nodes /\ locked[a][id] = m /\ Alive(m)
    BY <1>1, HandedOut DEF RInv
  <2>2. owner[m] = a /\ UuidOf(m) = UuidOf(n)
    BY <1>1, <2>1 DEF RInv, IInv, LiveEntryOwns, LockedUnderUuid
  <2>3. m \in attached \/ m \in Posted
    BY <2>1, AliveIsReferenced
  <2>4. m = n
    BY <2>2, <2>3, AttachedApart DEF TInv, GoneIsApart
  <2> QED BY <2>2, <2>4
<1>3. owner[n] = a => m # NoNode
  BY <1>1 DEF TInv, OwnerHasEntry, GetLockedNode, Alive
<1>4. Shown(a, n, id, status[n]) =
        CASE status[n] = "busy" /\ m # NoNode -> "ready"
          [] status[n] = "upgrading" -> "busy"
          [] OTHER -> status[n]
  BY DEF Shown
<1>5. Seen(a, n) = IF status[n] # "busy" THEN (IF status[n] = "upgrading" THEN "busy" ELSE status[n])
                   ELSE IF owner[n] = a THEN "ready" ELSE "busy"
  BY DEF Seen
<1> HIDE DEF m, id
<1>6. Shown(a, n, id, status[n]) = Seen(a, n)
  BY <1>2, <1>3, <1>4, <1>5
<1> QED BY <1>6 DEF id

-----------------------------------------------------------------------------
\* Steps that nobody is told of, and that change nothing that is told.
LEMMA VQuiet ==
  ASSUME VInv, UNCHANGED <<attached, identified, status, owner, box, view, open>> PROVE VInv'
BY DEF VInv, ClosedIsTold, Agrees, Seen, UuidOf

\* Steps that tell the sessions of every attached node they change.
LEMMA VPost ==
  ASSUME RInv, VInv, NEW changes \in Seq(Changes), box' = Signalled(open', changes),
         open' \subseteq open, \A a \in Apps \ open' : box[a] = <<>>, view' = view,
         \A n \in attached' :
            \/ /\ n \in attached /\ UuidOf(n)' = UuidOf(n)
               /\ status'[n] = status[n] /\ owner'[n] = owner[n]
               /\ ~Names(changes, UuidOf(n))
            \/ /\ Names(changes, UuidOf(n)')
               /\ \A k \in DOMAIN changes : changes[k].id = UuidOf(n)' => changes[k].status = status'[n]
  PROVE  VInv'
<1>1. Types /\ open' \in SUBSET Apps
  BY DEF RInv, IInv, Types
<1>2. ClosedIsTold'
  BY <1>1 DEF ClosedIsTold, Signalled
<1>3. ASSUME NEW a \in open', NEW n \in attached' PROVE Agrees(a, n)'
  <2>1. box[a] \in Seq(Changes) /\ box'[a] = box[a] \o changes /\ a \in open
    BY <1>1 DEF Types, Signalled
  <2>2. CASE /\ n \in attached /\ UuidOf(n)' = UuidOf(n)
             /\ status'[n] = status[n] /\ owner'[n] = owner[n]
             /\ ~Names(changes, UuidOf(n))
    <3> DEFINE id == UuidOf(n)
    <3>1. Agrees(a, n)
      BY <2>1, <2>2 DEF VInv
    <3>2. LastTells(box[a], id, status[n])
      BY <3>1 DEF Agrees
    <3> HIDE DEF id
    <3>3. LastTells(box'[a], id, status[n]) /\ (Names(box'[a], id) <=> Names(box[a], id))
      BY <2>1, <2>2, <3>2, MoreOfOthers DEF id
    <3>4. Seen(a, n)' = Seen(a, n)
      BY <2>2 DEF Seen
    <3> QED BY <2>2, <3>1, <3>3, <3>4 DEF Agrees, id
  <2>3. CASE /\ Names(changes, UuidOf(n)')
             /\ \A k \in DOMAIN changes : changes[k].id = UuidOf(n)' => changes[k].status = status'[n]
    <3>1. PICK id : id = UuidOf(n)'
      OBVIOUS
    <3>2. PICK st : st = status'[n]
      OBVIOUS
    <3>3. Names(changes, id) /\ \A k \in DOMAIN changes : changes[k].id = id => changes[k].status = st
      BY <2>3, <3>1, <3>2
    <3>4. LastTells(box'[a], id, st) /\ Names(box'[a], id)
      BY <2>1, <3>3, ToldNow
    <3> QED BY <3>1, <3>2, <3>4 DEF Agrees
  <2> QED BY <2>2, <2>3
<1> QED BY <1>2, <1>3 DEF VInv

\* Steps that announce one attached node, and change no other.
LEMMA VAnnounce ==
  ASSUME RInv, VInv, NEW n \in Nodes, NEW s \in Statuses,
         box' = Signalled(open, Announced(n, s)),
         attached' \subseteq attached, identified' = identified, open' = open, view' = view,
         \A m \in attached' : m # n => status'[m] = status[m] /\ owner'[m] = owner[m],
         n \in attached' => status'[n] = s
  PROVE  VInv'
<1> DEFINE changes == Announced(n, s)
           c == Change(n, UuidOf(n), s)
<1>1. /\ changes \in Seq(Changes) /\ box' = Signalled(open', changes)
      /\ \A a \in Apps \ open' : box[a] = <<>>
      /\ attached' \subseteq Nodes
  BY Announcing DEF VInv, ClosedIsTold, RInv, IInv, Types
<1>2. /\ n \notin attached => changes = <<>>
      /\ n \in attached => changes = <<c>>
      /\ c.id = UuidOf(n) /\ c.status = s
  BY AnnouncedIs DEF Change
<1>3. \A m \in Nodes : UuidOf(m)' = UuidOf(m)
  BY DEF UuidOf
<1> HIDE DEF changes, c
<1>4. ASSUME NEW m \in attached', m # n
      PROVE  /\ m \in attached /\ UuidOf(m)' = UuidOf(m)
             /\ status'[m] = status[m] /\ owner'[m] = owner[m]
             /\ ~Names(changes, UuidOf(m))
  <2>1. n \in attached => UuidOf(m) # UuidOf(n)
    BY <1>4, AttachedApart
  <2>2. ~Names(changes, UuidOf(m))
    <3>1. CASE n \in attached
      BY <1>2, <2>1, <3>1 DEF Names
    <3>2. CASE n \notin attached
      BY <1>2, <3>2 DEF Names
    <3> QED BY <3>1, <3>2
  <2> QED BY <1>1, <1>3, <1>4, <2>2
<1>5. ASSUME n \in attached'
      PROVE  /\ Names(changes, UuidOf(n)')
             /\ \A k \in DOMAIN changes : changes[k].id = UuidOf(n)' => changes[k].status = status'[n]
  <2>1. changes = <<c>> /\ UuidOf(n)' = c.id /\ status'[n] = c.status
    BY <1>2, <1>3, <1>5
  <2>2. DOMAIN changes = {1} /\ changes[1] = c
    BY <2>1
  <2> QED BY <2>1, <2>2 DEF Names
<1> QED BY <1>1, <1>4, <1>5, VPost

LEMMA VConnect ==
  ASSUME RInv, RInv', VInv, NEW n \in Nodes, Connect(n) PROVE VInv'
<1> DEFINE c == Change(n, n, "connected")
           changes == <<c>>
<1>1. /\ Types /\ n \notin attached /\ n \notin identified /\ attached \subseteq Nodes
      /\ attached' = attached \cup {n} /\ box' = Signalled(open, changes)
      /\ status' = [status EXCEPT ![n] = "connected"]
      /\ UNCHANGED <<identified, owner, open, view>>
  BY DEF RInv, IInv, Types, FreshUnknown, Connect, appVars
<1>2. c \in Changes /\ c.id = n /\ c.status = "connected"
  BY DEF Change, Changes, Ids, Statuses
<1>3. \A m \in Nodes : UuidOf(m)' = UuidOf(m) /\ (m # n => UuidOf(m) # n)
  BY <1>1, NodeAssumption DEF UuidOf
<1>4. UuidOf(n)' = n
  BY <1>1 DEF UuidOf
<1> HIDE DEF c
<1>5. changes \in Seq(Changes) /\ DOMAIN changes = {1} /\ changes[1] = c
  BY <1>2
<1> HIDE DEF changes
<1>6. ASSUME NEW m \in attached', m # n
      PROVE  /\ m \in attached /\ UuidOf(m)' = UuidOf(m)
             /\ status'[m] = status[m] /\ owner'[m] = owner[m]
             /\ ~Names(changes, UuidOf(m))
  BY <1>1, <1>2, <1>3, <1>5, <1>6 DEF Types, Names
<1>7. /\ Names(changes, UuidOf(n)')
      /\ \A k \in DOMAIN changes : changes[k].id = UuidOf(n)' => changes[k].status = status'[n]
  BY <1>1, <1>2, <1>4, <1>5 DEF Types, Names
<1>8. box' = Signalled(open', changes) /\ open' \subseteq open /\ \A a \in Apps \ open' : box[a] = <<>>
  BY <1>1 DEF VInv, ClosedIsTold
<1> QED BY <1>1, <1>5, <1>6, <1>7, <1>8, VPost

LEMMA VOnDeviceInfo ==
  ASSUME RInv, VInv, NEW n \in Nodes, OnDeviceInfo(n), n \notin identified PROVE VInv'
<1> DEFINE gone == Announced(n, "disconnected")
           lost == Change(n, n, "disconnected")
           back == Change(n, Uuid[n], "available")
           changes == gone \o <<back>>
<1>1. /\ Types /\ attached \subseteq Nodes /\ n \in attached
      /\ Uuid[n] \in Uuids /\ Uuid[n] \in Ids /\ n \in Ids /\ Uuid[n] # n
  BY NodeAssumption DEF RInv, IInv, Types, OnDeviceInfo, Ids
<1>2. /\ lost \in Changes /\ lost.id = n
      /\ back \in Changes /\ back.id = Uuid[n] /\ back.status = "available"
  BY <1>1 DEF Change, Changes, Statuses
<1>3. gone = <<lost>>
  <2>1. UuidOf(n) = n
    BY DEF UuidOf
  <2> QED BY <1>1, <2>1, AnnouncedIs DEF Statuses
<1>4. /\ attached' = attached \ Duplicates(n) /\ identified' = identified \cup {n}
      /\ status' = [m \in Nodes |-> IF m = n THEN "available"
                                    ELSE IF m \in Duplicates(n) THEN "disconnected" ELSE status[m]]
      /\ box' = Signalled(open, changes)
      /\ UNCHANGED <<owner, open, view>>
  BY DEF OnDeviceInfo, appVars
<1> HIDE DEF lost, back, gone
<1>5. changes \in Seq(Changes) /\ DOMAIN changes = {1, 2} /\ changes[1] = lost /\ changes[2] = back
  BY <1>2, <1>3
<1> HIDE DEF changes
<1>6. \A m \in Nodes : UuidOf(m)' = IF m = n THEN Uuid[n] ELSE UuidOf(m)
  BY <1>4 DEF UuidOf
<1>7. \A m \in attached' : m # n => UuidOf(m) # Uuid[n] /\ UuidOf(m) # n
  <2> SUFFICES ASSUME NEW m \in attached', m # n PROVE UuidOf(m) # Uuid[n] /\ UuidOf(m) # n
    OBVIOUS
  <2>1. UuidOf(m) # Uuid[n]
    BY <1>4 DEF Duplicates, RInv, AttachedIsRegistered
  <2>2. UuidOf(m) # n
    BY <1>1, <1>4, NodeAssumption DEF UuidOf
  <2> QED BY <2>1, <2>2
<1>8. ASSUME NEW m \in attached', m # n
      PROVE  /\ m \in attached /\ UuidOf(m)' = UuidOf(m)
             /\ status'[m] = status[m] /\ owner'[m] = owner[m]
             /\ ~Names(changes, UuidOf(m))
  <2>1. m \in attached /\ m \in Nodes /\ m \notin Duplicates(n)
    BY <1>1, <1>4
  <2>2. ~Names(changes, UuidOf(m))
    BY <1>2, <1>5, <1>7, <1>8 DEF Names
  <2> QED BY <1>4, <1>6, <1>8, <2>1, <2>2
<1>9. /\ Names(changes, UuidOf(n)')
      /\ \A k \in DOMAIN changes : changes[k].id = UuidOf(n)' => changes[k].status = status'[n]
  <2>1. UuidOf(n)' = Uuid[n] /\ status'[n] = "available"
    BY <1>4, <1>6
  <2> QED BY <1>1, <1>2, <1>5, <2>1 DEF Names
<1>10. box' = Signalled(open', changes) /\ open' \subseteq open /\ \A a \in Apps \ open' : box[a] = <<>>
  BY <1>4 DEF VInv, ClosedIsTold
<1> QED BY <1>4, <1>5, <1>8, <1>9, <1>10, VPost

LEMMA VNodeStep ==
  ASSUME RInv, RInv', TInv, VInv, NEW n \in Nodes, NodeStep(n), ~OnDeviceInfo(n)
  PROVE  VInv'
<1>1. Types /\ \A m \in attached : m \in Nodes
  BY DEF RInv, IInv, Types
<1>2. CASE OnDescriptionReceived(n)
  <2>1. CASE n \in Simulated
    <3>1. /\ box' = Signalled(open, Announced(n, "available"))
          /\ status' = [status EXCEPT ![n] = "available"]
          /\ UNCHANGED <<attached, identified, owner, open, view>>
      BY <1>2, <2>1 DEF OnDescriptionReceived, appVars
    <3>2. status'[n] = "available" /\ \A m \in attached : m # n => status'[m] = status[m]
      BY <1>1, <3>1 DEF Types
    <3> QED BY <3>1, <3>2, VAnnounce DEF Statuses
  <2>2. CASE n \notin Simulated
    BY <1>2, <2>2, VQuiet DEF OnDescriptionReceived, appVars
  <2> QED BY <2>1, <2>2
<1>3. CASE TimerExpires(n) \/ ResendDeviceInfo(n) \/ AnswerLost(n)
  BY <1>3, VQuiet DEF TimerExpires, ResendDeviceInfo, AnswerLost, nodeVars, appVars
<1>4. CASE AnnounceAgain(n)
  <2>1. /\ n \in attached /\ box' = Signalled(open, Announced(n, status[n]))
        /\ UNCHANGED <<attached, identified, status, owner, open, view>>
    BY <1>4 DEF AnnounceAgain, nodeVars, appVars
  <2>2. status[n] \in Statuses
    BY <1>1, <2>1 DEF Types
  <2> QED BY <2>1, <2>2, VAnnounce
<1>5. CASE Disconnect(n)
  <2>1. /\ box' = Signalled(open, Announced(n, "disconnected"))
        /\ status' = [status EXCEPT ![n] = "disconnected"] /\ attached' = attached \ {n}
        /\ UNCHANGED <<identified, owner, open, view>>
    BY <1>5 DEF Disconnect, appVars
  <2>2. n \notin attached' /\ \A m \in attached' : status'[m] = status[m]
    BY <1>1, <2>1 DEF Types
  <2> QED BY <2>1, <2>2, VAnnounce DEF Statuses
<1> QED BY <1>2, <1>3, <1>4, <1>5, VConnect DEF NodeStep

LEMMA VOpenApp ==
  ASSUME RInv, ViewsKnown, VInv, NEW a \in Apps, OpenApp(a) PROVE VInv'
<1>1. /\ UNCHANGED <<attached, identified, status, owner, box>>
      /\ a \notin open /\ open' = open \cup {a}
      /\ view' = [view EXCEPT ![a] = [id \in Ids |-> "unknown"]]
  BY DEF OpenApp, nodeVars
<1>2. Types /\ attached \subseteq Nodes /\ box[a] = <<>>
  BY <1>1 DEF RInv, IInv, Types, VInv, ClosedIsTold
<1>3. ClosedIsTold'
  BY <1>1 DEF VInv, ClosedIsTold
<1>4. ASSUME NEW b \in open', NEW n \in attached PROVE Agrees(b, n)'
  <2>1. UuidOf(n)' = UuidOf(n) /\ UuidOf(n) \in Ids /\ Seen(b, n)' = Seen(b, n) /\ b \in Apps
    BY <1>1, <1>2, UuidIsId DEF UuidOf, Seen, Types
  <2>2. CASE b = a
    <3>1. view'[b][UuidOf(n)] = "unknown"
      BY <1>1, <2>1, <2>2 DEF ViewsKnown
    <3>2. LastTells(<<>>, UuidOf(n), status[n])
      BY DEF LastTells
    <3> QED BY <1>1, <1>2, <2>1, <2>2, <3>1, <3>2 DEF Agrees
  <2>3. CASE b # a
    <3>1. Agrees(b, n) /\ view'[b] = view[b]
      BY <1>1, <1>4, <2>1, <2>3 DEF VInv, ViewsKnown
    <3> QED BY <1>1, <2>1, <3>1 DEF Agrees
  <2> QED BY <2>2, <2>3
<1> QED BY <1>1, <1>3, <1>4 DEF VInv

LEMMA VSendFullNodeList ==
  ASSUME RInv, TInv, ViewsKnown, VInv, NEW a \in Apps, SendFullNodeList(a) PROVE VInv'
<1> DEFINE said(id) == IF NodeFromId(id) = NoNode THEN view[a][id]
                       ELSE Shown(a, NodeFromId(id), id, status[NodeFromId(id)])
<1>1. /\ UNCHANGED <<attached, identified, status, owner, box, open>>
      /\ view' = [view EXCEPT ![a] = [id \in Ids |-> said(id)]]
  BY DEF SendFullNodeList, nodeVars
<1>2. Types /\ attached \subseteq Nodes
  BY DEF RInv, IInv, Types
<1>3. ClosedIsTold'
  BY <1>1 DEF VInv, ClosedIsTold
<1>4. ASSUME NEW n \in attached PROVE said(UuidOf(n)) = Seen(a, n)
  <2>1. registry[UuidOf(n)] = n /\ n # NoNode /\ Alive(n)
    BY <1>2, NodeAssumption DEF RInv, AttachedIsRegistered, Alive
  <2>2. NodeFromId(UuidOf(n)) = n
    BY <2>1 DEF NodeFromId
  <2> QED BY <2>1, <2>2, ShownIsSeen
<1> HIDE DEF said
<1>5. ASSUME NEW b \in open, NEW n \in attached PROVE Agrees(b, n)'
  <2>1. UuidOf(n)' = UuidOf(n) /\ UuidOf(n) \in Ids /\ Seen(b, n)' = Seen(b, n) /\ b \in Apps
    BY <1>1, <1>2, UuidIsId DEF UuidOf, Seen, Types
  <2>2. Agrees(b, n)
    BY DEF VInv
  <2>3. CASE b = a
    <3>1. view'[a][UuidOf(n)] = Seen(a, n)
      BY <1>1, <1>4, <2>1 DEF ViewsKnown
    <3> QED BY <1>1, <2>1, <2>2, <2>3, <3>1 DEF Agrees
  <2>4. CASE b # a
    <3>1. view'[b] = view[b]
      BY <1>1, <2>1, <2>4 DEF ViewsKnown
    <3> QED BY <1>1, <2>1, <2>2, <3>1 DEF Agrees
  <2> QED BY <2>3, <2>4
<1> QED BY <1>1, <1>3, <1>5 DEF VInv

\* A change of the id of an attached node is of that node.
LEMMA ChangeIsOfNode ==
  ASSUME RInv, TInv, NEW c \in Waiting, NEW n \in attached, c.id = UuidOf(n)
  PROVE  c.node = n
<1>1. Types /\ c.node \in Posted /\ c.node \in Nodes /\ n \in Nodes
  BY WaitingIsPosted DEF RInv, IInv, Types, Posted
<1>2. CASE c.id = c.node
  BY <1>1, <1>2, NodeAssumption DEF UuidOf
<1>3. CASE c.node \in identified /\ c.id = Uuid[c.node]
  BY <1>1, <1>3 DEF TInv, GoneIsApart, UuidOf
<1> QED BY <1>2, <1>3 DEF TInv, ChangesNamed

LEMMA VDoNodeChanged ==
  ASSUME RInv, TInv, ViewsKnown, VInv, NEW a \in Apps, DoNodeChanged(a) PROVE VInv'
<1> DEFINE c == Head(box[a])
           said == Shown(a, c.node, c.id, c.status)
<1>1. /\ UNCHANGED <<attached, identified, status, owner, open>> /\ box[a] # <<>>
      /\ box' = [box EXCEPT ![a] = Tail(@)]
      /\ view' = [view EXCEPT ![a][c.id] = said]
  BY DEF DoNodeChanged, nodeVars
<1>2. Types /\ attached \subseteq Nodes /\ box[a] \in Seq(Changes)
  BY DEF RInv, IInv, Types
<1>3. c \in Waiting /\ c \in Changes /\ c.id \in Ids
  BY <1>1, <1>2, TellingWaits DEF Waiting, Changes
<1>4. ClosedIsTold'
  BY <1>1, <1>2 DEF VInv, ClosedIsTold, Types
<1>5. \A n \in attached : c.id = UuidOf(n) /\ c.status = status[n] => said = Seen(a, n)
  BY <1>3, ChangeIsOfNode, ShownIsSeen
<1> HIDE DEF said
<1>6. ASSUME NEW b \in open, NEW n \in attached PROVE Agrees(b, n)'
  <2> DEFINE id == UuidOf(n)
             st == status[n]
  <2>1. id' = id /\ id \in Ids /\ Seen(b, n)' = Seen(b, n) /\ b \in Apps /\ st' = st
    BY <1>1, <1>2, UuidIsId DEF UuidOf, Seen, Types
  <2>2. Agrees(b, n)
    BY DEF VInv
  <2>3. CASE b # a
    <3>1. view'[b] = view[b] /\ box'[b] = box[b]
      BY <1>1, <1>2, <2>1, <2>3 DEF ViewsKnown, Types
    <3> QED BY <1>1, <2>1, <2>2, <3>1 DEF Agrees
  <2>4. CASE b = a
    <3>1. box'[a] = Tail(box[a])
      BY <1>1, <1>2 DEF Types
    <3>2. LastTells(box[a], id, st)
      BY <2>2, <2>4 DEF Agrees
    <3>3. /\ LastTells(box'[a], id, st)
          /\ c.id # id => (Names(box'[a], id) <=> Names(box[a], id))
          /\ c.id = id /\ ~Names(box'[a], id) => c.status = st
      <4> HIDE DEF id, st
      <4> QED BY <1>1, <1>2, <3>1, <3>2, FirstTold
    <3>4. c.id = id => view'[a][id] = said
      BY <1>1, <1>3, <2>1 DEF ViewsKnown
    <3>5. c.id # id => view'[a][id] = view[a][id]
      BY <1>1, <1>3, <2>1 DEF ViewsKnown
    <3>6. ~Names(box'[a], id) /\ view'[a][id] # "unknown" => view'[a][id] = Seen(a, n)
      <4>1. CASE c.id = id
        BY <1>5, <3>3, <3>4, <4>1
      <4>2. CASE c.id # id
        BY <2>2, <2>4, <3>3, <3>5, <4>2 DEF Agrees
      <4> QED BY <4>1, <4>2
    <3> QED BY <2>1, <2>4, <3>3, <3>6 DEF Agrees
  <2> QED BY <2>3, <2>4
<1> QED BY <1>1, <1>4, <1>6 DEF VInv

\* lock_node, unlock_node and upgrade_node_firmware announce the node they change, if any.
LEMMA VRequest ==
  ASSUME RInv, TInv, ViewsKnown, VInv, NEW a \in Apps, Request(a) PROVE VInv'
<1>1. Types /\ attached \subseteq Nodes
  BY DEF RInv, IInv, Types
<1>2. ASSUME NEW n \in Nodes, NEW s \in Statuses,
             box' = Signalled(open, Announced(n, s)), status' = [status EXCEPT ![n] = s],
             owner' = owner \/ \E o : owner' = [owner EXCEPT ![n] = o],
             UNCHANGED <<attached, identified, open, view>>
      PROVE  VInv'
  <2>1. \A m \in attached' : m # n => status'[m] = status[m] /\ owner'[m] = owner[m]
    BY <1>1, <1>2 DEF Types
  <2>2. n \in attached' => status'[n] = s
    BY <1>1, <1>2 DEF Types
  <2> QED BY <1>2, <2>1, <2>2, VAnnounce
<1>3. CASE SendFullNodeList(a)
  BY <1>3, VSendFullNodeList
<1>4. ASSUME NEW id \in Ids, LockNode(a, id) PROVE VInv'
  <2> DEFINE n == NodeFromId(id)
  <2>1. n \in Nodes /\ "busy" \in Statuses /\ UNCHANGED <<attached, identified, open, view>>
    BY <1>4, HandedOut DEF RInv, LockNode, Statuses
  <2>2. \/ UNCHANGED <<status, owner, box>>
        \/ /\ owner' = [owner EXCEPT ![n] = a] /\ status' = [status EXCEPT ![n] = "busy"]
           /\ box' = Signalled(open, Announced(n, "busy"))
    BY <1>4 DEF LockNode, Locked
  <2> HIDE DEF n
  <2> QED BY <1>2, <2>1, <2>2, VQuiet
<1>5. ASSUME NEW id \in Ids, UnlockNode(a, id) PROVE VInv'
  <2> DEFINE n == GetLockedNode(a, id)
  <2>1. "available" \in Statuses /\ UNCHANGED <<attached, identified, open, view>>
    BY <1>5 DEF UnlockNode, Statuses
  <2>2. \/ UNCHANGED <<status, owner, box>>
        \/ /\ n # NoNode
           /\ owner' = [owner EXCEPT ![n] = NoApp] /\ status' = [status EXCEPT ![n] = "available"]
           /\ box' = Signalled(open, Announced(n, "available"))
    BY <1>5 DEF UnlockNode, Unlocked
  <2>3. n # NoNode => n \in Nodes
    BY HandedOut DEF RInv
  <2> HIDE DEF n
  <2> QED BY <1>2, <2>1, <2>2, <2>3, VQuiet
<1>6. ASSUME NEW id \in Ids, UpgradeNodeFirmware(a, id) PROVE VInv'
  <2> DEFINE n == NodeFromId(id)
  <2>1. n \in Nodes /\ "upgrading" \in Statuses
    BY <1>6, HandedOut DEF RInv, UpgradeNodeFirmware, Statuses
  <2>2. /\ UNCHANGED <<attached, identified, owner, open, view>>
        /\ status' = [status EXCEPT ![n] = "upgrading"]
        /\ box' = Signalled(open, Announced(n, "upgrading"))
    BY <1>6 DEF UpgradeNodeFirmware, appVars
  <2> HIDE DEF n
  <2> QED BY <1>2, <2>1, <2>2
<1> QED BY <1>3, <1>4, <1>5, <1>6 DEF Request

\* A session that ends announces each attached node it gives back.
LEMMA VCloseApp ==
  ASSUME RInv, TInv, VInv, NEW a \in Apps, CloseApp(a) PROVE VInv'
<1>1. /\ Types /\ UNCHANGED <<attached, identified, registry, view>> /\ attached \subseteq Nodes
      /\ owner' = [n \in Nodes |-> IF n \in Released(a) THEN NoApp ELSE owner[n]]
      /\ status' = [n \in Nodes |-> IF n \in Released(a) THEN "available" ELSE status[n]]
      /\ open' = open \ {a} /\ box[a] = <<>>
  BY DEF RInv, IInv, Types, CloseApp
<1> PICK k \in 0..MaxPosted : \E order \in [1..k -> Releases(a)] :
      /\ \A c \in Releases(a) : \E i \in 1..k : order[i] = c
      /\ box' = Signalled(open \ {a}, order)
  BY DEF CloseApp
<1>2. PICK order \in [1..k -> Releases(a)] :
      /\ \A c \in Releases(a) : \E i \in 1..k : order[i] = c
      /\ box' = Signalled(open \ {a}, order)
  OBVIOUS
<1>3. order \in Seq(Changes) /\ DOMAIN order = 1..k
  BY ReleasesAre, NodeAssumption
<1>4. \A i \in DOMAIN order :
         /\ order[i].node \in Released(a) /\ order[i].node \in attached
         /\ order[i].id = UuidOf(order[i].node) /\ order[i].status = "available"
  BY <1>3, ReleasesAre
<1>5. \A n \in Nodes : UuidOf(n)' = UuidOf(n)
  BY <1>1 DEF UuidOf
<1>6. ASSUME NEW n \in attached, n \notin Released(a)
      PROVE  /\ UuidOf(n)' = UuidOf(n) /\ status'[n] = status[n] /\ owner'[n] = owner[n]
             /\ ~Names(order, UuidOf(n))
  <2>1. \A i \in DOMAIN order : order[i].id # UuidOf(n)
    BY <1>4, <1>6, AttachedApart
  <2>2. UuidOf(n)' = UuidOf(n) /\ status'[n] = status[n] /\ owner'[n] = owner[n]
    BY <1>1, <1>5, <1>6
  <2> QED BY <2>1, <2>2 DEF Names
<1>7. ASSUME NEW n \in attached, n \in Released(a)
      PROVE  /\ Names(order, UuidOf(n)')
             /\ \A i \in DOMAIN order : order[i].id = UuidOf(n)' => order[i].status = status'[n]
  <2>1. n \in Nodes /\ status'[n] = "available"
    BY <1>1, <1>7
  <2>2. UuidOf(n) \in KeysOf(n)
    BY <2>1, UuidIsId DEF RInv, AttachedIsRegistered, KeysOf
  <2>3. Change(n, UuidOf(n), "available") \in Releases(a)
    BY <1>7, <2>2 DEF Releases
  <2>4. PICK i \in 1..k : order[i] = Change(n, UuidOf(n), "available")
    BY <1>2, <2>3
  <2>5. Names(order, UuidOf(n))
    BY <1>3, <2>4 DEF Names, Change
  <2> QED BY <1>4, <1>5, <2>1, <2>5
<1>8. /\ box' = Signalled(open', order) /\ open' \subseteq open
      /\ \A b \in Apps \ open' : box[b] = <<>>
  BY <1>1, <1>2 DEF VInv, ClosedIsTold
<1> QED BY <1>1, <1>3, <1>6, <1>7, <1>8, VPost

LEMMA VInitially == Init => VInv
BY DEF Init, VInv, ClosedIsTold

LEMMA VInductive ==
  RInv /\ TInv /\ ViewsKnown /\ VInv /\ [Next]_vars /\ [AnswersInTurn]_vars => VInv'
<1> SUFFICES ASSUME RInv, TInv, ViewsKnown, VInv, [Next]_vars, [AnswersInTurn]_vars PROVE VInv'
  OBVIOUS
<1>1. RInv'
  BY RInductive
<1>2. CASE UNCHANGED vars
  BY <1>2, VQuiet DEF vars, nodeVars, appVars
<1>3. ASSUME ~UNCHANGED vars, NEW n \in Nodes, NodeStep(n) PROVE VInv'
  <2>1. CASE OnDeviceInfo(n)
    <3>1. n \notin identified
      BY <1>3, <2>1 DEF AnswersInTurn
    <3> QED BY <2>1, <3>1, VOnDeviceInfo
  <2> QED BY <1>1, <1>3, <2>1, VNodeStep
<1>4. ASSUME NEW a \in Apps, OpenApp(a) \/ CloseApp(a) \/ DoNodeChanged(a) \/ Request(a)
      PROVE  VInv'
  BY <1>4, VOpenApp, VCloseApp, VDoNodeChanged, VRequest
<1> QED BY <1>2, <1>3, <1>4 DEF Next

\* A client whose session has nothing more to tell it, and that knows an attached node, sees it
\* "ready" if its session drives it, "busy" if another does or if it is being upgraded, and as it
\* is otherwise (do_node_changed, send_full_node_list, serialize_node), with answers in turn.
THEOREM ClientsAgreeInTurn == Spec /\ [][AnswersInTurn]_vars => []ClientsAgree
<1>1. RInv /\ VInv => ClientsAgree
  <2> SUFFICES ASSUME RInv, VInv, NEW a \in open, NEW n \in attached, NEW id \in KeysOf(n),
                      box[a] = <<>>, view[a][id] # "unknown"
               PROVE  view[a][id] = Seen(a, n)
    BY DEF ClientsAgree, Seen
  <2>1. n \in Nodes /\ id = UuidOf(n)
    BY DEF RInv, IInv, Types, RegisteredUnderUuid, KeysOf
  <2>2. Agrees(a, n) /\ ~Names(box[a], id)
    BY DEF VInv, Names
  <2> QED BY <2>1, <2>2 DEF Agrees
<1>2. TypeOK => ViewsKnown
  BY DEF TypeOK, ViewsKnown, Told
<1> QED BY RInvariance, TypeOKAlways, TInitially, TInductive, VInitially, VInductive, <1>1, <1>2, PTL DEF Spec

-----------------------------------------------------------------------------
(* Answers are in turn where each robot is asked once *)

\* Each robot has one object, which asks it once.
Once == MaxAsks <= 1 /\ \A m, n \in Nodes \ Simulated : Uuid[m] = Uuid[n] => m = n

\* Every answer was asked for; an object that was told its id got one of them.
AnsweredOf ==
  \A n \in Nodes : answers[n] <= asks[n] /\ (n \in identified => answers[n] < asks[n])

LEMMA AnsweredKept ==
  ASSUME IInv, TypeOK, AnsweredOf, [Next]_vars PROVE AnsweredOf'
<1>1. \A n \in Nodes : asks[n] \in Nat /\ answers[n] \in Nat
  BY NodeAssumption DEF TypeOK
<1>2. identified \subseteq Nodes /\ asks \in [Nodes -> 0..MaxAsks] /\ answers \in [Nodes -> 0..MaxAsks]
  BY DEF TypeOK
<1>3. CASE UNCHANGED <<identified, asks, answers>>
  BY <1>3 DEF AnsweredOf
<1>4. ASSUME NEW n \in Nodes, NodeStep(n) PROVE AnsweredOf'
  <2>1. CASE Connect(n) \/ TimerExpires(n) \/ AnnounceAgain(n) \/ Disconnect(n)
    BY <1>3, <2>1 DEF Connect, TimerExpires, AnnounceAgain, Disconnect, nodeVars, robotVars
  <2>2. CASE OnDescriptionReceived(n) \/ ResendDeviceInfo(n)
    <3>1. /\ identified' = identified /\ asks' = [asks EXCEPT ![n] = asks[n] + 1]
          /\ answers' = answers \/ answers' = [answers EXCEPT ![n] = answers[n] + 1]
      BY <2>2 DEF OnDescriptionReceived, ResendDeviceInfo, RequestDeviceInfo, nodeVars
    <3> QED BY <1>1, <1>2, <3>1 DEF AnsweredOf
  <2>3. CASE AnswerLost(n)
    <3>1. identified' = identified /\ asks' = asks /\ answers' = [answers EXCEPT ![n] = answers[n] - 1]
      BY <2>3 DEF AnswerLost, nodeVars
    <3> QED BY <1>1, <1>2, <3>1 DEF AnsweredOf
  <2>4. CASE OnDeviceInfo(n)
    <3>1. /\ identified' = identified \cup {n} /\ asks' = asks
          /\ answers' = [answers EXCEPT ![n] = answers[n] - 1] /\ answers[n] > 0
      BY <2>4 DEF OnDeviceInfo
    <3> QED BY <1>1, <1>2, <3>1 DEF AnsweredOf
  <2> QED BY <1>4, <2>1, <2>2, <2>3, <2>4 DEF NodeStep
<1>5. ASSUME NEW a \in Apps, OpenApp(a) \/ CloseApp(a) \/ DoNodeChanged(a) \/ Request(a)
      PROVE  AnsweredOf'
  BY <1>3, <1>5 DEF OpenApp, CloseApp, DoNodeChanged, Request, SendFullNodeList, LockNode,
     UnlockNode, UpgradeNodeFirmware, nodeVars, robotVars
<1> QED BY <1>3, <1>4, <1>5 DEF Next, vars, nodeVars, robotVars

\* Where each robot has one object, which asks it once, answers are in turn, and both properties
\* hold as they stand: questions that are lost, late answers, disconnections and sessions that
\* come and go do no harm.
THEOREM InTurnOnce == Once /\ Spec => [][AnswersInTurn]_vars
<1>1. Once /\ Init => Once /\ AnsweredOf
  BY NodeAssumption DEF Init, AnsweredOf
<1>2. IInv /\ TypeOK /\ Once /\ AnsweredOf /\ [Next]_vars => (Once /\ AnsweredOf)'
  BY AnsweredKept DEF Once
<1>3. IInv /\ TypeOK /\ Once /\ AnsweredOf => AnswersInTurn
  <2> SUFFICES ASSUME IInv, TypeOK, Once, AnsweredOf, NEW n \in Nodes, OnDeviceInfo(n)
               PROVE  n \notin identified /\ \A m \in identified : Uuid[m] = Uuid[n] => m \notin Posted
    BY DEF AnswersInTurn
  <2>1. asks[n] \in Nat /\ asks[n] <= MaxAsks /\ answers[n] \in Nat /\ answers[n] > 0 /\ MaxAsks <= 1 /\ MaxAsks \in Nat
    BY NodeAssumption DEF TypeOK, Once, OnDeviceInfo
  <2>2. n \notin identified
    BY <2>1 DEF AnsweredOf
  <2>3. n \notin Simulated
    BY <2>1 DEF IInv, SimulatedKeepsId
  <2>4. \A m \in identified : m \in Nodes \ Simulated
    BY DEF IInv, SimulatedKeepsId, TypeOK
  <2>5. \A m \in identified : Uuid[m] # Uuid[n]
    BY <2>2, <2>3, <2>4 DEF Once
  <2> QED BY <2>2, <2>5
<1> QED BY Invariance, TypeOKAlways, <1>1, <1>2, <1>3, PTL DEF Spec

THEOREM OwnerHoldsOnce == Once /\ Spec => []OwnerHolds
BY InTurnOnce, OwnerHoldsInTurn, PTL

THEOREM ClientsAgreeOnce == Once /\ Spec => []ClientsAgree
BY InTurnOnce, ClientsAgreeInTurn, PTL
=============================================================================
