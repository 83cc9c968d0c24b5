--------------------------- MODULE NodeLockProofs ---------------------------
(***************************************************************************)
(* No two sessions drive the same node, for any number of nodes, sessions, *)
(* questions and posted changes.                                           *)
(***************************************************************************)
EXTENDS NodeLock, TLAPS

Changes == [node : Nodes, id : Ids, status : Statuses]

\* The parts of the state the argument reads.
Types ==
  /\ fresh \subseteq Nodes /\ attached \subseteq Nodes /\ identified \subseteq Nodes
  /\ status \in [Nodes -> Statuses]
  /\ owner \in [Nodes -> Apps \cup {NoApp}]
  /\ timer \in [Nodes -> {"off", "armed", "expired"}]
  /\ answers \in [Nodes -> Nat]
  /\ registry \in [Ids -> Nodes \cup {NoNode}]
  /\ open \subseteq Apps
  /\ locked \in [Apps -> [Ids -> Nodes \cup {NoNode}]]
  /\ box \in [Apps -> Seq(Changes)]

\* Nodes that live as the posted changes refer to them.
Posted == {n \in Nodes : \E a \in Apps : \E i \in DOMAIN box[a] : box[a][i].node = n}

\* An object that is not created yet is known to nobody.
FreshUnknown ==
  \A n \in fresh : /\ n \notin attached /\ n \notin Posted /\ n \notin identified
                   /\ \A a \in Apps, id \in Ids : locked[a][id] # n

\* A simulated node is never asked for its id, and keeps the one it has.
SimulatedKeepsId ==
  \A n \in Simulated : timer[n] = "off" /\ answers[n] = 0 /\ n \notin identified

Settled(n) == n \in identified \/ n \in Simulated

\* A node has its final id before it can be locked.
LockedIsSettled ==
  \A n \in Nodes : (owner[n] # NoApp \/ status[n] \notin {"connected", "disconnected"}) => Settled(n)

RegisteredUnderUuid == \A id \in Ids, n \in Nodes : registry[id] = n => id = UuidOf(n)

LockedUnderUuid ==
  \A a \in Apps, id \in Ids, n \in Nodes : locked[a][id] = n => id = UuidOf(n) /\ Settled(n)

LiveEntryOwns ==
  \A a \in Apps, id \in Ids, n \in Nodes : locked[a][id] = n /\ Alive(n) => owner[n] = a

IInv ==
  /\ Types
  /\ FreshUnknown
  /\ SimulatedKeepsId
  /\ LockedIsSettled
  /\ RegisteredUnderUuid
  /\ LockedUnderUuid
  /\ LiveEntryOwns

-----------------------------------------------------------------------------
(* Posting *)

\* What posting a sequence of changes to some sessions leaves in their boxes.
LEMMA Posting ==
  ASSUME Types, NEW S \in SUBSET Apps, NEW changes \in Seq(Changes),
         NEW N \in SUBSET Nodes, \A i \in DOMAIN changes : changes[i].node \in N,
         box' = Signalled(S, changes)
  PROVE  /\ box' \in [Apps -> Seq(Changes)]
         /\ Posted' \subseteq Posted \cup N
<1>1. box' \in [Apps -> Seq(Changes)]
  BY DEF Types, Signalled
<1>2. ASSUME NEW n \in Posted' PROVE n \in Posted \cup N
  <2>1. PICK a \in Apps : \E i \in DOMAIN box'[a] : box'[a][i].node = n
    BY <1>2 DEF Posted
  <2>2. PICK i \in DOMAIN box'[a] : box'[a][i].node = n
    BY <2>1
  <2>3. n \in Nodes
    BY <1>2 DEF Posted
  <2>4. CASE a \notin S
    <3>1. box'[a] = box[a]
      BY <2>4 DEF Signalled
    <3> QED BY <3>1, <2>2, <2>3 DEF Posted
  <2>5. CASE a \in S
    <3>1. box'[a] = box[a] \o changes /\ box[a] \in Seq(Changes)
      BY <2>5 DEF Signalled, Types
    <3>2. CASE i \in DOMAIN box[a]
      <4>1. box'[a][i] = box[a][i]
        BY <3>1, <3>2
      <4> QED BY <4>1, <3>2, <2>2, <2>3 DEF Posted
    <3>3. CASE i \notin DOMAIN box[a]
      <4>1. i - Len(box[a]) \in DOMAIN changes /\ box'[a][i] = changes[i - Len(box[a])]
        BY <3>1, <3>3, <2>2
      <4> QED BY <4>1, <2>2
    <3> QED BY <3>2, <3>3
  <2> QED BY <2>4, <2>5
<1> QED BY <1>1, <1>2

\* set_node_status announces the node itself, if anything.
LEMMA Announcing ==
  ASSUME NEW n \in Nodes, NEW s \in Statuses
  PROVE  /\ Announced(n, s) \in Seq(Changes)
         /\ \A i \in DOMAIN Announced(n, s) : Announced(n, s)[i].node \in {n}
<1>1. CASE KeysOf(n) = {}
  BY <1>1 DEF Announced
<1>2. CASE KeysOf(n) # {}
  <2> DEFINE id == CHOOSE x \in KeysOf(n) : TRUE
  <2>1. id \in Ids
    BY <1>2 DEF KeysOf
  <2>2. Announced(n, s) = <<Change(n, id, s)>>
    BY <1>2 DEF Announced
  <2> HIDE DEF id
  <2>3. Change(n, id, s) \in Changes /\ Change(n, id, s).node = n
    BY <2>1 DEF Change, Changes
  <2> QED BY <2>2, <2>3
<1> QED BY <1>1, <1>2

LEMMA AliveIsReferenced ==
  ASSUME NEW n \in Nodes
  PROVE  /\ Alive(n) <=> n \in attached \/ n \in Posted
         /\ Alive(n)' <=> n \in attached' \/ n \in Posted'
BY DEF Alive, Posted

\* The registry and the sessions only hand out live objects.
LEMMA HandedOut ==
  ASSUME IInv, NEW a \in Apps, NEW id \in Ids
  PROVE  /\ NodeFromId(id) # NoNode =>
              /\ NodeFromId(id) \in Nodes /\ registry[id] = NodeFromId(id)
              /\ Alive(NodeFromId(id))
         /\ GetLockedNode(a, id) # NoNode =>
              /\ GetLockedNode(a, id) \in Nodes /\ locked[a][id] = GetLockedNode(a, id)
              /\ Alive(GetLockedNode(a, id))
BY NodeAssumption DEF IInv, Types, NodeFromId, GetLockedNode

-----------------------------------------------------------------------------
(* What the actions have in common *)

\* A dead object stays dead: no step refers to an object nothing refers to.
Undead == \A n \in Nodes : (n \in attached' \/ n \in Posted') => (n \in attached \/ n \in Posted \/ n \in fresh)

\* Steps that change no owner and add no entry keep the owners of live entries.
LEMMA EntriesKept ==
  ASSUME IInv, Undead, owner' = owner,
         \A a \in Apps, id \in Ids, n \in Nodes : locked'[a][id] = n => locked[a][id] = n
  PROVE  LiveEntryOwns'
<1> SUFFICES ASSUME NEW a \in Apps, NEW id \in Ids, NEW n \in Nodes,
                    locked'[a][id] = n, Alive(n)'
             PROVE  owner'[n] = a
  BY DEF LiveEntryOwns
<1>1. locked[a][id] = n
  OBVIOUS
<1>2. n \notin fresh
  BY <1>1 DEF IInv, FreshUnknown
<1>3. Alive(n)
  BY <1>2, AliveIsReferenced DEF Undead
<1> QED BY <1>1, <1>3 DEF IInv, LiveEntryOwns

\* Steps that create no object and refer to none that is not created yet.
LEMMA FreshKept ==
  ASSUME IInv, Undead, fresh' \subseteq fresh,
         \A n \in fresh' : n \notin attached' /\ n \notin Posted' /\ n \notin identified',
         \A a \in Apps, id \in Ids, n \in fresh' : locked'[a][id] = n => locked[a][id] = n
  PROVE  FreshUnknown'
BY DEF IInv, FreshUnknown

\* Steps that change no id and register or lock no node.
LEMMA IdsKept ==
  ASSUME IInv, identified' = identified,
         \A id \in Ids, n \in Nodes : registry'[id] = n => registry[id] = n
  PROVE  RegisteredUnderUuid'
BY DEF IInv, RegisteredUnderUuid, UuidOf

LEMMA LocksKept ==
  ASSUME IInv, identified' = identified,
         \A a \in Apps, id \in Ids, n \in Nodes : locked'[a][id] = n => locked[a][id] = n
  PROVE  LockedUnderUuid'
BY DEF IInv, LockedUnderUuid, UuidOf, Settled

-----------------------------------------------------------------------------
LEMMA Initially == Init => IInv
<1> SUFFICES ASSUME Init PROVE IInv
  OBVIOUS
<1>1. Posted = {}
  BY DEF Init, Posted
<1>2. \A n \in Nodes : NoNode # n
  BY NodeAssumption
<1>3. Types
  BY DEF Init, Types, Statuses
<1> QED BY <1>1, <1>2, <1>3, NodeAssumption
      DEF Init, IInv, FreshUnknown, SimulatedKeepsId, LockedIsSettled, RegisteredUnderUuid,
          LockedUnderUuid, LiveEntryOwns, Settled

LEMMA ConnectStep ==
  ASSUME IInv, NEW n \in Nodes, Connect(n) PROVE IInv'
<1> USE DEF Connect, robotVars, appVars
<1>1. Types
  BY DEF IInv
<1> DEFINE changes == <<Change(n, n, "connected")>>
<1>2. changes \in Seq(Changes) /\ \A i \in DOMAIN changes : changes[i].node \in {n}
  BY DEF Change, Changes, Ids, Statuses
<1>3. box' \in [Apps -> Seq(Changes)] /\ Posted' \subseteq Posted \cup {n}
  <2>1. open \in SUBSET Apps
    BY <1>1 DEF Types
  <2>2. box' = Signalled(open, changes)
    OBVIOUS
  <2> DEFINE N == {n}
  <2>3. N \in SUBSET Nodes /\ \A i \in DOMAIN changes : changes[i].node \in N
    BY <1>2
  <2> HIDE DEF changes, N
  <2>4. box' \in [Apps -> Seq(Changes)] /\ Posted' \subseteq Posted \cup N
    BY <1>1, <1>2, <2>1, <2>2, <2>3, Posting, Zenon
  <2> QED BY <2>4 DEF N
<1>4. Types'
  BY <1>1, <1>3 DEF Types, Statuses, Ids
<1>5. Undead
  BY <1>3 DEF Undead
<1>6. FreshUnknown'
  BY <1>3, <1>5, FreshKept DEF IInv, FreshUnknown
<1>7. SimulatedKeepsId'
  BY DEF IInv, SimulatedKeepsId
<1>8. LockedIsSettled'
  BY <1>1 DEF IInv, LockedIsSettled, Settled, Types
<1>9. RegisteredUnderUuid'
  BY <1>1 DEF IInv, RegisteredUnderUuid, UuidOf, FreshUnknown, Types
<1>10. LockedUnderUuid'
  BY LocksKept
<1>11. LiveEntryOwns'
  BY <1>5, EntriesKept
<1> QED BY <1>4, <1>6, <1>7, <1>8, <1>9, <1>10, <1>11 DEF IInv

\* Steps of the robot and its timer that nobody is told of.
LEMMA QuietStep ==
  ASSUME IInv, NEW n \in Nodes, TimerExpires(n) \/ ResendDeviceInfo(n) \/ AnswerLost(n)
  PROVE  IInv'
<1>1. UNCHANGED <<nodeVars, appVars, box>>
  BY DEF TimerExpires, ResendDeviceInfo, AnswerLost
<1>2. Types'
  <2>1. Types /\ answers[n] \in Nat
    BY DEF IInv, Types
  <2>2. timer' \in [Nodes -> {"off", "armed", "expired"}]
    BY <2>1 DEF Types, TimerExpires, ResendDeviceInfo, AnswerLost, RequestDeviceInfo
  <2>3. answers' \in [Nodes -> Nat]
    <3>1. CASE TimerExpires(n)
      BY <2>1, <3>1 DEF Types, TimerExpires
    <3>2. CASE ResendDeviceInfo(n)
      BY <2>1, <3>2 DEF Types, ResendDeviceInfo, RequestDeviceInfo
    <3>3. CASE AnswerLost(n)
      BY <2>1, <3>3 DEF Types, AnswerLost
    <3> QED BY <3>1, <3>2, <3>3
  <2> QED BY <1>1, <2>1, <2>2, <2>3 DEF Types, nodeVars, appVars
<1>3. SimulatedKeepsId'
  BY <1>1, NodeAssumption DEF IInv, Types, SimulatedKeepsId, nodeVars, TimerExpires, ResendDeviceInfo, AnswerLost, RequestDeviceInfo
<1>4. Undead
  BY <1>1 DEF Undead, Posted, nodeVars
<1>5. FreshUnknown'
  BY <1>1 DEF IInv, FreshUnknown, Posted, nodeVars, appVars
<1>6. LockedIsSettled'
  BY <1>1 DEF IInv, LockedIsSettled, Settled, nodeVars
<1>7. RegisteredUnderUuid' /\ LockedUnderUuid'
  BY <1>1, IdsKept, LocksKept DEF nodeVars, appVars
<1>8. LiveEntryOwns'
  BY <1>1, <1>4, EntriesKept DEF nodeVars, appVars
<1> QED BY <1>2, <1>3, <1>5, <1>6, <1>7, <1>8 DEF IInv

\* Steps that announce one status of one live node to the open sessions, change neither ids nor
\* entries nor owners, and leave objects as they are or detach some.
LEMMA AnnouncementStep ==
  ASSUME IInv, NEW n \in Nodes, NEW s \in Statuses, Alive(n),
         box' = Signalled(open, Announced(n, s)),
         status' \in [Nodes -> Statuses],
         \A m \in Nodes : status'[m] \in {"connected", "disconnected", status[m]} \/ Settled(m),
         attached' \subseteq attached,
         registry' \in [Ids -> Nodes \cup {NoNode}],
         \A id \in Ids, m \in Nodes : registry'[id] = m => registry[id] = m,
         UNCHANGED <<fresh, owner, identified, timer, answers, open, locked>>
  PROVE  IInv'
<1>1. Types /\ open \in SUBSET Apps
  BY DEF IInv, Types
<1>2. box' \in [Apps -> Seq(Changes)] /\ Posted' \subseteq Posted \cup {n}
  <2> DEFINE changes == Announced(n, s)
  <2>1. changes \in Seq(Changes) /\ \A i \in DOMAIN changes : changes[i].node \in {n}
    BY Announcing
  <2>2. box' = Signalled(open, changes)
    OBVIOUS
  <2>3. {n} \in SUBSET Nodes
    OBVIOUS
  <2> HIDE DEF changes
  <2> QED BY ONLY <1>1, <2>1, <2>2, <2>3, Posting
<1>3. Types'
  BY <1>1, <1>2 DEF Types
<1>4. n \in attached \/ n \in Posted
  BY AliveIsReferenced
<1>5. Undead
  BY <1>2, <1>4 DEF Undead
<1>6. FreshUnknown'
  BY <1>2, <1>4, <1>5, FreshKept DEF IInv, FreshUnknown
<1>7. SimulatedKeepsId'
  BY DEF IInv, SimulatedKeepsId
<1>8. LockedIsSettled'
  BY <1>1 DEF IInv, LockedIsSettled, Settled, Types
<1>9. RegisteredUnderUuid' /\ LockedUnderUuid'
  BY IdsKept, LocksKept
<1>10. LiveEntryOwns'
  BY <1>5, EntriesKept
<1> QED BY <1>3, <1>6, <1>7, <1>8, <1>9, <1>10 DEF IInv

LEMMA OnDescriptionReceivedStep ==
  ASSUME IInv, NEW n \in Nodes, OnDescriptionReceived(n) PROVE IInv'
<1>1. Types /\ Alive(n)
  BY DEF IInv, OnDescriptionReceived, Alive
<1>2. CASE n \in Simulated
  <2>1. /\ status' = [status EXCEPT ![n] = "available"]
        /\ box' = Signalled(open, Announced(n, "available"))
        /\ UNCHANGED <<fresh, attached, owner, identified, registry, timer, answers, open, locked>>
    BY <1>2 DEF OnDescriptionReceived, appVars
  <2>2. status' \in [Nodes -> Statuses] /\ "available" \in Statuses
    BY <1>1, <2>1 DEF Types, Statuses
  <2>3. \A m \in Nodes : status'[m] = status[m] \/ Settled(m)
    BY <1>1, <1>2, <2>1 DEF Types, Settled
  <2>4. registry' \in [Ids -> Nodes \cup {NoNode}]
    BY <1>1, <2>1 DEF Types
  <2> QED BY <1>1, <2>1, <2>2, <2>3, <2>4, AnnouncementStep
<1>3. CASE n \notin Simulated
  <2>1. UNCHANGED <<fresh, attached, status, owner, identified, registry, appVars, box>>
    BY <1>3 DEF OnDescriptionReceived
  <2>2. RequestDeviceInfo(n)
    BY <1>3 DEF OnDescriptionReceived
  <2>3. Types'
    BY <1>1, <2>1, <2>2 DEF Types, appVars, RequestDeviceInfo
  <2>4. SimulatedKeepsId'
    BY <1>1, <1>3, <2>1, <2>2, NodeAssumption DEF IInv, Types, SimulatedKeepsId, RequestDeviceInfo
  <2>5. FreshUnknown' /\ Undead
    BY <2>1 DEF IInv, FreshUnknown, Undead, Posted, appVars
  <2>6. LockedIsSettled'
    BY <2>1 DEF IInv, LockedIsSettled, Settled
  <2>7. RegisteredUnderUuid' /\ LockedUnderUuid'
    BY <2>1, IdsKept, LocksKept DEF appVars
  <2>8. LiveEntryOwns'
    BY <2>1, <2>5, EntriesKept DEF appVars
  <2> QED BY <2>3, <2>4, <2>5, <2>6, <2>7, <2>8 DEF IInv
<1> QED BY <1>2, <1>3

LEMMA AnnounceAgainStep ==
  ASSUME IInv, NEW n \in Nodes, AnnounceAgain(n) PROVE IInv'
<1>1. Types /\ Alive(n)
  BY DEF IInv, AnnounceAgain, Alive
<1>2. status[n] \in Statuses /\ status' \in [Nodes -> Statuses] /\ registry' \in [Ids -> Nodes \cup {NoNode}]
  BY <1>1 DEF Types, AnnounceAgain, nodeVars
<1> QED BY <1>1, <1>2, AnnouncementStep DEF AnnounceAgain, nodeVars, robotVars, appVars

LEMMA DisconnectStep ==
  ASSUME IInv, NEW n \in Nodes, Disconnect(n) PROVE IInv'
<1>1. Types /\ Alive(n) /\ "disconnected" \in Statuses
  BY DEF IInv, Disconnect, Alive, Statuses
<1>2. /\ status' \in [Nodes -> Statuses]
      /\ \A m \in Nodes : status'[m] \in {"connected", "disconnected", status[m]}
  BY <1>1 DEF Types, Disconnect
<1>3. /\ registry' \in [Ids -> Nodes \cup {NoNode}]
      /\ \A id \in Ids, m \in Nodes : registry'[id] = m => registry[id] = m
  BY <1>1, NodeAssumption DEF Types, Disconnect
<1> QED BY <1>1, <1>2, <1>3, AnnouncementStep DEF Disconnect, robotVars, appVars

LEMMA UpgradeNodeFirmwareStep ==
  ASSUME IInv, NEW a \in Apps, NEW id \in Ids, UpgradeNodeFirmware(a, id) PROVE IInv'
<1> DEFINE n == NodeFromId(id)
<1>1. Types /\ n \in Nodes /\ Alive(n)
  BY HandedOut DEF IInv, UpgradeNodeFirmware
<1>2. /\ status[n] = "available" /\ status' = [status EXCEPT ![n] = "upgrading"]
      /\ box' = Signalled(open, Announced(n, "upgrading"))
      /\ UNCHANGED <<fresh, attached, owner, identified, registry, robotVars, appVars>>
  BY DEF UpgradeNodeFirmware
<1> HIDE DEF n
<1>3. status' \in [Nodes -> Statuses] /\ "upgrading" \in Statuses
  BY <1>1, <1>2 DEF Types, Statuses
<1>4. \A m \in Nodes : status'[m] = status[m] \/ Settled(m)
  BY <1>1, <1>2 DEF IInv, Types, LockedIsSettled
<1>5. registry' \in [Ids -> Nodes \cup {NoNode}]
  BY <1>1, <1>2 DEF Types
<1> QED BY <1>1, <1>2, <1>3, <1>4, <1>5, AnnouncementStep DEF robotVars, appVars

\* The node gets its final id before anybody could have locked it under another.
LEMMA OnDeviceInfoStep ==
  ASSUME IInv, NEW n \in Nodes, OnDeviceInfo(n) PROVE IInv'
<1>1. Types /\ Uuid[n] \in Uuids /\ Uuid[n] \in Ids
  BY NodeAssumption DEF IInv, Ids
<1>2. n \notin Simulated
  BY <1>1 DEF OnDeviceInfo, IInv, SimulatedKeepsId
<1> DEFINE changes == Announced(n, "disconnected") \o <<Change(n, Uuid[n], "available")>>
<1>3. changes \in Seq(Changes) /\ \A i \in DOMAIN changes : changes[i].node \in {n}
  <2> DEFINE s == Announced(n, "disconnected")
             c == Change(n, Uuid[n], "available")
  <2>1. s \in Seq(Changes) /\ \A i \in DOMAIN s : s[i].node = n
    BY Announcing DEF Statuses
  <2>2. c \in Changes /\ c.node = n
    BY <1>1 DEF Change, Changes, Statuses
  <2> HIDE DEF s, c
  <2>3. s \o <<c>> \in Seq(Changes) /\ \A i \in DOMAIN (s \o <<c>>) : (s \o <<c>>)[i].node = n
    BY <2>1, <2>2
  <2> QED BY <2>3 DEF s, c
<1>4. box' \in [Apps -> Seq(Changes)] /\ Posted' \subseteq Posted \cup {n}
  <2>1. open \in SUBSET Apps /\ box' = Signalled(open, changes)
    BY <1>1 DEF Types, OnDeviceInfo
  <2> DEFINE N == {n}
  <2>2. N \in SUBSET Nodes /\ \A i \in DOMAIN changes : changes[i].node \in N
    BY <1>3
  <2> HIDE DEF changes, N
  <2>3. box' \in [Apps -> Seq(Changes)] /\ Posted' \subseteq Posted \cup N
    BY <1>1, <1>3, <2>1, <2>2, Posting, Zenon
  <2> QED BY <2>3 DEF N
<1> HIDE DEF changes
<1> USE DEF OnDeviceInfo, appVars
<1>5. attached' \subseteq attached /\ n \in attached /\ identified' = identified \cup {n}
  OBVIOUS
<1>6. Types'
  <2>1. answers' \in [Nodes -> Nat]
    BY <1>1 DEF Types
  <2>2. timer' \in [Nodes -> {"off", "armed", "expired"}]
    BY <1>1 DEF Types
  <2>3. status' \in [Nodes -> Statuses]
    BY <1>1 DEF Types, Statuses
  <2>4. registry' \in [Ids -> Nodes \cup {NoNode}]
    BY <1>1 DEF Types, Reregistered
  <2> QED BY <1>1, <1>4, <1>5, <2>1, <2>2, <2>3, <2>4 DEF Types
<1>7. Undead
  BY <1>4, <1>5 DEF Undead
<1>8. FreshUnknown'
  BY <1>4, <1>5, <1>7, FreshKept DEF IInv, FreshUnknown
<1>9. SimulatedKeepsId'
  BY <1>1, <1>2, <1>5, NodeAssumption DEF IInv, Types, SimulatedKeepsId
<1>10. LockedIsSettled'
  BY <1>1, <1>5 DEF IInv, LockedIsSettled, Settled
<1>11. RegisteredUnderUuid'
  BY <1>1, <1>5, NodeAssumption DEF IInv, RegisteredUnderUuid, Reregistered, UuidOf
<1>12. LockedUnderUuid'
  BY <1>2, <1>5 DEF IInv, LockedUnderUuid, UuidOf, Settled
<1>13. LiveEntryOwns'
  BY <1>7, EntriesKept
<1> QED BY <1>6, <1>8, <1>9, <1>10, <1>11, <1>12, <1>13 DEF IInv

-----------------------------------------------------------------------------
(* Sessions *)

\* Steps of a session that change no node, add no entry and post nothing.
LEMMA SessionStep ==
  ASSUME IInv, UNCHANGED <<nodeVars, robotVars>>, open' \subseteq Apps,
         locked' \in [Apps -> [Ids -> Nodes \cup {NoNode}]],
         \A a \in Apps, id \in Ids, n \in Nodes : locked'[a][id] = n => locked[a][id] = n,
         box' \in [Apps -> Seq(Changes)], Posted' \subseteq Posted
  PROVE  IInv'
<1> USE DEF nodeVars, robotVars
<1>1. Types'
  BY DEF IInv, Types
<1>2. Undead
  BY DEF Undead
<1>3. FreshUnknown'
  <2>1. fresh' = fresh /\ attached' = attached /\ identified' = identified /\ fresh \subseteq Nodes
    BY DEF IInv, Types
  <2> QED BY <2>1 DEF IInv, FreshUnknown
<1>4. SimulatedKeepsId' /\ LockedIsSettled'
  BY DEF IInv, SimulatedKeepsId, LockedIsSettled, Settled
<1>5. RegisteredUnderUuid' /\ LockedUnderUuid'
  BY IdsKept, LocksKept
<1>6. LiveEntryOwns'
  BY <1>2, EntriesKept
<1> QED BY <1>1, <1>3, <1>4, <1>5, <1>6 DEF IInv

LEMMA OpenAppStep ==
  ASSUME IInv, NEW a \in Apps, OpenApp(a) PROVE IInv'
<1>1. Types
  BY DEF IInv
<1>2. /\ locked' \in [Apps -> [Ids -> Nodes \cup {NoNode}]]
      /\ \A b \in Apps, id \in Ids, n \in Nodes : locked'[b][id] = n => locked[b][id] = n
  BY <1>1, NodeAssumption DEF Types, OpenApp
<1>3. box' \in [Apps -> Seq(Changes)] /\ Posted' = Posted /\ open' \subseteq Apps
  BY <1>1 DEF Types, OpenApp, Posted
<1> QED BY <1>2, <1>3, SessionStep DEF OpenApp

LEMMA SendFullNodeListStep ==
  ASSUME IInv, NEW a \in Apps, SendFullNodeList(a) PROVE IInv'
<1>1. UNCHANGED <<nodeVars, robotVars, open, locked, box>>
  BY DEF SendFullNodeList
<1>2. Types /\ Posted' = Posted
  BY <1>1 DEF IInv, Posted
<1> QED BY <1>1, <1>2, SessionStep DEF Types

LEMMA DoNodeChangedStep ==
  ASSUME IInv, NEW a \in Apps, DoNodeChanged(a) PROVE IInv'
<1>1. Types /\ box[a] \in Seq(Changes) /\ box[a] # <<>>
  BY DEF IInv, Types, DoNodeChanged
<1>2. box' = [box EXCEPT ![a] = Tail(@)]
  BY DEF DoNodeChanged
<1>3. box' \in [Apps -> Seq(Changes)]
  BY <1>1, <1>2 DEF Types
<1>4. Posted' \subseteq Posted
  <2> SUFFICES ASSUME NEW n \in Posted' PROVE n \in Posted
    OBVIOUS
  <2>1. n \in Nodes
    BY DEF Posted
  <2>2. PICK b \in Apps : \E i \in DOMAIN box'[b] : box'[b][i].node = n
    BY DEF Posted
  <2>3. PICK i \in DOMAIN box'[b] : box'[b][i].node = n
    BY <2>2
  <2>4. CASE b # a
    <3>1. box'[b] = box[b]
      BY <1>1, <1>2, <2>4 DEF Types
    <3> QED BY <2>1, <2>3, <3>1 DEF Posted
  <2>5. CASE b = a
    <3>1. box'[a] = Tail(box[a])
      BY <1>1, <1>2 DEF Types
    <3>2. i + 1 \in DOMAIN box[a] /\ box[a][i + 1] = box'[a][i]
      BY <1>1, <2>3, <2>5, <3>1
    <3> QED BY <2>1, <2>3, <2>5, <3>2 DEF Posted
  <2> QED BY <2>4, <2>5
<1>5. /\ locked' \in [Apps -> [Ids -> Nodes \cup {NoNode}]]
      /\ \A b \in Apps, id \in Ids, n \in Nodes : locked'[b][id] = n => locked[b][id] = n
  <2>1. Head(box[a]) \in Changes
    BY <1>1
  <2> Head(box[a]).id \in Ids
    BY <2>1 DEF Changes
  <2>2. CASE locked' = locked
    BY <1>1, <2>2 DEF Types
  <2>3. CASE locked' = [locked EXCEPT ![a][Head(box[a]).id] = NoNode]
    BY <1>1, <2>1, <2>3, NodeAssumption DEF Types
  <2> QED BY <2>2, <2>3 DEF DoNodeChanged
<1> QED BY <1>1, <1>3, <1>4, <1>5, SessionStep DEF DoNodeChanged, Types

\* What lock_node, unlock_node and the end of a session do to the parts of the state that
\* the other steps leave alone: they lock, or unlock, settled nodes and post changes of
\* live nodes.
LEMMA LockingStep ==
  ASSUME IInv, UNCHANGED <<fresh, attached, identified, registry, robotVars>>,
         status' \in [Nodes -> Statuses], owner' \in [Nodes -> Apps \cup {NoApp}],
         open' \subseteq Apps, box' \in [Apps -> Seq(Changes)],
         locked' \in [Apps -> [Ids -> Nodes \cup {NoNode}]],
         \A n \in Posted' : n \in Nodes /\ (Alive(n) \/ n \in Posted),
         \A n \in Nodes : Settled(n) \/ (status'[n] = status[n] /\ owner'[n] = owner[n]),
         \A a \in Apps, id \in Ids, n \in Nodes : locked'[a][id] = n =>
            locked[a][id] = n \/ (registry[id] = n /\ Settled(n) /\ Alive(n)),
         LiveEntryOwns'
  PROVE  IInv'
<1>1. Types'
  BY DEF IInv, Types, robotVars
<1>2. \A n \in Nodes : Alive(n) => n \notin fresh
  BY AliveIsReferenced DEF IInv, FreshUnknown
<1>3. FreshUnknown'
  <2> SUFFICES ASSUME NEW n \in fresh'
               PROVE  /\ n \notin attached' /\ n \notin Posted' /\ n \notin identified'
                      /\ \A a \in Apps, id \in Ids : locked'[a][id] # n
    BY DEF FreshUnknown
  <2>1. n \in fresh /\ n \in Nodes /\ ~Alive(n) /\ n \notin Posted
    BY <1>2 DEF IInv, Types, FreshUnknown
  <2>2. n \notin attached' /\ n \notin identified'
    BY <2>1 DEF IInv, FreshUnknown
  <2>3. n \notin Posted'
    BY <2>1
  <2>4. \A a \in Apps, id \in Ids : locked'[a][id] # n
    BY <2>1 DEF IInv, FreshUnknown
  <2> QED BY <2>2, <2>3, <2>4
<1>4. SimulatedKeepsId'
  BY DEF IInv, SimulatedKeepsId, robotVars
<1>5. LockedIsSettled'
  BY DEF IInv, LockedIsSettled, Settled
<1>6. RegisteredUnderUuid'
  BY IdsKept
<1>7. LockedUnderUuid'
  BY DEF IInv, LockedUnderUuid, RegisteredUnderUuid, UuidOf, Settled
<1> QED BY <1>1, <1>3, <1>4, <1>5, <1>6, <1>7 DEF IInv

LEMMA LockNodeStep ==
  ASSUME IInv, NEW a \in Apps, NEW id \in Ids, LockNode(a, id) PROVE IInv'
<1> DEFINE n == NodeFromId(id)
<1>1. Types /\ n \in Nodes /\ registry[id] = n /\ Alive(n) /\ NoApp # a /\ NoNode # n
  BY HandedOut, NodeAssumption DEF IInv, LockNode
<1>2. UNCHANGED <<fresh, attached, identified, registry, robotVars, open, view>>
  BY DEF LockNode
<1>3. \/ /\ owner[n] = a
         /\ locked' = [locked EXCEPT ![a][id] = n]
         /\ UNCHANGED <<status, owner, box>>
      \/ /\ owner[n] = NoApp /\ status[n] = "available"
         /\ locked' = [locked EXCEPT ![a][id] = n]
         /\ owner' = [owner EXCEPT ![n] = a]
         /\ status' = [status EXCEPT ![n] = "busy"]
         /\ box' = Signalled(open, Announced(n, "busy"))
      \/ /\ locked' = [locked EXCEPT ![a][id] = NoNode]
         /\ UNCHANGED <<status, owner, box>>
  BY DEF LockNode, MayLock, Locked
<1> HIDE DEF n
<1>4. locked' \in [Apps -> [Ids -> Nodes \cup {NoNode}]]
  <2>1. locked' = [locked EXCEPT ![a][id] = n] \/ locked' = [locked EXCEPT ![a][id] = NoNode]
    BY <1>3
  <2>2. \A v \in Nodes \cup {NoNode} :
           [locked EXCEPT ![a][id] = v] \in [Apps -> [Ids -> Nodes \cup {NoNode}]]
    BY <1>1 DEF Types
  <2> QED BY <1>1, <2>1, <2>2
<1>5. \A b \in Apps, x \in Ids, m \in Nodes :
         locked'[b][x] = m => locked[b][x] = m \/ (b = a /\ x = id /\ m = n /\ locked' = [locked EXCEPT ![a][id] = n])
  BY <1>1, <1>3, NodeAssumption DEF Types
<1>6. CASE UNCHANGED <<status, owner, box>>
  <2>1. Posted' = Posted
    BY <1>6 DEF Posted
  <2>2. \A m \in Nodes : Alive(m)' <=> Alive(m)
    BY <1>2, <2>1, AliveIsReferenced
  <2>3. locked' = [locked EXCEPT ![a][id] = n] => owner[n] = a
    <3>1. CASE owner[n] = NoApp /\ owner' = [owner EXCEPT ![n] = a]
      BY <1>1, <1>6, <3>1 DEF Types
    <3>2. CASE locked' = [locked EXCEPT ![a][id] = NoNode]
      BY <1>1, <3>2 DEF Types
    <3> QED BY <1>3, <3>1, <3>2
  <2>4. LiveEntryOwns'
    BY <1>5, <1>6, <2>2, <2>3 DEF IInv, LiveEntryOwns
  <2>5. locked' = [locked EXCEPT ![a][id] = n] => Settled(n)
    BY <1>1, <2>3, NodeAssumption DEF IInv, LockedIsSettled
  <2>6. \A b \in Apps, x \in Ids, m \in Nodes : locked'[b][x] = m =>
            locked[b][x] = m \/ (registry[x] = m /\ Settled(m) /\ Alive(m))
    BY <1>1, <1>5, <2>5
  <2>7. \A m \in Posted' : m \in Nodes /\ m \in Posted
    BY <2>1 DEF Posted
  <2> QED BY <1>1, <1>2, <1>4, <1>6, <2>4, <2>6, <2>7, LockingStep DEF Types
<1>7. CASE /\ owner[n] = NoApp /\ status[n] = "available"
           /\ locked' = [locked EXCEPT ![a][id] = n]
           /\ owner' = [owner EXCEPT ![n] = a]
           /\ status' = [status EXCEPT ![n] = "busy"]
           /\ box' = Signalled(open, Announced(n, "busy"))
  <2>1. box' \in [Apps -> Seq(Changes)] /\ Posted' \subseteq Posted \cup {n}
    <3> DEFINE changes == Announced(n, "busy")
    <3>1. changes \in Seq(Changes) /\ \A i \in DOMAIN changes : changes[i].node \in {n}
      BY <1>1, Announcing DEF Statuses
    <3>2. open \in SUBSET Apps /\ {n} \in SUBSET Nodes /\ box' = Signalled(open, changes)
      BY <1>1, <1>7 DEF Types
    <3> HIDE DEF changes
    <3> QED BY ONLY <1>1, <3>1, <3>2, Posting
  <2>2. \A m \in Nodes : Alive(m)' => Alive(m)
    BY <1>1, <1>2, <2>1, AliveIsReferenced
  <2>3. Settled(n)
    BY <1>1, <1>7 DEF IInv, LockedIsSettled
  <2>4. \A b \in Apps, x \in Ids : locked[b][x] # n
    BY <1>1, <1>7, NodeAssumption DEF IInv, LiveEntryOwns
  <2>5. LiveEntryOwns'
    <3> SUFFICES ASSUME NEW b \in Apps, NEW x \in Ids, NEW m \in Nodes, locked'[b][x] = m, Alive(m)'
                 PROVE  owner'[m] = b
      BY DEF LiveEntryOwns
    <3>1. CASE m = n
      <4>1. b = a
        BY <1>5, <2>4, <3>1
      <4> QED BY <1>1, <1>7, <3>1, <4>1 DEF Types
    <3>2. CASE m # n
      <4>1. locked[b][x] = m /\ Alive(m)
        BY <1>5, <2>2, <3>2
      <4>2. owner'[m] = owner[m]
        BY <1>1, <1>7, <3>2 DEF Types
      <4> QED BY <4>1, <4>2 DEF IInv, LiveEntryOwns
    <3> QED BY <3>1, <3>2
  <2>6. \A b \in Apps, x \in Ids, m \in Nodes : locked'[b][x] = m =>
            locked[b][x] = m \/ (registry[x] = m /\ Settled(m) /\ Alive(m))
    BY <1>1, <1>5, <2>3
  <2>7. \A m \in Posted' : m \in Nodes /\ (Alive(m) \/ m \in Posted)
    BY <1>1, <2>1 DEF Posted
  <2>8. /\ status' \in [Nodes -> Statuses] /\ owner' \in [Nodes -> Apps \cup {NoApp}]
        /\ \A m \in Nodes : m = n \/ (status'[m] = status[m] /\ owner'[m] = owner[m])
    BY <1>1, <1>7 DEF Types, Statuses
  <2>9. open' \subseteq Apps
    BY <1>1, <1>2 DEF Types
  <2> QED BY <1>2, <1>4, <2>1, <2>3, <2>5, <2>6, <2>7, <2>8, <2>9, LockingStep
<1> QED BY <1>3, <1>6, <1>7

LEMMA UnlockNodeStep ==
  ASSUME IInv, NEW a \in Apps, NEW id \in Ids, UnlockNode(a, id) PROVE IInv'
<1> DEFINE n == GetLockedNode(a, id)
<1>1. Types /\ locked' = [locked EXCEPT ![a][id] = NoNode]
  BY DEF IInv, UnlockNode
<1>2. UNCHANGED <<fresh, attached, identified, registry, robotVars, open, view>>
  BY DEF UnlockNode
<1>3. /\ locked' \in [Apps -> [Ids -> Nodes \cup {NoNode}]]
      /\ \A b \in Apps, x \in Ids, m \in Nodes :
            locked'[b][x] = m => locked[b][x] = m /\ ~ (b = a /\ x = id)
  BY <1>1, NodeAssumption DEF Types
<1>4. CASE n # NoNode /\ owner[n] = a
  <2>1. /\ owner' = [owner EXCEPT ![n] = NoApp] /\ status' = [status EXCEPT ![n] = "available"]
        /\ box' = Signalled(open, Announced(n, "available"))
    BY <1>4 DEF UnlockNode, Unlocked
  <2>2. n \in Nodes /\ locked[a][id] = n /\ Alive(n)
    BY <1>4, HandedOut
  <2> HIDE DEF n
  <2>3. box' \in [Apps -> Seq(Changes)] /\ Posted' \subseteq Posted \cup {n}
    <3> DEFINE changes == Announced(n, "available")
    <3>1. changes \in Seq(Changes) /\ \A i \in DOMAIN changes : changes[i].node \in {n}
      BY <2>2, Announcing DEF Statuses
    <3>2. open \in SUBSET Apps /\ {n} \in SUBSET Nodes /\ box' = Signalled(open, changes)
      BY <1>1, <2>1, <2>2 DEF Types
    <3> HIDE DEF changes
    <3> QED BY ONLY <1>1, <3>1, <3>2, Posting
  <2>4. \A m \in Nodes : Alive(m)' => Alive(m)
    BY <1>2, <2>2, <2>3, AliveIsReferenced
  <2>5. id = UuidOf(n) /\ Settled(n)
    BY <2>2 DEF IInv, LockedUnderUuid
  <2>6. \A b \in Apps, x \in Ids : locked'[b][x] # n
    BY <1>3, <1>4, <2>2, <2>5 DEF IInv, LockedUnderUuid, LiveEntryOwns
  <2>7. LiveEntryOwns'
    BY <1>1, <1>3, <2>1, <2>2, <2>4, <2>6 DEF IInv, LiveEntryOwns, Types
  <2>8. /\ status' \in [Nodes -> Statuses] /\ owner' \in [Nodes -> Apps \cup {NoApp}]
        /\ \A m \in Nodes : m = n \/ (status'[m] = status[m] /\ owner'[m] = owner[m])
    BY <1>1, <2>1, <2>2 DEF Types, Statuses
  <2>9. \A m \in Posted' : m \in Nodes /\ (Alive(m) \/ m \in Posted)
    BY <2>2, <2>3 DEF Posted
  <2>10. open' \subseteq Apps
    BY <1>1, <1>2 DEF Types
  <2> QED BY <1>2, <1>3, <2>3, <2>5, <2>7, <2>8, <2>9, <2>10, LockingStep
<1>5. CASE ~ (n # NoNode /\ owner[n] = a)
  <2>1. UNCHANGED <<owner, status, box>>
    BY <1>5 DEF UnlockNode
  <2>2. Posted' = Posted
    BY <2>1 DEF Posted
  <2> QED BY <1>1, <1>2, <1>3, <2>1, <2>2, SessionStep DEF Types, nodeVars
<1> QED BY <1>4, <1>5

LEMMA CloseAppStep ==
  ASSUME IInv, NEW a \in Apps, CloseApp(a) PROVE IInv'
<1>1. Types /\ NoApp # a
  BY NodeAssumption DEF IInv
<1>2. /\ UNCHANGED <<fresh, attached, identified, registry, robotVars, view>>
      /\ owner' = [n \in Nodes |-> IF n \in Released(a) THEN NoApp ELSE owner[n]]
      /\ status' = [n \in Nodes |-> IF n \in Released(a) THEN "available" ELSE status[n]]
      /\ open' = open \ {a}
      /\ locked' = [locked EXCEPT ![a] = [id \in Ids |-> NoNode]]
  BY DEF CloseApp
<1>3. \A n \in Released(a) : n \in Nodes /\ owner[n] = a /\ Alive(n) /\ Settled(n)
  <2> SUFFICES ASSUME NEW n \in Released(a) PROVE n \in Nodes /\ owner[n] = a /\ Alive(n) /\ Settled(n)
    OBVIOUS
  <2>1. n \in Nodes /\ owner[n] = a
    BY DEF Released
  <2>2. PICK id \in Ids : GetLockedNode(a, id) = n
    BY DEF Released
  <2>3. Alive(n)
    BY <2>1, <2>2, HandedOut, NodeAssumption
  <2>4. Settled(n)
    BY <1>1, <2>1 DEF IInv, LockedIsSettled
  <2> QED BY <2>1, <2>3, <2>4
<1> PICK k \in 0..MaxPosted : \E order \in [1..k -> Releases(a)] : box' = Signalled(open \ {a}, order)
  BY DEF CloseApp
<1>4. PICK order \in [1..k -> Releases(a)] : box' = Signalled(open \ {a}, order)
  OBVIOUS
<1>5. \A c \in Releases(a) : c \in Changes /\ c.node \in Released(a)
  BY <1>3 DEF Releases, Change, Changes, KeysOf, Statuses
<1>6. order \in Seq(Changes) /\ \A i \in DOMAIN order : order[i].node \in Released(a)
  <2>1. k \in Nat
    BY NodeAssumption
  <2> QED BY <2>1, <1>5
<1>7. box' \in [Apps -> Seq(Changes)] /\ Posted' \subseteq Posted \cup Released(a)
  <2>1. Released(a) \in SUBSET Nodes /\ open \ {a} \in SUBSET Apps
    BY <1>1, <1>3 DEF Types
  <2> QED BY ONLY <1>1, <1>4, <1>6, <2>1, Posting
<1>8. /\ locked' \in [Apps -> [Ids -> Nodes \cup {NoNode}]]
      /\ \A b \in Apps, x \in Ids, m \in Nodes : locked'[b][x] = m => locked[b][x] = m /\ b # a
  BY <1>1, <1>2, NodeAssumption DEF Types
<1>9. \A n \in Nodes : Alive(n)' => Alive(n)
  BY <1>2, <1>3, <1>7, AliveIsReferenced
<1>10. LiveEntryOwns'
  BY <1>2, <1>3, <1>8, <1>9 DEF IInv, LiveEntryOwns
<1>11. /\ status' \in [Nodes -> Statuses] /\ owner' \in [Nodes -> Apps \cup {NoApp}]
       /\ \A m \in Nodes : Settled(m) \/ (status'[m] = status[m] /\ owner'[m] = owner[m])
  BY <1>1, <1>2, <1>3 DEF Types, Statuses
<1>12. \A m \in Posted' : m \in Nodes /\ (Alive(m) \/ m \in Posted)
  BY <1>3, <1>7 DEF Posted
<1>13. open' \subseteq Apps
  BY <1>1, <1>2 DEF Types
<1> QED BY <1>2, <1>7, <1>8, <1>10, <1>11, <1>12, <1>13, LockingStep

-----------------------------------------------------------------------------
LEMMA Inductive == IInv /\ [Next]_vars => IInv'
<1> SUFFICES ASSUME IInv, [Next]_vars PROVE IInv'
  OBVIOUS
<1>1. CASE UNCHANGED vars
  <2>1. UNCHANGED <<nodeVars, robotVars, open, locked, box>>
    BY <1>1 DEF vars, appVars
  <2>2. Types /\ Posted' = Posted
    BY <2>1 DEF IInv, Posted
  <2> QED BY <2>1, <2>2, SessionStep DEF Types
<1>2. ASSUME NEW n \in Nodes, NodeStep(n) PROVE IInv'
  BY <1>2, ConnectStep, OnDescriptionReceivedStep, QuietStep, OnDeviceInfoStep,
     AnnounceAgainStep, DisconnectStep DEF NodeStep
<1>3. ASSUME NEW a \in Apps, OpenApp(a) \/ CloseApp(a) \/ DoNodeChanged(a) \/ Request(a)
      PROVE  IInv'
  BY <1>3, OpenAppStep, CloseAppStep, DoNodeChangedStep, SendFullNodeListStep, LockNodeStep,
     UnlockNodeStep, UpgradeNodeFirmwareStep DEF Request
<1> QED BY <1>1, <1>2, <1>3 DEF Next

\* Every reachable state of the node objects, the registry and the sessions satisfies the
\* inductive invariant.
THEOREM Invariance == Spec => []IInv
BY Initially, Inductive, PTL DEF Spec

\* No two sessions drive the same robot: whoever lock_node, unlock_node, the end of a
\* session, disconnections, late and repeated answers of the robot leave with an entry that
\* get_locked_node accepts is the node's m_connected_app.
THEOREM HolderOwnsAlways == Spec => []HolderOwns
<1>1. IInv => HolderOwns
  BY HandedOut DEF IInv, LiveEntryOwns, HolderOwns
<1> QED BY Invariance, <1>1, PTL
-----------------------------------------------------------------------------
(* Bounds: the questions, the posted changes, and what clients are told *)

Told == Statuses \cup {"ready", "unknown"}

AskedWithin ==
  /\ asks \in [Nodes -> 0..MaxAsks]
  /\ \A n \in Nodes : answers[n] <= asks[n]

PostedWithin == \A a \in Apps : Len(box[a]) <= MaxPosted

ViewsKnown == view \in [Apps -> [Ids -> Told]]

BInv == AskedWithin /\ PostedWithin /\ ViewsKnown

\* No answer is on its way that was not asked for.
LEMMA AskedKept ==
  ASSUME IInv, AskedWithin, [Next]_vars PROVE AskedWithin'
<1>1. Types /\ MaxAsks \in Nat
  BY NodeAssumption DEF IInv
<1>2. \A n \in Nodes : asks[n] \in 0..MaxAsks /\ answers[n] \in Nat /\ answers[n] <= asks[n]
  BY <1>1 DEF Types, AskedWithin
<1>3. CASE UNCHANGED <<asks, answers>>
  BY <1>3 DEF AskedWithin
<1>4. ASSUME NEW n \in Nodes, RequestDeviceInfo(n), asks[n] < MaxAsks PROVE AskedWithin'
  <2>1. /\ asks' = [asks EXCEPT ![n] = asks[n] + 1]
        /\ answers' = [answers EXCEPT ![n] = answers[n] + 1]
    BY <1>4 DEF RequestDeviceInfo
  <2>2. asks[n] + 1 \in 0..MaxAsks
    BY <1>1, <1>2, <1>4
  <2>3. asks' \in [Nodes -> 0..MaxAsks]
    BY <2>1, <2>2 DEF AskedWithin
  <2>4. \A m \in Nodes : answers'[m] <= asks'[m]
    BY <1>1, <1>2, <2>1 DEF AskedWithin, Types
  <2> QED BY <2>3, <2>4 DEF AskedWithin
<1>5. ASSUME NEW n \in Nodes, NodeStep(n) PROVE AskedWithin'
  <2>1. CASE Connect(n) \/ TimerExpires(n) \/ AnnounceAgain(n) \/ Disconnect(n)
    BY <1>3, <2>1 DEF Connect, TimerExpires, AnnounceAgain, Disconnect, robotVars
  <2>2. CASE OnDescriptionReceived(n)
    <3>1. CASE n \in Simulated
      <4>1. asks' = [asks EXCEPT ![n] = asks[n] + 1] /\ answers' = answers /\ asks[n] < MaxAsks
        BY <2>2, <3>1 DEF OnDescriptionReceived
      <4>2. asks[n] + 1 \in 0..MaxAsks
        BY <1>1, <1>2, <4>1
      <4>3. asks' \in [Nodes -> 0..MaxAsks]
        BY <4>1, <4>2 DEF AskedWithin
      <4>4. \A m \in Nodes : answers'[m] <= asks'[m]
        BY <1>1, <1>2, <4>1 DEF AskedWithin, Types
      <4> QED BY <4>3, <4>4 DEF AskedWithin
    <3>2. CASE n \notin Simulated
      BY <1>4, <2>2, <3>2 DEF OnDescriptionReceived
    <3> QED BY <3>1, <3>2
  <2>3. CASE ResendDeviceInfo(n)
    BY <1>4, <2>3 DEF ResendDeviceInfo
  <2>4. CASE AnswerLost(n) \/ OnDeviceInfo(n)
    <3>1. asks' = asks /\ answers' = [answers EXCEPT ![n] = answers[n] - 1] /\ answers[n] > 0
      BY <2>4 DEF AnswerLost, OnDeviceInfo
    <3>2. \A m \in Nodes : answers'[m] <= asks'[m]
      BY <1>1, <1>2, <3>1 DEF AskedWithin, Types
    <3> QED BY <3>1, <3>2 DEF AskedWithin
  <2> QED BY <1>5, <2>1, <2>2, <2>3, <2>4 DEF NodeStep
<1>6. ASSUME NEW a \in Apps, OpenApp(a) \/ CloseApp(a) \/ DoNodeChanged(a) \/ Request(a)
      PROVE  AskedWithin'
  BY <1>3, <1>6 DEF OpenApp, CloseApp, DoNodeChanged, Request, SendFullNodeList, LockNode,
     UnlockNode, UpgradeNodeFirmware, robotVars
<1> QED BY <1>3, <1>5, <1>6 DEF Next, vars, robotVars

\* There is room for what is posted.
LEMMA PostingWithin ==
  ASSUME Types, PostedWithin, NEW k \in Nat, Room(k), NEW S \in SUBSET Apps,
         NEW changes \in Seq(Changes), Len(changes) <= k, box' = Signalled(S, changes)
  PROVE  PostedWithin'
<1> SUFFICES ASSUME NEW a \in Apps PROVE Len(box'[a]) <= MaxPosted
  BY DEF PostedWithin
<1>1. box[a] \in Seq(Changes) /\ MaxPosted \in Nat
  BY NodeAssumption DEF Types
<1>2. Len(box[a]) + k <= MaxPosted
  BY DEF Room
<1>3. Len(box[a] \o changes) = Len(box[a]) + Len(changes)
  BY <1>1
<1>4. box'[a] = box[a] \o changes \/ box'[a] = box[a]
  BY DEF Signalled
<1>5. Len(box[a]) \in Nat /\ Len(changes) \in Nat
  BY <1>1
<1> QED BY <1>1, <1>2, <1>3, <1>4, <1>5

\* set_node_status posts one change at most.
LEMMA AnnouncingOnce ==
  ASSUME NEW n \in Nodes, NEW s \in Statuses PROVE Len(Announced(n, s)) <= 1
BY DEF Announced

LEMMA AnnouncedWithin ==
  ASSUME Types, PostedWithin, Room(1), NEW n \in Nodes, NEW s \in Statuses,
         box' = Signalled(open, Announced(n, s))
  PROVE  PostedWithin'
<1> DEFINE changes == Announced(n, s)
<1>1. changes \in Seq(Changes) /\ Len(changes) <= 1
  BY Announcing, AnnouncingOnce
<1>2. box' = Signalled(open, changes) /\ open \in SUBSET Apps /\ 1 \in Nat
  BY DEF Types
<1> HIDE DEF changes
<1> QED BY <1>1, <1>2, PostingWithin

LEMMA PostedKept ==
  ASSUME IInv, PostedWithin, [Next]_vars PROVE PostedWithin'
<1>1. Types /\ MaxPosted \in Nat /\ open \in SUBSET Apps
  BY NodeAssumption DEF IInv, Types
<1>2. CASE UNCHANGED box
  BY <1>2 DEF PostedWithin
<1>3. ASSUME NEW n \in Nodes, NodeStep(n) PROVE PostedWithin'
  <2>1. CASE Connect(n)
    <3> DEFINE changes == <<Change(n, n, "connected")>>
    <3>1. changes \in Seq(Changes) /\ Len(changes) <= 1
      BY DEF Change, Changes, Ids, Statuses
    <3>2. Room(1) /\ box' = Signalled(open, changes) /\ 1 \in Nat
      BY <2>1 DEF Connect
    <3> HIDE DEF changes
    <3> QED BY <1>1, <3>1, <3>2, PostingWithin
  <2>2. CASE OnDescriptionReceived(n)
    <3>1. UNCHANGED box \/ (Room(1) /\ box' = Signalled(open, Announced(n, "available")))
      BY <2>2 DEF OnDescriptionReceived
    <3> QED BY <1>1, <1>2, <3>1, AnnouncedWithin DEF Statuses
  <2>3. CASE TimerExpires(n) \/ ResendDeviceInfo(n) \/ AnswerLost(n)
    BY <1>2, <2>3 DEF TimerExpires, ResendDeviceInfo, AnswerLost
  <2>4. CASE OnDeviceInfo(n)
    <3> DEFINE gone == Announced(n, "disconnected")
               back == Change(n, Uuid[n], "available")
    <3>1. gone \in Seq(Changes) /\ Len(gone) <= 1
      BY Announcing, AnnouncingOnce DEF Statuses
    <3>2. back \in Changes
      BY NodeAssumption DEF Change, Changes, Ids, Statuses
    <3>3. Room(2) /\ box' = Signalled(open, gone \o <<back>>) /\ 2 \in Nat
      BY <2>4 DEF OnDeviceInfo
    <3> HIDE DEF gone, back
    <3>4. gone \o <<back>> \in Seq(Changes) /\ Len(gone \o <<back>>) = Len(gone) + 1
      BY <3>1, <3>2
    <3>5. Len(gone \o <<back>>) <= 2
      BY <3>1, <3>4
    <3> QED BY <1>1, <3>3, <3>4, <3>5, PostingWithin
  <2>5. CASE AnnounceAgain(n)
    <3>1. status[n] \in Statuses /\ Room(1) /\ box' = Signalled(open, Announced(n, status[n]))
      BY <1>1, <2>5 DEF AnnounceAgain, Types
    <3> QED BY <1>1, <3>1, AnnouncedWithin
  <2>6. CASE Disconnect(n)
    <3>1. Room(1) /\ box' = Signalled(open, Announced(n, "disconnected"))
      BY <2>6 DEF Disconnect
    <3> QED BY <1>1, <3>1, AnnouncedWithin DEF Statuses
  <2> QED BY <1>3, <2>1, <2>2, <2>3, <2>4, <2>5, <2>6 DEF NodeStep
<1>4. ASSUME NEW a \in Apps, OpenApp(a) \/ SendFullNodeList(a) PROVE PostedWithin'
  BY <1>2, <1>4 DEF OpenApp, SendFullNodeList
<1>5. ASSUME NEW a \in Apps, DoNodeChanged(a) PROVE PostedWithin'
  <2>1. box' = [box EXCEPT ![a] = Tail(box[a])] /\ box[a] # <<>> /\ box[a] \in Seq(Changes)
    BY <1>1, <1>5 DEF DoNodeChanged, Types
  <2>2. Len(Tail(box[a])) = Len(box[a]) - 1 /\ Len(box[a]) \in Nat
    BY <2>1
  <2> QED BY <1>1, <2>1, <2>2 DEF PostedWithin, Types
<1>6. ASSUME NEW a \in Apps, CloseApp(a) PROVE PostedWithin'
  <2>1. PICK k \in 0..MaxPosted : \E order \in [1..k -> Releases(a)] :
           Room(k) /\ box' = Signalled(open \ {a}, order)
    BY <1>6 DEF CloseApp
  <2>2. PICK order \in [1..k -> Releases(a)] : Room(k) /\ box' = Signalled(open \ {a}, order)
    BY <2>1
  <2>3. \A c \in Releases(a) : c \in Changes
    BY DEF Releases, Released, Change, Changes, KeysOf, Statuses
  <2>4. k \in Nat /\ open \ {a} \in SUBSET Apps
    BY <1>1
  <2>5. order \in Seq(Changes) /\ Len(order) <= k
    BY <2>3, <2>4
  <2> QED BY <1>1, <2>2, <2>4, <2>5, PostingWithin
<1>7. ASSUME NEW a \in Apps, NEW id \in Ids, LockNode(a, id) PROVE PostedWithin'
  <2> DEFINE n == NodeFromId(id)
  <2>1. n \in Nodes /\ Room(1)
    BY <1>7, HandedOut DEF LockNode
  <2>2. UNCHANGED box \/ box' = Signalled(open, Announced(n, "busy"))
    BY <1>7 DEF LockNode
  <2> HIDE DEF n
  <2> QED BY <1>1, <1>2, <2>1, <2>2, AnnouncedWithin DEF Statuses
<1>8. ASSUME NEW a \in Apps, NEW id \in Ids, UnlockNode(a, id) PROVE PostedWithin'
  <2> DEFINE n == GetLockedNode(a, id)
  <2>1. Room(1) /\ (UNCHANGED box \/ (n # NoNode /\ box' = Signalled(open, Announced(n, "available"))))
    BY <1>8 DEF UnlockNode
  <2>2. n # NoNode => n \in Nodes
    BY HandedOut
  <2> HIDE DEF n
  <2> QED BY <1>1, <1>2, <2>1, <2>2, AnnouncedWithin DEF Statuses
<1>9. ASSUME NEW a \in Apps, NEW id \in Ids, UpgradeNodeFirmware(a, id) PROVE PostedWithin'
  <2> DEFINE n == NodeFromId(id)
  <2>1. n \in Nodes /\ Room(1) /\ box' = Signalled(open, Announced(n, "upgrading"))
    BY <1>9, HandedOut DEF UpgradeNodeFirmware
  <2> HIDE DEF n
  <2> QED BY <1>1, <2>1, AnnouncedWithin DEF Statuses
<1> QED BY <1>2, <1>3, <1>4, <1>5, <1>6, <1>7, <1>8, <1>9 DEF Next, Request, vars

\* Whatever a session looks up, its client is told a status of the protocol.
LEMMA ShownIsTold ==
  ASSUME NEW a, NEW n, NEW id, NEW s \in Statuses PROVE Shown(a, n, id, s) \in Told
<1> DEFINE mine == GetLockedNode(a, id) # NoNode \/ GetLockedNode(a, UuidOf(n)) # NoNode
<1>1. Shown(a, n, id, s) = CASE s = "busy" /\ mine -> "ready" [] s = "upgrading" -> "busy" [] OTHER -> s
  BY DEF Shown
<1> HIDE DEF mine
<1> QED BY <1>1 DEF Told, Statuses

LEMMA ViewsKept ==
  ASSUME IInv, ViewsKnown, [Next]_vars PROVE ViewsKnown'
<1>1. Types
  BY DEF IInv
<1>2. CASE UNCHANGED view
  BY <1>2 DEF ViewsKnown
<1>3. ASSUME NEW a \in Apps, OpenApp(a) PROVE ViewsKnown'
  BY <1>3 DEF ViewsKnown, OpenApp, Told
<1>4. ASSUME NEW a \in Apps, SendFullNodeList(a) PROVE ViewsKnown'
  <2> DEFINE said(id) == IF NodeFromId(id) = NoNode THEN view[a][id]
                         ELSE Shown(a, NodeFromId(id), id, status[NodeFromId(id)])
  <2>1. view' = [view EXCEPT ![a] = [id \in Ids |-> said(id)]]
    BY <1>4 DEF SendFullNodeList
  <2>2. ASSUME NEW id \in Ids PROVE said(id) \in Told
    <3>1. CASE NodeFromId(id) = NoNode
      BY <3>1 DEF ViewsKnown
    <3>2. CASE NodeFromId(id) # NoNode
      <4>1. status[NodeFromId(id)] \in Statuses
        BY <1>1, <3>2, HandedOut, <1>4 DEF Types
      <4> QED BY <3>2, <4>1, ShownIsTold
    <3> QED BY <3>1, <3>2
  <2> HIDE DEF said
  <2> QED BY <2>1, <2>2 DEF ViewsKnown
<1>5. ASSUME NEW a \in Apps, DoNodeChanged(a) PROVE ViewsKnown'
  <2> DEFINE c == Head(box[a])
             said == Shown(a, c.node, c.id, c.status)
  <2>1. box[a] \in Seq(Changes) /\ box[a] # <<>>
    BY <1>1, <1>5 DEF Types, DoNodeChanged
  <2>2. c \in Changes
    BY <2>1
  <2>3. c.id \in Ids /\ c.status \in Statuses
    BY <2>2 DEF Changes
  <2>4. said \in Told
    BY <2>3, ShownIsTold
  <2>5. view' = [view EXCEPT ![a][c.id] = said]
    BY <1>5 DEF DoNodeChanged
  <2> HIDE DEF c, said
  <2> QED BY <2>3, <2>4, <2>5 DEF ViewsKnown
<1>6. ASSUME NEW n \in Nodes, NodeStep(n) PROVE UNCHANGED view
  BY <1>6 DEF NodeStep, Connect, OnDescriptionReceived, TimerExpires, ResendDeviceInfo, AnswerLost,
     OnDeviceInfo, AnnounceAgain, Disconnect, appVars
<1>7. ASSUME NEW a \in Apps, NEW id \in Ids,
             CloseApp(a) \/ LockNode(a, id) \/ UnlockNode(a, id) \/ UpgradeNodeFirmware(a, id)
      PROVE  UNCHANGED view
  BY <1>7 DEF CloseApp, LockNode, UnlockNode, UpgradeNodeFirmware, appVars
<1>8. ASSUME NEW a \in Apps, CloseApp(a) PROVE UNCHANGED view
  BY <1>8 DEF CloseApp
<1> QED BY <1>2, <1>3, <1>4, <1>5, <1>6, <1>7, <1>8 DEF Next, Request, vars, appVars

\* The types, the bounds on questions and posted changes, and the statuses clients are told:
\* "ready" is only ever told, never a node's own status.
THEOREM TypeOKAlways == Spec => []TypeOK
<1>1. Init => BInv
  BY NodeAssumption DEF Init, BInv, AskedWithin, PostedWithin, ViewsKnown, Told
<1>2. IInv /\ BInv /\ [Next]_vars => BInv'
  BY AskedKept, PostedKept, ViewsKept DEF BInv
<1>3. IInv /\ BInv => TypeOK
  <2> SUFFICES ASSUME IInv, BInv PROVE TypeOK
    OBVIOUS
  <2>1. answers \in [Nodes -> 0..MaxAsks]
    BY NodeAssumption DEF IInv, BInv, AskedWithin, Types
  <2> QED BY <2>1 DEF IInv, BInv, AskedWithin, PostedWithin, ViewsKnown, Told, Types, TypeOK
<1> QED BY Invariance, <1>1, <1>2, <1>3, PTL DEF Spec
=============================================================================
