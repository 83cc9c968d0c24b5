------------------------- MODULE ThymioClientProofs -------------------------
(***************************************************************************)
(* The client library and its session, for any nodes, groups and requests: *)
(* nodes of one group share one Group object, an answer meets the request  *)
(* it is for, no promise is forgotten, and once all is delivered the       *)
(* client has the nodes of the server, the values of the groups it watches *)
(* and a connection to the variables it asked for.                         *)
(***************************************************************************)
EXTENDS ThymioClient, FiniteSetTheorems, WellFoundedInduction, TLAPS

Flags == {"variables", "shared"}

AllGroups == Groups \cup {NoGroup}

NodeRecords ==
  [status : {"unknown", "available", "busy"}, group : Objects, flags : SUBSET Flags, callback : BOOLEAN]

GroupRecords == [id : AllGroups, variables : Nat, events : Nat, flags : SUBSET Flags]

\* The tables of the client: every node has a Group object, nodes of one group the same one.
Tables(ns, gs) ==
  /\ DOMAIN ns \subseteq Nodes /\ ns \in [DOMAIN ns -> NodeRecords]
  /\ DOMAIN gs \subseteq Objects /\ gs \in [DOMAIN gs -> GroupRecords]
  /\ \A n \in DOMAIN ns : ns[n].group \in DOMAIN gs
  /\ \A m, n \in DOMAIN ns : gs[ns[m].group].id = gs[ns[n].group].id => ns[m].group = ns[n].group

\* What a NodesChanged says of a node.
Entries == [node : Nodes, status : {"available", "busy", "disconnected"}, group : AllGroups]

-----------------------------------------------------------------------------
(* The table of nodes: _set_group and the loop of _nodes_changed_as_node_list *)

\* There are more objects than nodes: one is free.
LEMMA FreeObject ==
  ASSUME NEW ns, DOMAIN ns \subseteq Nodes, NEW n
  PROVE  \E o \in Objects : \A m \in DOMAIN ns \ {n} : ns[m].group # o
<1> DEFINE D == DOMAIN ns \ {n}
           f == [m \in D |-> ns[m].group]
           T == {ns[m].group : m \in D}
           k == Cardinality(Nodes) + 1
<1>1. IsFiniteSet(Nodes) /\ Cardinality(Nodes) \in Nat /\ IsFiniteSet(D) /\ Cardinality(D) <= Cardinality(Nodes)
  BY ClientAssumption, FS_Subset, FS_CardinalityType
<1>2. f \in Surjection(D, T)
  BY DEF Surjection
<1> HIDE DEF D, f, T
<1>3. IsFiniteSet(T) /\ Cardinality(T) <= Cardinality(D)
  BY <1>1, <1>2, FS_Surjection
<1>4. Cardinality(T) \in Nat /\ Cardinality(D) \in Nat
  BY <1>1, <1>3, FS_CardinalityType
<1>5. ~ (Objects \subseteq T)
  <2> SUFFICES ASSUME Objects \subseteq T PROVE FALSE
    OBVIOUS
  <2>1. Cardinality(Objects) <= Cardinality(T)
    BY <1>3, FS_Subset
  <2>2. Cardinality(1..k) = IF 1 > k THEN 0 ELSE k - 1 + 1
    BY <1>1, FS_Interval
  <2>3. Cardinality(Objects) = Cardinality(Nodes) + 1
    BY <1>1, <2>2 DEF Objects
  <2> QED BY <1>1, <1>3, <1>4, <2>1, <2>3
<1> QED BY <1>5 DEF T, D

\* What the client shows of a node: its status and the id of its group.
Shows(ns, gs, n, status, group) == n \in DOMAIN ns /\ ns[n].status = status /\ gs[ns[n].group].id = group

\* Another node is shown as before, or not at all.
SameFor(ns, gs, new, m) ==
  /\ m \in DOMAIN new.nodes <=> m \in DOMAIN ns
  /\ m \in DOMAIN ns => Shows(new.nodes, new.groups, m, ns[m].status, gs[ns[m].group].id)

\* _set_group
LEMMA RegroupedTables ==
  ASSUME NEW ns, NEW gs, Tables(ns, gs), NEW n \in Nodes, NEW node \in NodeRecords, NEW g \in AllGroups
  PROVE  LET new == Regrouped(ns, gs, n, node, g)
         IN  /\ Tables(new.nodes, new.groups)
             /\ Shows(new.nodes, new.groups, n, node.status, g)
             /\ \A m \in Nodes \ {n} : SameFor(ns, gs, new, m)
<1> DEFINE D == DOMAIN ns \ {n}
           known == GroupFromId(ns, gs, g)
           o == IF known # {} THEN CHOOSE x \in known : TRUE
                ELSE CHOOSE x \in Objects : \A m \in D : ns[m].group # x
           left == {o} \cup {ns[m].group : m \in D}
           new == [m \in DOMAIN ns \cup {n} |-> IF m = n THEN [node EXCEPT !.group = o] ELSE ns[m]]
           newg == [p \in left |-> IF p = o /\ known = {} THEN NewGroup(g) ELSE gs[p]]
<1>1. Regrouped(ns, gs, n, node, g) = [nodes |-> new, groups |-> newg]
  BY DEF Regrouped
<1>2. /\ DOMAIN ns \subseteq Nodes /\ ns \in [DOMAIN ns -> NodeRecords]
      /\ DOMAIN gs \subseteq Objects /\ gs \in [DOMAIN gs -> GroupRecords]
      /\ \A m \in DOMAIN ns : ns[m].group \in DOMAIN gs
      /\ \A l, m \in DOMAIN ns : gs[ns[l].group].id = gs[ns[m].group].id => ns[l].group = ns[m].group
  BY DEF Tables
<1>3. known # {} => o \in known /\ o \in DOMAIN gs /\ gs[o].id = g
  BY <1>2 DEF GroupFromId
<1>4. known = {} => /\ o \in Objects /\ \A m \in D : ns[m].group # o
                    /\ \A m \in DOMAIN ns : gs[ns[m].group].id # g
  <2>1. \E x \in Objects : \A m \in D : ns[m].group # x
    <3>1. DOMAIN ns \subseteq Nodes
      BY <1>2
    <3> QED BY <3>1, FreeObject
  <2>2. known = {} => \A m \in DOMAIN ns : gs[ns[m].group].id # g
    BY DEF GroupFromId
  <2> QED BY <2>1, <2>2
<1>5. known # {} => \A m \in DOMAIN ns : gs[ns[m].group].id = g => ns[m].group = o
  <2> SUFFICES ASSUME known # {}, NEW m \in DOMAIN ns, gs[ns[m].group].id = g PROVE ns[m].group = o
    OBVIOUS
  <2>1. PICK l \in DOMAIN ns : gs[ns[l].group].id = g /\ ns[l].group = o
    BY <1>3 DEF GroupFromId
  <2> QED BY <1>2, <2>1
<1> DEFINE fresh == known = {}
<1>6. newg = [p \in left |-> IF p = o /\ fresh THEN NewGroup(g) ELSE gs[p]]
  OBVIOUS
<1> HIDE DEF o, fresh
<1>7. o \in Objects /\ left \subseteq Objects
  BY <1>2, <1>3, <1>4 DEF fresh
<1>8. NewGroup(g) \in GroupRecords /\ NewGroup(g).id = g
  BY DEF NewGroup, GroupRecords, Null
<1>9. ASSUME NEW p \in left PROVE newg[p] \in GroupRecords
  <2>1. ~ (p = o /\ fresh) => p \in DOMAIN gs
    BY <1>2, <1>3 DEF fresh
  <2> QED BY <1>2, <1>6, <1>8, <2>1
<1>10. newg[o].id = g
  BY <1>3, <1>6, <1>8 DEF fresh
<1>11. \A m \in D : ns[m].group \in left /\ newg[ns[m].group].id = gs[ns[m].group].id
  BY <1>4, <1>6 DEF fresh
<1>12. \A m \in D : gs[ns[m].group].id = g => ns[m].group = o
  BY <1>4, <1>5 DEF fresh
<1>13. [node EXCEPT !.group = o] \in NodeRecords
  BY <1>7 DEF NodeRecords
<1>14. /\ DOMAIN new = DOMAIN ns \cup {n} /\ new[n] = [node EXCEPT !.group = o]
       /\ \A m \in D : new[m] = ns[m]
  OBVIOUS
<1>15. new[n].group = o /\ new[n].status = node.status
  BY <1>14 DEF NodeRecords
<1>16. DOMAIN newg = left
  BY <1>6
<1>17. newg \in [DOMAIN newg -> GroupRecords] /\ new \in [DOMAIN new -> NodeRecords]
  <2>1. newg \in [left -> GroupRecords]
    BY <1>6, <1>9
  <2>2. \A m \in DOMAIN new : new[m] \in NodeRecords
    BY <1>2, <1>13, <1>14
  <2> QED BY <1>16, <2>1, <2>2
<1> HIDE DEF new, newg
<1>18. Tables(new, newg)
  <2>1. \A m \in DOMAIN new : new[m].group \in DOMAIN newg
    BY <1>11, <1>14, <1>15, <1>16
  <2>2. ASSUME NEW l \in DOMAIN new, NEW m \in DOMAIN new, newg[new[l].group].id = newg[new[m].group].id
        PROVE  new[l].group = new[m].group
    <3>1. CASE l = n /\ m = n
      BY <3>1
    <3>2. CASE l = n /\ m # n
      <4>1. m \in D /\ new[m].group = ns[m].group /\ gs[ns[m].group].id = g
        BY <1>10, <1>11, <1>14, <1>15, <2>2, <3>2
      <4> QED BY <1>12, <1>15, <3>2, <4>1
    <3>3. CASE l # n /\ m = n
      <4>1. l \in D /\ new[l].group = ns[l].group /\ gs[ns[l].group].id = g
        BY <1>10, <1>11, <1>14, <1>15, <2>2, <3>3
      <4> QED BY <1>12, <1>15, <3>3, <4>1
    <3>4. CASE l # n /\ m # n
      BY <1>2, <1>11, <1>14, <2>2, <3>4
    <3> QED BY <3>1, <3>2, <3>3, <3>4
  <2> QED BY <1>2, <1>7, <1>14, <1>16, <1>17, <2>1, <2>2 DEF Tables
<1>19. Shows(new, newg, n, node.status, g)
  BY <1>10, <1>14, <1>15 DEF Shows
<1>20. ASSUME NEW m \in Nodes \ {n} PROVE SameFor(ns, gs, [nodes |-> new, groups |-> newg], m)
  BY <1>11, <1>14 DEF SameFor, Shows
<1> QED BY <1>1, <1>18, <1>19, <1>20
LEMMA DeletedTables ==
  ASSUME NEW ns, NEW gs, Tables(ns, gs), NEW n \in Nodes
  PROVE  LET new == Deleted(ns, gs, n)
         IN  /\ Tables(new.nodes, new.groups) /\ n \notin DOMAIN new.nodes
             /\ \A m \in Nodes \ {n} : SameFor(ns, gs, new, m)
<1> DEFINE rest == DOMAIN ns \ {n}
           new == [m \in rest |-> ns[m]]
           newg == [p \in {ns[m].group : m \in rest} |-> gs[p]]
<1>1. Deleted(ns, gs, n) = [nodes |-> new, groups |-> newg]
  BY DEF Deleted
<1>2. /\ DOMAIN ns \subseteq Nodes /\ ns \in [DOMAIN ns -> NodeRecords]
      /\ DOMAIN gs \subseteq Objects /\ gs \in [DOMAIN gs -> GroupRecords]
      /\ \A m \in DOMAIN ns : ns[m].group \in DOMAIN gs
      /\ \A l, m \in DOMAIN ns : gs[ns[l].group].id = gs[ns[m].group].id => ns[l].group = ns[m].group
  BY DEF Tables
<1>3. DOMAIN new = rest /\ \A m \in rest : new[m] = ns[m] /\ newg[ns[m].group] = gs[ns[m].group]
  OBVIOUS
<1>4. \A m \in rest : ns[m].group \in DOMAIN newg
  OBVIOUS
<1>5. DOMAIN newg \subseteq DOMAIN gs /\ newg \in [DOMAIN newg -> GroupRecords]
  BY <1>2
<1>6. new \in [DOMAIN new -> NodeRecords]
  BY <1>2
<1> HIDE DEF new, newg
<1>7. Tables(new, newg)
  BY <1>2, <1>3, <1>4, <1>5, <1>6 DEF Tables
<1>8. n \notin DOMAIN new
  BY <1>3
<1>9. ASSUME NEW m \in Nodes \ {n} PROVE SameFor(ns, gs, [nodes |-> new, groups |-> newg], m)
  BY <1>3 DEF SameFor, Shows
<1> QED BY <1>1, <1>7, <1>8, <1>9

\* The client shows of a node what an entry says.
Follows(ns, gs, c) ==
  IF c.status = "disconnected" THEN c.node \notin DOMAIN ns
  ELSE Shows(ns, gs, c.node, c.status, c.group)

\* One round of the loop.
LEMMA UpdatedTables ==
  ASSUME NEW ns, NEW gs, Tables(ns, gs), NEW c \in Entries
  PROVE  LET new == Updated(ns, gs, c)
         IN  /\ Tables(new.nodes, new.groups) /\ Follows(new.nodes, new.groups, c)
             /\ \A m \in Nodes \ {c.node} : SameFor(ns, gs, new, m)
<1>1. c.node \in Nodes /\ c.status \in {"available", "busy", "disconnected"} /\ c.group \in AllGroups
  BY DEF Entries
<1>2. CASE c.status = "disconnected"
  <2>1. Updated(ns, gs, c) = Deleted(ns, gs, c.node)
    BY <1>2 DEF Updated
  <2> QED BY <1>1, <1>2, <2>1, DeletedTables DEF Follows
<1>3. CASE c.status # "disconnected"
  <2> DEFINE old == IF c.node \in DOMAIN ns THEN ns[c.node] ELSE NewNode
             node == [old EXCEPT !.status = c.status]
  <2>1. old \in NodeRecords
    <3>1. 1 \in Objects
      BY ClientAssumption, FS_CardinalityType DEF Objects
    <3>2. NewNode \in NodeRecords
      BY <3>1 DEF NewNode, NodeRecords
    <3> QED BY <3>2 DEF Tables
  <2> HIDE DEF old
  <2>2. node \in NodeRecords /\ node.status = c.status
    BY <1>1, <1>3, <2>1 DEF NodeRecords
  <2>3. Updated(ns, gs, c) = Regrouped(ns, gs, c.node, node, c.group)
    BY <1>3 DEF Updated, old
  <2> HIDE DEF node
  <2> QED BY <1>1, <1>3, <2>2, <2>3, RegroupedTables DEF Follows
<1> QED BY <1>2, <1>3
LEMMA LeastNumber ==
  ASSUME NEW T \in SUBSET Nat, T # {} PROVE \E x \in T : \A y \in T : x <= y
<1>1. IsWellFoundedOn(OpToRel(<, Nat), Nat)
  BY NatLessThanWellFounded
<1>2. PICK x \in T : \A y \in T : ~ (<<y, x>> \in OpToRel(<, Nat))
  BY <1>1, WFMin
<1>3. \A y \in T : ~ (y < x)
  BY <1>2 DEF OpToRel
<1> QED BY <1>3

\* The tables after each of the first k rounds.
Rounds(ns, gs, list, k, f) ==
  f = [i \in 0..k |-> IF i = 0 THEN [nodes |-> ns, groups |-> gs]
                      ELSE Updated(f[i - 1].nodes, f[i - 1].groups, list[i])]

LEMMA RoundsExist ==
  ASSUME NEW ns, NEW gs, NEW list, NEW k \in Nat
  PROVE  \E f : Rounds(ns, gs, list, k, f)
<1> DEFINE T == {j \in Nat : ~ \E f : Rounds(ns, gs, list, j, f)}
<1>1. SUFFICES ASSUME T # {} PROVE FALSE
  OBVIOUS
<1>2. PICK x \in T : \A y \in T : x <= y
  <2> HIDE DEF T
  <2>1. T \in SUBSET Nat
    BY DEF T
  <2> QED BY <1>1, <2>1, LeastNumber
<1>3. x # 0
  <2> SUFFICES ASSUME x = 0 PROVE FALSE
    OBVIOUS
  <2> DEFINE f == [i \in 0..0 |-> [nodes |-> ns, groups |-> gs]]
  <2>1. Rounds(ns, gs, list, 0, f)
    BY DEF Rounds
  <2> QED BY <1>2, <2>1
<1>4. x \in Nat /\ x - 1 \in Nat /\ x - 1 \notin T
  BY <1>2, <1>3
<1>5. PICK f : Rounds(ns, gs, list, x - 1, f)
  BY <1>4
<1> DEFINE g == [i \in 0..x |-> IF i = x THEN Updated(f[x - 1].nodes, f[x - 1].groups, list[x]) ELSE f[i]]
           h == [i \in 0..x |-> IF i = 0 THEN [nodes |-> ns, groups |-> gs]
                      ELSE Updated(g[i - 1].nodes, g[i - 1].groups, list[i])]
<1>6. ASSUME NEW i \in 0..x PROVE g[i] = h[i]
  <2>1. CASE i = x
    <3>1. g[i - 1] = f[x - 1] /\ i # 0
      BY <1>3, <1>4, <2>1
    <3> QED BY <2>1, <3>1
  <2>2. CASE i # x /\ i = 0
    <3>1. f[0] = [nodes |-> ns, groups |-> gs]
      BY <1>4, <1>5 DEF Rounds
    <3> QED BY <2>2, <3>1
  <2>3. CASE i # x /\ i # 0
    <3>1. i \in 0..(x - 1) /\ i - 1 \in 0..x /\ i - 1 # x
      BY <1>4, <2>3
    <3>2. f[i] = Updated(f[i - 1].nodes, f[i - 1].groups, list[i])
      BY <1>5, <2>3, <3>1 DEF Rounds
    <3>3. g[i] = f[i] /\ g[i - 1] = f[i - 1]
      BY <2>3, <3>1
    <3> QED BY <2>3, <3>2, <3>3
  <2> QED BY <2>1, <2>2, <2>3
<1>7. g = h
  BY <1>6
<1>8. Rounds(ns, gs, list, x, g)
  BY <1>7 DEF Rounds
<1> QED BY <1>2, <1>8

\* No two entries of a list say different things of a node.
Agreeing(list) == \A i, j \in 1..Len(list) : list[i].node = list[j].node => list[i] = list[j]

\* What the client shows after k rounds.
Shown(ns, gs, list, k, new) ==
  /\ Tables(new.nodes, new.groups)
  /\ \A i \in 1..k : Follows(new.nodes, new.groups, list[i])
  /\ \A m \in Nodes : (\A i \in 1..k : list[i].node # m) => SameFor(ns, gs, new, m)

LEMMA RoundShown ==
  ASSUME NEW ns, NEW gs, NEW list \in Seq(Entries), Agreeing(list), NEW k \in 1..Len(list),
         NEW old, Shown(ns, gs, list, k - 1, old)
  PROVE  Shown(ns, gs, list, k, Updated(old.nodes, old.groups, list[k]))
<1> DEFINE c == list[k]
           new == Updated(old.nodes, old.groups, c)
<1>0. \A i \in 1..Len(list) : list[i] \in Entries
  OBVIOUS
<1>a. \A e \in Entries : e.node \in Nodes
  BY DEF Entries
<1>1. c \in Entries /\ c.node \in Nodes /\ Tables(old.nodes, old.groups)
  BY <1>0, <1>a DEF Shown
<1>2. /\ Tables(new.nodes, new.groups) /\ Follows(new.nodes, new.groups, c)
      /\ \A m \in Nodes \ {c.node} : SameFor(old.nodes, old.groups, new, m)
  BY <1>1, UpdatedTables
<1> HIDE DEF new
<1>3. ASSUME NEW i \in 1..k PROVE Follows(new.nodes, new.groups, list[i])
  <2>1. list[i] \in Entries /\ list[i].node \in Nodes /\ i \in 1..Len(list)
    BY <1>0, <1>a
  <2>2. CASE list[i].node = c.node
    BY <1>2, <2>1, <2>2 DEF Agreeing
  <2>3. CASE list[i].node # c.node
    <3>1. i \in 1..(k - 1)
      BY <2>3
    <3>2. Follows(old.nodes, old.groups, list[i])
      BY <3>1 DEF Shown
    <3>3. SameFor(old.nodes, old.groups, new, list[i].node)
      BY <1>2, <2>1, <2>3
    <3> QED BY <3>2, <3>3 DEF Follows, SameFor, Shows
  <2> QED BY <2>2, <2>3
<1>4. ASSUME NEW m \in Nodes, \A i \in 1..k : list[i].node # m PROVE SameFor(ns, gs, new, m)
  <2>1. \A i \in 1..(k - 1) : list[i].node # m
    BY <1>4
  <2>2. SameFor(ns, gs, old, m)
    BY <2>1 DEF Shown
  <2>3. SameFor(old.nodes, old.groups, new, m)
    BY <1>2, <1>4
  <2> QED BY <2>2, <2>3 DEF SameFor, Shows
<1> QED BY <1>2, <1>3, <1>4 DEF Shown, new

\* _nodes_changed_as_node_list: every entry of the list is followed, other nodes stay.
LEMMA AllUpdatedShown ==
  ASSUME NEW ns, NEW gs, Tables(ns, gs), NEW list \in Seq(Entries), Agreeing(list)
  PROVE  Shown(ns, gs, list, Len(list), AllUpdated(ns, gs, list))
<1> DEFINE f == CHOOSE f : Rounds(ns, gs, list, Len(list), f)
<1>1. Len(list) \in Nat
  OBVIOUS
<1>2. Rounds(ns, gs, list, Len(list), f)
  BY <1>1, RoundsExist
<1>3. AllUpdated(ns, gs, list) = f[Len(list)]
  BY DEF AllUpdated, Rounds
<1> HIDE DEF f
<1>4. f[0] = [nodes |-> ns, groups |-> gs]
  BY <1>1, <1>2 DEF Rounds
<1>5. \A k \in 1..Len(list) : f[k] = Updated(f[k - 1].nodes, f[k - 1].groups, list[k])
  BY <1>1, <1>2 DEF Rounds
<1> DEFINE T == {k \in 0..Len(list) : ~Shown(ns, gs, list, k, f[k])}
<1>6. T = {}
  <2> SUFFICES ASSUME T # {} PROVE FALSE
    OBVIOUS
  <2>1. PICK x \in T : \A y \in T : x <= y
    <3>1. T \in SUBSET Nat
      BY <1>1
    <3> HIDE DEF T
    <3> QED BY <3>1, LeastNumber
  <2>2. x # 0
    <3> SUFFICES ASSUME x = 0 PROVE FALSE
      OBVIOUS
    <3>1. Shown(ns, gs, list, 0, f[0])
      <4>1. Tables(f[0].nodes, f[0].groups)
        BY <1>4
      <4>2. ASSUME NEW m PROVE SameFor(ns, gs, f[0], m)
        BY <1>4 DEF SameFor, Shows
      <4> QED BY <4>1, <4>2 DEF Shown
    <3> QED BY <2>1, <3>1
  <2>3. x \in 1..Len(list) /\ x - 1 \in 0..Len(list) /\ x - 1 \notin T
    BY <1>1, <2>1, <2>2
  <2>4. Shown(ns, gs, list, x - 1, f[x - 1])
    BY <2>3
  <2>5. Shown(ns, gs, list, x, f[x])
    BY <1>5, <2>3, <2>4, RoundShown
  <2> QED BY <2>1, <2>5
<1>7. Len(list) \in 0..Len(list)
  BY <1>1
<1> QED BY <1>3, <1>6, <1>7
-----------------------------------------------------------------------------
(* Types *)

RequestKinds == {"watch", "describe", "device", "server"}

AnswerKinds == {"completed", "error", "description"}

RequestMessages ==
  [kind : RequestKinds \cup {"dropped"}, id : RequestIds, serial : Nat, again : BOOLEAN,
   target : Ids, flags : SUBSET Flags]

Answers == [kind : AnswerKinds, id : RequestIds, serial : Nat, again : BOOLEAN]

Notices == [kind : {"variables", "events"}, target : Ids, value : Nat]

Signals ==
  [kind : {"nodes"}, node : Nodes, conn : Nat, status : {"available", "busy", "disconnected"}]
  \cup Notices

DownMessages == [kind : {"nodes"}, changes : Seq(Entries)] \cup Notices \cup Answers

Promises == [kind : RequestKinds, state : {"pending", "resolved", "rejected"}, redrawn : BOOLEAN]

Absent == [status |-> "absent", group |-> NoGroup]

Registrations == {Absent} \cup [status : {"available", "busy"}, group : Groups]

ClientTypes ==
  /\ socket \in {"open", "closed"} /\ heard \in {"no", "since", "late"}
  /\ promise \in Seq(Promises)
  /\ DOMAIN requests \subseteq RequestIds /\ requests \in [DOMAIN requests -> 1..Len(promise)]
  /\ Tables(nodes, groups)

ServerTypes ==
  /\ registry \in [Nodes -> Registrations] /\ conn \in [Nodes -> Nat] /\ since \in [Nodes -> Nat]
  /\ shared \in [Groups -> [variables : Nat, events : Nat]]
  /\ watch \in [shared : [Ids -> Groups \cup {NoConnection}], own : [Nodes -> Nat]]
  /\ later \in SUBSET RequestMessages /\ changes \in Nat

ChannelTypes ==
  /\ up \in Seq(RequestMessages) /\ down \in Seq(DownMessages) /\ strand \in Seq(Signals)
  /\ \A i \in 1..Len(down) : down[i].kind = "nodes" => Agreeing(down[i].changes)
  /\ Len(strand) + Len(down) <= MaxPosted

Types == ClientTypes /\ ServerTypes /\ ChannelTypes

\* A request is sent under an id that is not pending.
Sent(kind, target, flags, id) ==
  LET s == Len(promise) + 1
  IN  /\ id \in RequestIds \ DOMAIN requests
      /\ up' = IF socket = "closed" THEN up
               ELSE Append(up, [kind |-> kind, id |-> id, serial |-> s, again |-> FALSE,
                                target |-> target, flags |-> flags])
      /\ DOMAIN requests' = DOMAIN requests \cup {id} /\ requests'[id] = s
      /\ \A i \in DOMAIN requests : requests'[i] = requests[i]
      /\ promise' = Append(promise, [kind |-> kind, state |-> "pending", redrawn |-> Redrawn(id)])

LEMMA SendFacts ==
  ASSUME ClientTypes, up \in Seq(RequestMessages), NEW kind \in RequestKinds, NEW target \in Ids,
         NEW flags \in SUBSET Flags, Send(kind, target, flags)
  PROVE  /\ \E id : Sent(kind, target, flags, id)
         /\ promise' \in Seq(Promises) /\ up' \in Seq(RequestMessages)
         /\ DOMAIN requests' \subseteq RequestIds /\ requests' \in [DOMAIN requests' -> 1..Len(promise')]
<1> DEFINE s == Len(promise) + 1
           p(id) == [kind |-> kind, state |-> "pending", redrawn |-> Redrawn(id)]
<1>1. PICK id \in FreshIds :
        /\ up' = IF socket = "closed" THEN up
                 ELSE Append(up, [kind |-> kind, id |-> id, serial |-> s, again |-> FALSE,
                                  target |-> target, flags |-> flags])
        /\ requests' = [i \in DOMAIN requests \cup {id} |-> IF i = id THEN s ELSE requests[i]]
        /\ promise' = Append(promise, p(id))
  BY DEF Send
<1>2. promise \in Seq(Promises) /\ Len(promise) \in Nat /\ s \in Nat
  BY DEF ClientTypes
<1>3. id \in RequestIds \ DOMAIN requests
  BY DEF FreshIds
<1>4. Sent(kind, target, flags, id)
  BY <1>1, <1>3 DEF Sent
<1>5. p(id) \in Promises
  <2>1. Redrawn(id) \in BOOLEAN
    BY DEF Redrawn
  <2> QED BY <2>1 DEF Promises
<1> HIDE DEF p
<1>6. promise' \in Seq(Promises) /\ Len(promise') = s
  BY <1>1, <1>2, <1>5
<1>7. [kind |-> kind, id |-> id, serial |-> s, again |-> FALSE, target |-> target, flags |-> flags] \in RequestMessages
  BY <1>2, <1>3 DEF RequestMessages
<1>8. up' \in Seq(RequestMessages)
  BY <1>1, <1>7
<1>9. DOMAIN requests' \subseteq RequestIds /\ requests' \in [DOMAIN requests' -> 1..Len(promise')]
  <2>1. DOMAIN requests' = DOMAIN requests \cup {id}
    BY <1>1
  <2>2. \A i \in DOMAIN requests : requests[i] \in 1..Len(promise) /\ requests[i] \in 1..s
    BY <1>2 DEF ClientTypes
  <2>3. s \in 1..s
    BY <1>2
  <2>4. \A i \in DOMAIN requests' : requests'[i] \in 1..s
    BY <1>1, <2>1, <2>2, <2>3
  <2> QED BY <1>1, <1>3, <1>6, <2>1, <2>4 DEF ClientTypes
<1> QED BY <1>4, <1>6, <1>8, <1>9

\* An application's call: a request is sent, or nothing is.
Calls ==
  \/ UNCHANGED <<up, requests, promise>>
  \/ \E kind \in RequestKinds, target \in Ids, flags \in SUBSET Flags : Send(kind, target, flags)

LEMMA MonitoringCalls ==
  ASSUME NEW id \in Ids, NEW old, NEW new \in SUBSET Flags, SetMonitoringFlags(id, old, new)
  PROVE  Calls
BY DEF SetMonitoringFlags, Calls, RequestKinds

LEMMA FlaggedFlags ==
  ASSUME NEW flags \in SUBSET Flags, NEW flag \in Flags, NEW on
  PROVE  Flagged(flags, flag, on) \in SUBSET Flags
BY DEF Flagged

\* Flags of a node, and of a group, are set: the tables stay in order.
LEMMA FlagTables ==
  ASSUME Tables(nodes, groups), NEW new \in SUBSET Flags, NEW n \in DOMAIN nodes, NEW on \in BOOLEAN
  PROVE  /\ Tables([nodes EXCEPT ![n].flags = new], groups)
         /\ Tables([nodes EXCEPT ![n].flags = new, ![n].callback = on], groups)
         /\ \A o \in DOMAIN groups : Tables(nodes, [groups EXCEPT ![o].flags = new])
<1>1. /\ DOMAIN nodes \subseteq Nodes /\ nodes \in [DOMAIN nodes -> NodeRecords]
      /\ DOMAIN groups \subseteq Objects /\ groups \in [DOMAIN groups -> GroupRecords]
      /\ \A m \in DOMAIN nodes : nodes[m].group \in DOMAIN groups
      /\ \A l, m \in DOMAIN nodes :
           groups[nodes[l].group].id = groups[nodes[m].group].id => nodes[l].group = nodes[m].group
  BY DEF Tables
<1>2. ASSUME NEW r \in NodeRecords, r.group = nodes[n].group PROVE Tables([nodes EXCEPT ![n] = r], groups)
  <2> DEFINE ns == [nodes EXCEPT ![n] = r]
  <2>1. DOMAIN ns = DOMAIN nodes /\ ns \in [DOMAIN ns -> NodeRecords]
    BY <1>1
  <2>2. \A m \in DOMAIN nodes : ns[m].group = nodes[m].group
    BY <1>2
  <2> HIDE DEF ns
  <2> QED BY <1>1, <2>1, <2>2 DEF Tables, ns
<1>3. /\ [nodes[n] EXCEPT !.flags = new] \in NodeRecords
      /\ [nodes[n] EXCEPT !.flags = new].group = nodes[n].group
      /\ [nodes[n] EXCEPT !.flags = new, !.callback = on] \in NodeRecords
      /\ [nodes[n] EXCEPT !.flags = new, !.callback = on].group = nodes[n].group
  <2>1. nodes[n] \in NodeRecords
    BY <1>1
  <2> QED BY <2>1 DEF NodeRecords
<1>4. ASSUME NEW o \in DOMAIN groups PROVE Tables(nodes, [groups EXCEPT ![o].flags = new])
  <2> DEFINE r == [groups[o] EXCEPT !.flags = new]
             gs == [groups EXCEPT ![o].flags = new]
  <2>1. groups[o] \in GroupRecords
    BY <1>1
  <2>2. r \in GroupRecords /\ r.id = groups[o].id
    BY <2>1 DEF GroupRecords
  <2>3. gs = [groups EXCEPT ![o] = r]
    OBVIOUS
  <2> HIDE DEF r, gs
  <2>4. DOMAIN gs = DOMAIN groups /\ gs \in [DOMAIN gs -> GroupRecords]
    BY <1>1, <2>2, <2>3
  <2>5. \A p \in DOMAIN groups : gs[p].id = groups[p].id
    BY <1>1, <2>2, <2>3
  <2> QED BY <1>1, <2>4, <2>5 DEF Tables, gs
<1>5. /\ [nodes EXCEPT ![n].flags = new] = [nodes EXCEPT ![n] = [nodes[n] EXCEPT !.flags = new]]
      /\ [nodes EXCEPT ![n].flags = new, ![n].callback = on]
         = [nodes EXCEPT ![n] = [nodes[n] EXCEPT !.flags = new, !.callback = on]]
  BY <1>1
<1> QED BY <1>2, <1>3, <1>4, <1>5
\* What a call of the application does.
LEMMA ApplicationFacts ==
  ASSUME Types, Application
  PROVE  /\ Calls /\ Tables(nodes', groups') /\ heard' \in {"no", "since", "late"} /\ changes' \in Nat
         /\ UNCHANGED <<socket, down, strand, registry, conn, since, shared, watch, later>>
         /\ DOMAIN nodes' = DOMAIN nodes
         /\ \A n \in DOMAIN nodes : /\ nodes'[n].status = nodes[n].status
                                    /\ groups'[nodes'[n].group].id = groups[nodes[n].group].id
         /\ heard' # heard => heard' = "late"
<1>1. /\ Tables(nodes, groups) /\ DOMAIN nodes \subseteq Nodes /\ nodes \in [DOMAIN nodes -> NodeRecords]
      /\ groups \in [DOMAIN groups -> GroupRecords] /\ \A n \in DOMAIN nodes : nodes[n].group \in DOMAIN groups
  BY DEF Types, ClientTypes, Tables
<1>2. CASE ListenToNodes
  BY <1>1, <1>2 DEF ListenToNodes, Calls, Types, ClientTypes, ServerTypes
<1>3. ASSUME NEW n \in Nodes, NEW kind \in RequestKinds, Ask(n, kind)
      PROVE  /\ Calls /\ UNCHANGED <<socket, heard, nodes, groups, down, strand, serverVars>>
  BY <1>3 DEF Ask, Calls, Ids
<1>4. CASE \E n \in Nodes : AskDescription(n) \/ AskDevice(n) \/ AskServer(n)
  <2>1. Calls /\ UNCHANGED <<socket, heard, nodes, groups, down, strand, serverVars>>
    BY <1>3, <1>4 DEF AskDescription, AskDevice, AskServer, RequestKinds
  <2> QED BY <1>1, <2>1 DEF Types, ClientTypes, ServerTypes, serverVars
<1>5. ASSUME NEW n \in Nodes, NEW on \in BOOLEAN, SetOnVariablesChanged(n, on) \/ WatchNode(n, on)
      PROVE  /\ Calls /\ Tables(nodes', groups') /\ UNCHANGED <<socket, heard, down, strand, serverVars, groups>>
             /\ DOMAIN nodes' = DOMAIN nodes
             /\ \A m \in DOMAIN nodes : nodes'[m].status = nodes[m].status /\ nodes'[m].group = nodes[m].group
  <2>1. n \in DOMAIN nodes /\ nodes[n] \in NodeRecords /\ nodes[n].flags \in SUBSET Flags /\ n \in Ids
    BY <1>1, <1>5 DEF SetOnVariablesChanged, WatchNode, NodeRecords, Ids
  <2>2. PICK flag \in Flags :
          LET new == Flagged(nodes[n].flags, flag, on)
          IN  /\ SetMonitoringFlags(n, nodes[n].flags, new)
              /\ nodes' \in {[nodes EXCEPT ![n].flags = new, ![n].callback = on],
                             [nodes EXCEPT ![n].flags = new]}
    BY <1>5 DEF SetOnVariablesChanged, WatchNode, Flags
  <2> DEFINE new == Flagged(nodes[n].flags, flag, on)
  <2>3. new \in SUBSET Flags
    BY <2>1, FlaggedFlags
  <2>4. UNCHANGED <<socket, heard, groups, down, strand, serverVars>>
    BY <1>5 DEF SetOnVariablesChanged, WatchNode
  <2>5. nodes' \in {[nodes EXCEPT ![n].flags = new, ![n].callback = on], [nodes EXCEPT ![n].flags = new]}
    BY <2>2
  <2>6. Calls
    BY <2>1, <2>2, <2>3, MonitoringCalls
  <2> HIDE DEF new
  <2>7. Tables(nodes', groups')
    <3>1. /\ Tables([nodes EXCEPT ![n].flags = new], groups)
          /\ Tables([nodes EXCEPT ![n].flags = new, ![n].callback = on], groups)
      BY <1>1, <2>1, <2>3, FlagTables
    <3>2. groups' = groups
      BY <2>4
    <3> QED BY <2>5, <3>1, <3>2
  <2>8. /\ DOMAIN nodes' = DOMAIN nodes
        /\ \A m \in DOMAIN nodes : nodes'[m].status = nodes[m].status /\ nodes'[m].group = nodes[m].group
    <3>1. \A m \in DOMAIN nodes : m # n => nodes'[m] = nodes[m]
      BY <2>5
    <3>2. nodes'[n].status = nodes[n].status /\ nodes'[n].group = nodes[n].group
      BY <2>1, <2>5 DEF NodeRecords
    <3> QED BY <2>5, <3>1, <3>2
  <2> QED BY <2>4, <2>6, <2>7, <2>8
<1>6. ASSUME NEW n \in Nodes, NEW on \in BOOLEAN, WatchGroup(n, on)
      PROVE  /\ Calls /\ Tables(nodes', groups') /\ UNCHANGED <<socket, heard, down, strand, serverVars, nodes>>
             /\ \A m \in DOMAIN nodes : groups'[nodes[m].group].id = groups[nodes[m].group].id
  <2> DEFINE g == nodes[n].group
             new == Flagged(groups[g].flags, "shared", on)
  <2>1. /\ n \in DOMAIN nodes /\ groups[g].id # NoGroup /\ SetMonitoringFlags(groups[g].id, groups[g].flags, new)
        /\ groups' = [groups EXCEPT ![g].flags = new]
        /\ UNCHANGED <<socket, heard, nodes, down, strand, serverVars>>
    BY <1>6 DEF WatchGroup
  <2>2. g \in DOMAIN groups /\ groups[g] \in GroupRecords
    BY <1>1, <2>1
  <2> HIDE DEF g
  <2>3. groups[g].id \in Ids /\ groups[g].flags \in SUBSET Flags
    BY <2>1, <2>2 DEF GroupRecords, AllGroups, Ids
  <2>4. new \in SUBSET Flags
    BY <2>3, FlaggedFlags DEF Flags
  <2>5. Calls
    BY <2>1, <2>3, <2>4, MonitoringCalls
  <2> HIDE DEF new
  <2>6. Tables(nodes', groups')
    <3>1. Tables(nodes, [groups EXCEPT ![g].flags = new])
      BY <1>1, <2>1, <2>2, <2>4, FlagTables
    <3>2. nodes' = nodes /\ groups' = [groups EXCEPT ![g].flags = new]
      BY <2>1
    <3> QED BY <3>1, <3>2
  <2>7. \A p \in DOMAIN groups : groups'[p].id = groups[p].id
    BY <1>1, <2>1, <2>2 DEF GroupRecords
  <2> QED BY <1>1, <2>1, <2>5, <2>6, <2>7
<1>7. ASSUME NEW n \in Nodes, NEW on \in BOOLEAN,
             SetOnVariablesChanged(n, on) \/ WatchNode(n, on) \/ WatchGroup(n, on)
      PROVE  /\ Calls /\ Tables(nodes', groups') /\ UNCHANGED <<socket, heard, down, strand, serverVars>>
             /\ DOMAIN nodes' = DOMAIN nodes
             /\ \A m \in DOMAIN nodes : /\ nodes'[m].status = nodes[m].status
                                        /\ groups'[nodes'[m].group].id = groups[nodes[m].group].id
  BY <1>5, <1>6, <1>7
<1>8. CASE \E n \in Nodes : \E on \in BOOLEAN :
             SetOnVariablesChanged(n, on) \/ WatchNode(n, on) \/ WatchGroup(n, on)
  BY <1>7, <1>8 DEF Types, ClientTypes, ServerTypes, serverVars
<1> QED BY <1>2, <1>4, <1>8 DEF Application

LEMMA CallTypes ==
  ASSUME Types, Calls
  PROVE  /\ promise' \in Seq(Promises) /\ up' \in Seq(RequestMessages)
         /\ DOMAIN requests' \subseteq RequestIds /\ requests' \in [DOMAIN requests' -> 1..Len(promise')]
<1>1. CASE UNCHANGED <<up, requests, promise>>
  BY <1>1 DEF Types, ClientTypes, ChannelTypes
<1>2. CASE ~UNCHANGED <<up, requests, promise>>
  <2>1. PICK kind \in RequestKinds, target \in Ids, flags \in SUBSET Flags : Send(kind, target, flags)
    BY <1>2 DEF Calls
  <2> QED BY <2>1, SendFacts DEF Types, ChannelTypes
<1> QED BY <1>1, <1>2

LEMMA ApplicationTypes ==
  ASSUME Types, Application PROVE Types'
BY ApplicationFacts, CallTypes DEF Types, ClientTypes, ServerTypes, ChannelTypes
\* The first message is taken.
LEMMA ReceiveFacts ==
  ASSUME Types, NEW kinds, Receive(kinds)
  PROVE  /\ socket = "open" /\ down # <<>> /\ down' = Tail(down) /\ Head(down).kind \in kinds
         /\ Head(down) \in DownMessages /\ Head(down) = down[1] /\ down' \in Seq(DownMessages)
         /\ Len(down) \in Nat /\ 1 \in 1..Len(down) /\ Len(down') = Len(down) - 1
         /\ \A i \in 1..Len(down') : i + 1 \in 1..Len(down) /\ i + 1 # 1 /\ down'[i] = down[i + 1]
         /\ strand' = strand /\ up' \in Seq(RequestMessages) => ChannelTypes'
<1>1. /\ down \in Seq(DownMessages) /\ socket = "open" /\ down # <<>> /\ down' = Tail(down)
      /\ Head(down).kind \in kinds
  BY DEF Types, ChannelTypes, Receive
<1>2. Head(down) \in DownMessages /\ Tail(down) \in Seq(DownMessages) /\ Head(down) = down[1]
  BY <1>1
<1>3. /\ Len(down) \in Nat /\ 1 \in 1..Len(down) /\ Len(Tail(down)) = Len(down) - 1
      /\ \A i \in 1..Len(Tail(down)) : i + 1 \in 1..Len(down) /\ i + 1 # 1 /\ Tail(down)[i] = down[i + 1]
  BY <1>1
<1>4. ASSUME strand' = strand, up' \in Seq(RequestMessages) PROVE ChannelTypes'
  <2>1. \A i \in 1..Len(down') : down'[i].kind = "nodes" => Agreeing(down'[i].changes)
    BY <1>1, <1>3 DEF Types, ChannelTypes
  <2>2. Len(strand') + Len(down') <= MaxPosted
    BY <1>1, <1>3, <1>4, ClientAssumption DEF Types, ChannelTypes
  <2> QED BY <1>1, <1>2, <1>4, <2>1, <2>2 DEF Types, ChannelTypes
<1> QED BY <1>1, <1>2, <1>3, <1>4

\* _nodes_changed_as_node_list: every entry is followed and other nodes stay, if the client listens.
LEMMA NodesChangedFacts ==
  ASSUME Types, OnNodesChanged
  PROVE  LET list == Head(down).changes
         IN  /\ Head(down).kind = "nodes" /\ list \in Seq(Entries) /\ Agreeing(list)
             /\ Tables(nodes', groups')
             /\ heard # "no" =>
                  Shown(nodes, groups, list, Len(list), [nodes |-> nodes', groups |-> groups'])
<1> DEFINE list == Head(down).changes
           new == AllUpdated(nodes, groups, list)
<1>1. /\ Head(down) \in DownMessages /\ Head(down).kind = "nodes" /\ Head(down) = down[1]
      /\ 1 \in 1..Len(down)
  BY ReceiveFacts DEF OnNodesChanged
<1>2. list \in Seq(Entries)
  BY <1>1 DEF DownMessages, Notices, Answers, AnswerKinds
<1>3. Agreeing(list)
  BY <1>1 DEF Types, ChannelTypes
<1>4. CASE heard = "no"
  <2>1. nodes' = nodes /\ groups' = groups
    BY <1>4 DEF OnNodesChanged
  <2> QED BY <1>1, <1>2, <1>3, <1>4, <2>1 DEF Types, ClientTypes
<1>5. CASE heard # "no"
  <2>1. nodes' = new.nodes /\ groups' = new.groups
    BY <1>5 DEF OnNodesChanged
  <2>2. Tables(nodes, groups)
    BY DEF Types, ClientTypes
  <2> HIDE DEF list
  <2>3. Shown(nodes, groups, list, Len(list), new)
    BY <1>2, <1>3, <2>2, AllUpdatedShown
  <2> HIDE DEF new
  <2>4. Shown(nodes, groups, list, Len(list), [nodes |-> nodes', groups |-> groups'])
    BY <2>1, <2>3 DEF Shown, SameFor
  <2> QED BY <1>1, <1>2, <1>3, <1>5, <2>4 DEF Shown, list
<1> QED BY <1>4, <1>5

LEMMA NodesChangedTypes ==
  ASSUME Types, OnNodesChanged PROVE Types'
<1>1. UNCHANGED <<socket, heard, requests, promise, up, strand, serverVars>> /\ Receive({"nodes"})
  BY DEF OnNodesChanged
<1>2. ChannelTypes'
  BY <1>1, ReceiveFacts DEF Types, ChannelTypes
<1>3. Tables(nodes', groups')
  BY NodesChangedFacts
<1> QED BY <1>1, <1>2, <1>3 DEF Types, ClientTypes, ServerTypes, serverVars

\* An answer settles the promise its id stands for.
LEMMA AnswerFacts ==
  ASSUME Types, OnAnswer
  PROVE  LET m == Head(down)
             outcome == [completed |-> "resolved", error |-> "rejected", description |-> "pending"]
         IN  /\ m \in Answers
             /\ promise' \in Seq(Promises) /\ Len(promise') = Len(promise)
             /\ DOMAIN requests' = DOMAIN requests \ {m.id}
             /\ \A i \in DOMAIN requests' : requests'[i] = requests[i]
             /\ DOMAIN requests' \subseteq RequestIds /\ requests' \in [DOMAIN requests' -> 1..Len(promise')]
             /\ \A s \in 1..Len(promise) :
                  /\ promise'[s].kind = promise[s].kind /\ promise'[s].redrawn = promise[s].redrawn
                  /\ ~ (m.id \in DOMAIN requests /\ s = requests[m.id]) => promise'[s] = promise[s]
                  /\ m.id \in DOMAIN requests /\ s = requests[m.id] => promise'[s].state = outcome[m.kind]
<1> DEFINE m == Head(down)
           outcome == [completed |-> "resolved", error |-> "rejected", description |-> "pending"]
<1>1. m \in DownMessages /\ m.kind \in AnswerKinds
  BY ReceiveFacts DEF OnAnswer, AnswerKinds
<1>2. m \in Answers
  BY <1>1 DEF DownMessages, Notices, AnswerKinds
<1>3. /\ promise \in Seq(Promises) /\ Len(promise) \in Nat /\ DOMAIN requests \subseteq RequestIds
      /\ requests \in [DOMAIN requests -> 1..Len(promise)]
  BY DEF Types, ClientTypes
<1>4. CASE m.id \in DOMAIN requests
  <2>1. /\ requests' = [i \in DOMAIN requests \ {m.id} |-> requests[i]]
        /\ promise' = [promise EXCEPT ![requests[m.id]].state = outcome[m.kind]]
    BY <1>4 DEF OnAnswer
  <2> DEFINE k == requests[m.id]
             o == outcome[m.kind]
             p == [promise[k] EXCEPT !.state = o]
  <2>2. o \in {"pending", "resolved", "rejected"}
    BY <1>1 DEF AnswerKinds
  <2>3. k \in 1..Len(promise) /\ promise[k] \in Promises
    BY <1>3, <1>4
  <2>4. promise' = [promise EXCEPT ![k] = p]
    BY <1>3, <2>1
  <2> HIDE DEF k, o
  <2>5. p \in Promises /\ p.state = o /\ p.kind = promise[k].kind /\ p.redrawn = promise[k].redrawn
    BY <2>2, <2>3 DEF Promises
  <2> HIDE DEF p
  <2>6. promise' \in Seq(Promises) /\ Len(promise') = Len(promise)
    BY <1>3, <2>3, <2>4, <2>5
  <2>7. /\ promise'[k] = p
        /\ \A s \in 1..Len(promise) : s # k => promise'[s] = promise[s]
    BY <1>3, <2>3, <2>4
  <2>8. /\ DOMAIN requests' = DOMAIN requests \ {m.id}
        /\ \A i \in DOMAIN requests' : requests'[i] = requests[i]
        /\ requests' \in [DOMAIN requests' -> 1..Len(promise)]
    BY <1>3, <2>1
  <2>9. DOMAIN requests' \subseteq RequestIds /\ requests' \in [DOMAIN requests' -> 1..Len(promise')]
    BY <1>3, <2>6, <2>8
  <2>10. \A s \in 1..Len(promise) :
           /\ promise'[s].kind = promise[s].kind /\ promise'[s].redrawn = promise[s].redrawn
           /\ s # k => promise'[s] = promise[s]
           /\ s = k => promise'[s].state = o
    BY <2>5, <2>7
  <2> QED BY <1>2, <1>4, <2>6, <2>8, <2>9, <2>10 DEF k, o
<1>5. CASE m.id \notin DOMAIN requests
  <2>1. requests' = requests /\ promise' = promise
    BY <1>5 DEF OnAnswer
  <2> QED BY <1>2, <1>3, <1>5, <2>1
<1> QED BY <1>4, <1>5

LEMMA AnswerTypes ==
  ASSUME Types, OnAnswer PROVE Types'
<1>1. /\ UNCHANGED <<socket, heard, nodes, groups, up, strand, serverVars>>
      /\ Receive({"completed", "error", "description"})
  BY DEF OnAnswer
<1>2. ChannelTypes'
  BY <1>1, ReceiveFacts DEF Types, ChannelTypes
<1> QED BY <1>1, <1>2, AnswerFacts DEF Types, ClientTypes, ServerTypes, serverVars

\* Values are stored: no Group object changes its id.
LEMMA StoredTables ==
  ASSUME Types, NEW gs, DOMAIN gs = DOMAIN groups, gs \in [DOMAIN gs -> GroupRecords],
         \A o \in DOMAIN groups : gs[o].id = groups[o].id
  PROVE  Tables(nodes, gs)
BY DEF Types, ClientTypes, Tables

LEMMA ValueFacts ==
  ASSUME Types, OnVariablesChanged \/ OnEventsDescriptionsChanged
  PROVE  /\ Tables(nodes, groups') /\ DOMAIN groups' = DOMAIN groups
         /\ \A o \in DOMAIN groups : groups'[o].id = groups[o].id
<1> DEFINE v == Head(down).value
<1>1. v \in Nat
  <2>1. Head(down) \in DownMessages /\ Head(down).kind \in {"variables", "events"}
    BY ReceiveFacts DEF OnVariablesChanged, OnEventsDescriptionsChanged
  <2>2. Head(down) \in Notices
    BY <2>1 DEF DownMessages, Answers, AnswerKinds
  <2> QED BY <2>2 DEF Notices
<1> HIDE DEF v
<1>2. groups \in [DOMAIN groups -> GroupRecords]
  BY DEF Types, ClientTypes, Tables
<1>3. PICK S :
        \/ groups' = [o \in DOMAIN groups |-> IF o \in S THEN [groups[o] EXCEPT !.variables = v] ELSE groups[o]]
        \/ groups' = [o \in DOMAIN groups |-> IF o \in S THEN [groups[o] EXCEPT !.events = v] ELSE groups[o]]
  <2>1. CASE OnVariablesChanged
    BY <2>1 DEF OnVariablesChanged, v
  <2>2. CASE OnEventsDescriptionsChanged
    BY <2>2 DEF OnEventsDescriptionsChanged, v
  <2> QED BY <2>1, <2>2
<1>4. ASSUME NEW r \in GroupRecords
      PROVE  /\ [r EXCEPT !.variables = v] \in GroupRecords /\ [r EXCEPT !.variables = v].id = r.id
             /\ [r EXCEPT !.events = v] \in GroupRecords /\ [r EXCEPT !.events = v].id = r.id
  BY <1>1 DEF GroupRecords
<1>5. DOMAIN groups' = DOMAIN groups
  BY <1>3
<1>6. ASSUME NEW o \in DOMAIN groups PROVE groups'[o] \in GroupRecords /\ groups'[o].id = groups[o].id
  <2>1. groups[o] \in GroupRecords
    BY <1>2
  <2>2. groups'[o] \in {groups[o], [groups[o] EXCEPT !.variables = v], [groups[o] EXCEPT !.events = v]}
    BY <1>3
  <2> QED BY <1>4, <2>1, <2>2
<1>7. groups' \in [DOMAIN groups' -> GroupRecords]
  BY <1>3, <1>5, <1>6
<1>8. Tables(nodes, groups')
  BY <1>5, <1>6, <1>7, StoredTables
<1> QED BY <1>5, <1>6, <1>8

LEMMA ValueTypes ==
  ASSUME Types, OnVariablesChanged \/ OnEventsDescriptionsChanged PROVE Types'
<1>1. PICK kinds : Receive(kinds)
  BY DEF OnVariablesChanged, OnEventsDescriptionsChanged
<1>2. UNCHANGED <<socket, heard, requests, promise, nodes, up, strand, serverVars>>
  BY DEF OnVariablesChanged, OnEventsDescriptionsChanged
<1>3. ChannelTypes'
  BY <1>1, <1>2, ReceiveFacts DEF Types, ChannelTypes
<1> QED BY <1>2, <1>3, ValueFacts DEF Types, ClientTypes, ServerTypes, serverVars
\* _onclose empties what is on its way.
LEMMA CloseTypes ==
  ASSUME Types, OnClose PROVE Types'
<1>1. /\ up' = <<>> /\ down' = <<>> /\ strand' = <<>> /\ later' = {} /\ socket' = "closed"
      /\ watch' = NotWatching
      /\ UNCHANGED <<heard, requests, promise, nodes, groups, registry, conn, since, shared, changes>>
  BY DEF OnClose
<1>2. ChannelTypes'
  <2>1. up' \in Seq(RequestMessages) /\ down' \in Seq(DownMessages) /\ strand' \in Seq(Signals)
    BY <1>1
  <2>2. Len(down') = 0 /\ Len(strand') = 0
    BY <1>1
  <2> QED BY <2>1, <2>2, ClientAssumption DEF ChannelTypes
<1>3. NotWatching \in [shared : [Ids -> Groups \cup {NoConnection}], own : [Nodes -> Nat]]
  BY DEF NotWatching
<1> QED BY <1>1, <1>2, <1>3 DEF Types, ClientTypes, ServerTypes

\* The messages of the session: some are added, none is lost.
LEMMA DownGrows ==
  ASSUME Types, NEW more \in Seq(DownMessages), down' = down \o more,
         \A i \in 1..Len(more) : more[i].kind = "nodes" => Agreeing(more[i].changes),
         up' \in Seq(RequestMessages), strand' \in Seq(Signals), Len(strand') + Len(down') <= MaxPosted
  PROVE  ChannelTypes'
<1>1. down \in Seq(DownMessages) /\ Len(down) \in Nat /\ Len(more) \in Nat
  BY DEF Types, ChannelTypes
<1>2. /\ down' \in Seq(DownMessages)
      /\ \A i \in 1..Len(down') : (i \in 1..Len(down) /\ down'[i] = down[i])
                                  \/ (i - Len(down) \in 1..Len(more) /\ down'[i] = more[i - Len(down)])
  BY <1>1
<1>3. \A i \in 1..Len(down') : down'[i].kind = "nodes" => Agreeing(down'[i].changes)
  BY <1>2 DEF Types, ChannelTypes
<1> QED BY <1>2, <1>3 DEF ChannelTypes

LEMMA HandleFacts ==
  ASSUME Types, NEW kind, Handle(kind)
  PROVE  /\ up # <<>> /\ Head(up) \in RequestMessages /\ Head(up) = up[1] /\ Head(up).kind = kind
         /\ up' = Tail(up) /\ up' \in Seq(RequestMessages) /\ Len(up) \in Nat /\ 1 \in 1..Len(up)
         /\ Len(up') = Len(up) - 1
         /\ \A i \in 1..Len(up') : i + 1 \in 1..Len(up) /\ i + 1 # 1 /\ up'[i] = up[i + 1]
<1>1. up \in Seq(RequestMessages) /\ up # <<>> /\ up' = Tail(up) /\ Head(up).kind = kind
  BY DEF Types, ChannelTypes, Handle
<1>2. Head(up) \in RequestMessages /\ Tail(up) \in Seq(RequestMessages)
  BY <1>1
<1> QED BY <1>1, <1>2

LEMMA AnswerMessage ==
  ASSUME NEW kind \in AnswerKinds, NEW r \in RequestMessages
  PROVE  /\ Answer(kind, r) \in Answers /\ Answer(kind, r) \in DownMessages
         /\ Answer(kind, r).kind = kind /\ Answer(kind, r).id = r.id /\ Answer(kind, r).serial = r.serial
         /\ Answer(kind, r).again = r.again
         /\ <<Answer(kind, r)>> \in Seq(DownMessages)
<1>1. Answer(kind, r) \in Answers
  BY DEF Answer, Answers, RequestMessages
<1>2. Answer(kind, r) \in DownMessages
  BY <1>1 DEF DownMessages
<1> QED BY <1>1, <1>2 DEF Answer

\* One answer more for the client.
Replies(r) == \E kind \in AnswerKinds : down' = Append(down, Answer(kind, r))

LEMMA ReplyTypes ==
  ASSUME Types, NEW r \in RequestMessages, Replies(r), NEW k \in Nat, Room(1 + k),
         up' \in Seq(RequestMessages), strand' \in Seq(Signals), Len(strand') <= Len(strand) + k
  PROVE  ChannelTypes'
<1>1. PICK kind \in AnswerKinds : down' = Append(down, Answer(kind, r))
  BY DEF Replies
<1> DEFINE more == <<Answer(kind, r)>>
<1>2. more \in Seq(DownMessages) /\ Len(more) = 1 /\ more[1].kind # "nodes"
  BY AnswerMessage DEF AnswerKinds
<1>3. down \in Seq(DownMessages) /\ strand \in Seq(Signals)
  BY DEF Types, ChannelTypes
<1>4. down' = down \o more
  <2>1. Answer(kind, r) \in DownMessages
    BY AnswerMessage
  <2> QED BY <1>1, <1>3, <2>1
<1> HIDE DEF more
<1>5. Len(down') = Len(down) + 1
  <2>1. Answer(kind, r) \in DownMessages
    BY AnswerMessage
  <2> QED BY <1>1, <1>3, <2>1
<1>6. Len(strand') + Len(down') <= MaxPosted
  BY <1>3, <1>5, ClientAssumption DEF Room
<1>7. \A i \in 1..Len(more) : more[i].kind = "nodes" => Agreeing(more[i].changes)
  BY <1>2
<1> QED BY <1>2, <1>4, <1>6, <1>7, DownGrows

LEMMA ServerGroupFacts ==
  ASSUME Types, NEW id, NEW g \in ServerGroup(id) PROVE g \in Groups
BY DEF Types, ServerTypes, ServerGroup, Registered, Registrations, Absent

LEMMA ValuesSignals ==
  ASSUME Types, NEW g \in Groups
  PROVE  /\ SharedVariables(g) \in Notices /\ EventsTable(g) \in Notices
         /\ [SharedVariables(g) EXCEPT !.value = @ + 1] \in Notices
         /\ [EventsTable(g) EXCEPT !.value = @ + 1] \in Notices
<1>1. shared[g].variables \in Nat /\ shared[g].events \in Nat /\ g \in Ids
  BY DEF Types, ServerTypes, Ids
<1> QED BY <1>1 DEF SharedVariables, EventsTable, Notices

LEMMA FirstValuesSignals ==
  ASSUME Types, NEW id \in Ids, NEW flags
  PROVE  FirstValues(id, flags) \in Seq(Notices) /\ Len(FirstValues(id, flags)) <= 3
<1> DEFINE g == CHOOSE g \in ServerGroup(id) : TRUE
           one == IF "shared" \in flags /\ ServerGroup(id) # {} /\ watch.shared[id] = NoConnection
                  THEN <<SharedVariables(g), EventsTable(g)>> ELSE <<>>
           two == IF "variables" \in flags /\ id \in Registered /\ watch.own[id] = 0
                  THEN <<[kind |-> "variables", target |-> id, value |-> Own]>> ELSE <<>>
<1>1. FirstValues(id, flags) = one \o two
  BY DEF FirstValues
<1>2. ServerGroup(id) # {} => SharedVariables(g) \in Notices /\ EventsTable(g) \in Notices
  <2>1. ServerGroup(id) # {} => g \in Groups
    BY ServerGroupFacts
  <2> QED BY <2>1, ValuesSignals
<1> HIDE DEF g
<1>3. [kind |-> "variables", target |-> id, value |-> Own] \in Notices
  BY DEF Notices, Own
<1>4. one \in Seq(Notices) /\ Len(one) <= 2
  BY <1>2
<1>5. two \in Seq(Notices) /\ Len(two) <= 1
  BY <1>3
<1> HIDE DEF one, two
<1>6. one \o two \in Seq(Notices) /\ Len(one \o two) = Len(one) + Len(two)
  BY <1>4, <1>5
<1>7. Len(one) \in Nat /\ Len(two) \in Nat
  BY <1>4, <1>5
<1> QED BY <1>1, <1>4, <1>5, <1>6, <1>7

LEMMA NoticesAdded ==
  ASSUME NEW s \in Seq(Signals), NEW more \in Seq(Notices)
  PROVE  s \o more \in Seq(Signals) /\ Len(s \o more) = Len(s) + Len(more)
<1>1. more \in Seq(Signals)
  BY DEF Signals
<1> QED BY <1>1

LEMMA WatchTypes ==
  ASSUME Types, WatchNodeOrGroup PROVE Types' /\ Replies(Head(up))
<1> DEFINE r == Head(up)
<1>1. Handle("watch") /\ UNCHANGED <<clientVars, registry, conn, since, shared, later, changes>>
  BY DEF WatchNodeOrGroup
<1>2. r \in RequestMessages /\ up' \in Seq(RequestMessages) /\ r.target \in Ids
  BY <1>1, HandleFacts DEF RequestMessages
<1>3. strand \in Seq(Signals) /\ down \in Seq(DownMessages)
  BY DEF Types, ChannelTypes
<1>4. CASE ServerGroup(r.target) = {}
  <2>1. Room(1) /\ down' = down \o <<Answer("error", r)>> /\ UNCHANGED <<watch, strand>>
    BY <1>4 DEF WatchNodeOrGroup, Refused
  <2>2. Answer("error", r) \in DownMessages
    BY <1>2, AnswerMessage DEF AnswerKinds
  <2>3. down' = Append(down, Answer("error", r))
    <3> HIDE DEF r
    <3> QED BY <1>3, <2>1, <2>2
  <2>4. Replies(r)
    BY <2>3 DEF Replies, AnswerKinds
  <2>5. Len(strand') <= Len(strand) + 0 /\ Room(1 + 0) /\ 0 \in Nat
    BY <1>3, <2>1
  <2>6. ChannelTypes'
    BY <1>2, <1>3, <2>1, <2>4, <2>5, ReplyTypes
  <2> QED BY <1>1, <2>1, <2>4, <2>6 DEF Types, ClientTypes, ServerTypes, clientVars
<1>5. CASE ServerGroup(r.target) # {}
  <2>1. /\ Room(4) /\ down' = Append(down, Answer("completed", r))
        /\ strand' = strand \o FirstValues(r.target, r.flags)
        /\ watch' = [shared |-> [watch.shared EXCEPT ![r.target] = SharedWatch(r.target, r.flags)],
                     own |-> IF r.target \in Nodes
                             THEN [watch.own EXCEPT ![r.target] = OwnWatch(r.target, r.flags)]
                             ELSE watch.own]
    BY <1>5 DEF WatchNodeOrGroup
  <2>2. Replies(r)
    BY <2>1 DEF Replies, AnswerKinds
  <2>3. strand' \in Seq(Signals) /\ Len(strand') <= Len(strand) + 3
    <3> DEFINE more == FirstValues(r.target, r.flags)
    <3>1. more \in Seq(Notices) /\ Len(more) <= 3
      BY <1>2, FirstValuesSignals
    <3>2. strand' = strand \o more
      BY <2>1
    <3> HIDE DEF more
    <3>3. strand' \in Seq(Signals) /\ Len(strand') = Len(strand) + Len(more)
      BY <1>3, <3>1, <3>2, NoticesAdded
    <3> QED BY <1>3, <3>1, <3>3
  <2>4. Room(1 + 3) /\ 3 \in Nat
    BY <2>1
  <2>5. ChannelTypes'
    BY <1>2, <2>2, <2>3, <2>4, ReplyTypes
  <2>6. /\ watch.shared \in [Ids -> Groups \cup {NoConnection}] /\ watch.own \in [Nodes -> Nat]
        /\ conn \in [Nodes -> Nat]
    BY DEF Types, ServerTypes
  <2> HIDE DEF r
  <2>7. SharedWatch(r.target, r.flags) \in Groups \cup {NoConnection}
    <3>1. (CHOOSE g \in ServerGroup(r.target) : TRUE) \in Groups
      BY <1>5, ServerGroupFacts
    <3> QED BY <1>2, <2>6, <3>1 DEF SharedWatch
  <2>8. r.target \in Nodes => OwnWatch(r.target, r.flags) \in Nat
    BY <2>6 DEF OwnWatch
  <2>9. watch' \in [shared : [Ids -> Groups \cup {NoConnection}], own : [Nodes -> Nat]]
    BY <1>2, <2>1, <2>6, <2>7, <2>8
  <2> QED BY <1>1, <2>2, <2>5, <2>9 DEF Types, ClientTypes, ServerTypes, clientVars, r
<1> QED BY <1>4, <1>5
LEMMA DescriptionTypes ==
  ASSUME Types, SendAsebaVMDescription
  PROVE  Types' /\ (down' = down \/ Replies(Head(up)))
<1> DEFINE r == Head(up)
<1>1. /\ Handle("describe") /\ Room(1) /\ UNCHANGED <<clientVars, strand, serverVars>>
      /\ down' = down \/ down' = Append(down, Answer("description", r))
  BY DEF SendAsebaVMDescription
<1>2. r \in RequestMessages /\ up' \in Seq(RequestMessages)
  BY <1>1, HandleFacts
<1>3. strand \in Seq(Signals)
  BY DEF Types, ChannelTypes
<1>4. CASE down' = down
  <2>1. ChannelTypes'
    BY <1>1, <1>2, <1>4 DEF Types, ChannelTypes
  <2> QED BY <1>1, <1>4, <2>1 DEF Types, ClientTypes, ServerTypes, clientVars, serverVars
<1>5. CASE down' = Append(down, Answer("description", r))
  <2>1. Replies(r)
    BY <1>5 DEF Replies, AnswerKinds
  <2>2. Len(strand') <= Len(strand) + 0 /\ Room(1 + 0) /\ 0 \in Nat
    BY <1>1, <1>3
  <2>3. ChannelTypes'
    BY <1>1, <1>2, <1>3, <2>1, <2>2, ReplyTypes
  <2> QED BY <1>1, <2>1, <2>3 DEF Types, ClientTypes, ServerTypes, clientVars, serverVars
<1> QED BY <1>1, <1>4, <1>5

LEMMA ServerTypesKept ==
  ASSUME Types, HandleServer PROVE Types' /\ Replies(Head(up))
<1>1. /\ Handle("server") /\ Room(1) /\ UNCHANGED <<clientVars, strand, serverVars>>
      /\ \E kind \in {"completed", "error"} : down' = Append(down, Answer(kind, Head(up)))
  BY DEF HandleServer
<1>2. Head(up) \in RequestMessages /\ up' \in Seq(RequestMessages)
  BY <1>1, HandleFacts
<1>3. Replies(Head(up))
  BY <1>1 DEF Replies, AnswerKinds
<1>4. Len(strand') <= Len(strand) + 0 /\ Room(1 + 0) /\ 0 \in Nat /\ strand' \in Seq(Signals)
  BY <1>1 DEF Types, ChannelTypes
<1>5. ChannelTypes'
  BY <1>2, <1>3, <1>4, ReplyTypes
<1> QED BY <1>1, <1>3, <1>5 DEF Types, ClientTypes, ServerTypes, clientVars, serverVars

LEMMA DeviceTypes ==
  ASSUME Types, HandleDevice PROVE Types'
<1>1. /\ Handle("device") /\ later' = later \cup {Head(up)}
      /\ UNCHANGED <<clientVars, down, strand, registry, conn, since, shared, watch, changes>>
  BY DEF HandleDevice
<1>2. Head(up) \in RequestMessages /\ up' \in Seq(RequestMessages)
  BY <1>1, HandleFacts
<1> QED BY <1>1, <1>2 DEF Types, ClientTypes, ServerTypes, ChannelTypes, clientVars

\* A request that waits for a device: answered, refused, or dropped.
LEMMA LaterTypes ==
  ASSUME Types, NEW r \in later, AnswerLater(r) \/ RefuseLater(r) PROVE Types' /\ Replies(r) /\ r \in RequestMessages
<1>1. /\ Room(1) /\ UNCHANGED <<clientVars, up, strand, registry, conn, since, shared, watch>>
      /\ changes' \in Nat /\ Replies(r)
      /\ later' \subseteq later \cup {[r EXCEPT !.again = TRUE]}
  BY DEF AnswerLater, RefuseLater, Replies, AnswerKinds, Types, ServerTypes
<1>2. r \in RequestMessages /\ up' \in Seq(RequestMessages) /\ strand' \in Seq(Signals)
  BY <1>1 DEF Types, ServerTypes, ChannelTypes
<1>3. [r EXCEPT !.again = TRUE] \in RequestMessages
  BY <1>2 DEF RequestMessages
<1>4. Len(strand') <= Len(strand) + 0 /\ Room(1 + 0) /\ 0 \in Nat
  BY <1>1 DEF Types, ChannelTypes
<1>5. ChannelTypes'
  BY <1>1, <1>2, <1>4, ReplyTypes
<1>6. later' \in SUBSET RequestMessages
  BY <1>1, <1>3 DEF Types, ServerTypes
<1> QED BY <1>1, <1>2, <1>5, <1>6 DEF Types, ClientTypes, ServerTypes, clientVars

LEMMA DropTypes ==
  ASSUME Types, NEW r \in later, DropLater(r) PROVE Types' /\ r \in RequestMessages
<1>1. /\ UNCHANGED <<clientVars, up, down, strand, registry, conn, since, shared, watch>> /\ changes' \in Nat
      /\ later' = (later \ {r}) \cup {[r EXCEPT !.kind = "dropped"]}
  BY DEF DropLater, Types, ServerTypes
<1>2. r \in RequestMessages
  BY DEF Types, ServerTypes
<1>3. [r EXCEPT !.kind = "dropped"] \in RequestMessages
  BY <1>2 DEF RequestMessages
<1> QED BY <1>1, <1>2, <1>3 DEF Types, ClientTypes, ServerTypes, ChannelTypes, clientVars

\* The strand gets signals of the server.
Posts(more) == more \in Seq(Signals) /\ strand' = strand \o more /\ Room(Len(more))

LEMMA PostTypes ==
  ASSUME Types, NEW more, Posts(more), UNCHANGED <<up, down>> PROVE ChannelTypes'
<1>1. strand \in Seq(Signals) /\ more \in Seq(Signals) /\ strand' = strand \o more /\ down \in Seq(DownMessages)
  BY DEF Posts, Types, ChannelTypes
<1>2. strand' \in Seq(Signals) /\ Len(strand') = Len(strand) + Len(more)
  BY <1>1
<1>3. Len(strand') + Len(down') <= MaxPosted
  BY <1>1, <1>2, ClientAssumption DEF Posts, Room
<1> QED BY <1>2, <1>3 DEF Types, ChannelTypes

LEMMA OnePosted ==
  ASSUME Types, NEW m \in Signals, strand' = Append(strand, m), Room(1) PROVE Posts(<<m>>)
<1>1. strand \in Seq(Signals)
  BY DEF Types, ChannelTypes
<1>2. <<m>> \in Seq(Signals) /\ Append(strand, m) = strand \o <<m>> /\ Len(<<m>>) = 1
  BY <1>1
<1> QED BY <1>2 DEF Posts

LEMMA WatchersFinite ==
  ASSUME NEW g PROVE Cardinality(Watchers(g)) \in Nat
<1>1. IsFiniteSet(Ids)
  BY ClientAssumption, FS_Union DEF Ids
<1>2. Watchers(g) \in SUBSET Ids
  BY DEF Watchers
<1> QED BY <1>1, <1>2, FS_Subset, FS_CardinalityType

LEMMA SignalledNotices ==
  ASSUME NEW g, NEW m \in Notices
  PROVE  Signalled(g, m) \in Seq(Notices) /\ Len(Signalled(g, m)) = Cardinality(Watchers(g))
         /\ Signalled(g, m) \in Seq(Signals)
<1> DEFINE k == Cardinality(Watchers(g))
<1>1. k \in Nat
  BY WatchersFinite
<1> HIDE DEF k
<1>2. Signalled(g, m) = [i \in 1..k |-> m]
  BY DEF Signalled, k
<1>3. Signalled(g, m) \in Seq(Notices) /\ Len(Signalled(g, m)) = k
  BY <1>1, <1>2
<1>4. m \in Signals
  BY DEF Signals
<1>5. Signalled(g, m) \in Seq(Signals)
  BY <1>1, <1>2, <1>4
<1> QED BY <1>3, <1>5 DEF k

\* What a change of a node posts.
LEMMA ChangedSignal ==
  ASSUME Types, NEW n \in Nodes, NEW s \in {"available", "busy", "disconnected"}
  PROVE  /\ Changed(n, s) \in Signals /\ [Changed(n, s) EXCEPT !.conn = conn[n] + 1] \in Signals
         /\ Changed(n, s) = [kind |-> "nodes", node |-> n, conn |-> conn[n], status |-> s]
<1>1. conn[n] \in Nat /\ conn[n] + 1 \in Nat
  BY DEF Types, ServerTypes
<1> QED BY <1>1 DEF Changed, Signals

LEMMA RegisteredFacts ==
  ASSUME Types, NEW n \in Registered
  PROVE  n \in Nodes /\ registry[n].status \in {"available", "busy"} /\ registry[n].group \in Groups
BY DEF Types, ServerTypes, Registered, Registrations, Absent

\* A change of one node, on the server.
LEMMA NodeTypes ==
  ASSUME Types, NEW n \in Nodes, NEW g \in Groups, Connect(n, g) \/ SetStatus(n) \/ Disconnect(n)
  PROVE  Types'
<1>1. UNCHANGED <<clientVars, up, down, shared, watch, later>> /\ changes' \in Nat /\ Room(1)
  BY DEF Connect, SetStatus, Disconnect, Types, ServerTypes
<1>2. conn' \in [Nodes -> Nat] /\ since' \in [Nodes -> Nat]
  <2>1. conn \in [Nodes -> Nat] /\ since \in [Nodes -> Nat]
    BY DEF Types, ServerTypes
  <2>2. conn' = conn \/ conn' = [conn EXCEPT ![n] = @ + 1]
    BY DEF Connect, SetStatus, Disconnect
  <2>3. since' = since \/ since' = [since EXCEPT ![n] = conn[n] + 1]
    BY DEF Connect, SetStatus, Disconnect
  <2> QED BY <2>1, <2>2, <2>3
<1>3. registry \in [Nodes -> Registrations]
  BY DEF Types, ServerTypes
<1>4. registry' \in [Nodes -> Registrations] /\ \E m \in Signals : strand' = Append(strand, m)
  <2>1. CASE Connect(n, g)
    <3>1. [status |-> "available", group |-> g] \in Registrations
      BY DEF Registrations
    <3> QED BY <1>3, <2>1, <3>1, ChangedSignal DEF Connect
  <2>2. CASE SetStatus(n)
    <3> DEFINE s == IF registry[n].status = "busy" THEN "available" ELSE "busy"
    <3>1. n \in Registered /\ registry' = [registry EXCEPT ![n].status = s] /\ strand' = Append(strand, Changed(n, s))
      BY <2>2 DEF SetStatus
    <3>2. registry[n] \in [status : {"available", "busy"}, group : Groups]
      BY <1>3, <3>1 DEF Registered, Registrations, Absent
    <3>3. [registry[n] EXCEPT !.status = s] \in Registrations
      BY <3>2 DEF Registrations
    <3>4. registry' \in [Nodes -> Registrations]
      BY <1>3, <3>1, <3>3
    <3>5. Changed(n, s) \in Signals
      BY ChangedSignal
    <3> QED BY <3>1, <3>4, <3>5
  <2>3. CASE Disconnect(n)
    <3>1. [status |-> "absent", group |-> NoGroup] \in Registrations
      BY DEF Registrations, Absent
    <3> QED BY <1>3, <2>3, <3>1, ChangedSignal DEF Disconnect
  <2> QED BY <2>1, <2>2, <2>3
<1>5. ChannelTypes'
  <2>1. PICK m \in Signals : strand' = Append(strand, m)
    BY <1>4
  <2>2. Posts(<<m>>)
    BY <1>1, <2>1, OnePosted
  <2> QED BY <1>1, <2>2, PostTypes
<1> QED BY <1>1, <1>2, <1>4, <1>5 DEF Types, ClientTypes, ServerTypes, clientVars

LEMMA Joined ==
  ASSUME NEW S, NEW s \in Seq(S), NEW t \in Seq(S)
  PROVE  s \o t \in Seq(S) /\ Len(s \o t) = Len(s) + Len(t)
OBVIOUS

LEMMA AttachTypes ==
  ASSUME Types, NEW n \in Nodes, NEW g \in Groups, AttachToEndpoint(n, g)
  PROVE  /\ Types'
         /\ \E more \in Seq(Notices) : strand' = (strand \o <<Changed(n, registry[n].status)>>) \o more
<1> DEFINE m == Changed(n, registry[n].status)
           s == strand \o <<m>>
           one == Signalled(g, SharedVariables(g))
           two == Signalled(g, EventsTable(g))
           k == Cardinality(Watchers(g))
<1>1. /\ n \in Registered /\ Room(1 + 2 * k) /\ registry' = [registry EXCEPT ![n].group = g]
      /\ strand' = strand \o <<m>> \o one \o two /\ changes' \in Nat
      /\ UNCHANGED <<clientVars, up, down, conn, since, shared, watch, later>>
  BY DEF AttachToEndpoint, Types, ServerTypes
<1>2. m \in Signals
  BY <1>1, RegisteredFacts, ChangedSignal
<1>3. strand \in Seq(Signals) /\ down \in Seq(DownMessages) /\ k \in Nat
  BY WatchersFinite DEF Types, ChannelTypes
<1>4. /\ one \in Seq(Notices) /\ one \in Seq(Signals) /\ Len(one) = k
      /\ two \in Seq(Notices) /\ two \in Seq(Signals) /\ Len(two) = k
  BY ValuesSignals, SignalledNotices
<1>5. <<m>> \in Seq(Signals) /\ Len(<<m>>) = 1
  BY <1>2
<1> HIDE DEF m, one, two, k
<1>6. s \in Seq(Signals) /\ Len(s) = Len(strand) + 1
  <2>1. s = Append(strand, m)
    BY <1>2, <1>3
  <2>2. Append(strand, m) \in Seq(Signals) /\ Len(Append(strand, m)) = Len(strand) + 1
    BY <1>2, <1>3
  <2> QED BY <2>1, <2>2
<1>7. strand' = s \o one \o two
  BY <1>1
<1> HIDE DEF s
<1>8. s \o one \in Seq(Signals) /\ Len(s \o one) = Len(s) + Len(one)
  BY <1>4, <1>6, Joined
<1>9. strand' \in Seq(Signals) /\ Len(strand') = Len(s) + Len(one) + Len(two)
  BY <1>4, <1>7, <1>8, Joined
<1>10. strand' = s \o (one \o two) /\ one \o two \in Seq(Notices)
  BY <1>4, <1>6, <1>7
<1>11. Len(strand') + Len(down') <= MaxPosted
  <2>1. Len(strand') = Len(strand) + 1 + k + k
    BY <1>4, <1>6, <1>9
  <2>2. Len(strand) + Len(down) + (1 + 2 * k) <= MaxPosted /\ down' = down
    BY <1>1 DEF Room
  <2>3. Len(strand) \in Nat /\ Len(down) \in Nat /\ MaxPosted \in Nat /\ k \in Nat
    BY <1>3, ClientAssumption DEF Types, ChannelTypes
  <2> HIDE DEF k
  <2> QED BY <2>1, <2>2, <2>3
<1>12. ChannelTypes'
  BY <1>1, <1>9, <1>11 DEF Types, ChannelTypes
<1>13. registry' \in [Nodes -> Registrations]
  <2>1. registry \in [Nodes -> Registrations]
    BY DEF Types, ServerTypes
  <2>2. registry[n] \in [status : {"available", "busy"}, group : Groups]
    BY <1>1, <2>1 DEF Registered, Registrations, Absent
  <2>3. [registry[n] EXCEPT !.group = g] \in Registrations
    BY <2>2 DEF Registrations
  <2> QED BY <1>1, <2>1, <2>3
<1> QED BY <1>1, <1>10, <1>12, <1>13 DEF Types, ClientTypes, ServerTypes, clientVars, s, m
LEMMA SharedTypes ==
  ASSUME Types, NEW g \in Groups, SetSharedVariables(g) \/ SetEventsTable(g)
  PROVE  /\ Types' /\ \E more \in Seq(Notices) : strand' = strand \o more
         /\ UNCHANGED <<clientVars, up, down, registry, conn, since, watch, later>>
<1> DEFINE k == Cardinality(Watchers(g))
<1>1. /\ UNCHANGED <<clientVars, up, down, registry, conn, since, watch, later>> /\ changes' \in Nat /\ Room(k)
  BY DEF SetSharedVariables, SetEventsTable, Types, ServerTypes
<1>2. shared' \in [Groups -> [variables : Nat, events : Nat]]
  <2>1. shared \in [Groups -> [variables : Nat, events : Nat]]
    BY DEF Types, ServerTypes
  <2>2. shared[g] \in [variables : Nat, events : Nat] /\ shared[g].variables + 1 \in Nat /\ shared[g].events + 1 \in Nat
    BY <2>1
  <2>3. /\ [shared[g] EXCEPT !.variables = @ + 1] \in [variables : Nat, events : Nat]
        /\ [shared[g] EXCEPT !.events = @ + 1] \in [variables : Nat, events : Nat]
    BY <2>2
  <2>4. \/ shared' = [shared EXCEPT ![g] = [shared[g] EXCEPT !.variables = @ + 1]]
        \/ shared' = [shared EXCEPT ![g] = [shared[g] EXCEPT !.events = @ + 1]]
    BY <2>1 DEF SetSharedVariables, SetEventsTable
  <2> QED BY <2>1, <2>3, <2>4
<1>3. PICK m \in Notices : strand' = strand \o Signalled(g, m)
  BY ValuesSignals DEF SetSharedVariables, SetEventsTable
<1>4. Signalled(g, m) \in Seq(Notices) /\ Posts(Signalled(g, m))
  BY <1>1, <1>3, SignalledNotices DEF Posts
<1>5. ChannelTypes'
  BY <1>1, <1>4, PostTypes
<1> QED BY <1>1, <1>2, <1>3, <1>4, <1>5 DEF Types, ClientTypes, ServerTypes, clientVars

LEMMA OwnTypes ==
  ASSUME Types, NEW n \in Nodes, OwnVariablesChanged(n)
  PROVE  /\ Types' /\ \E more \in Seq(Notices) : strand' = strand \o more
         /\ UNCHANGED <<clientVars, up, down, registry, conn, since, watch, later>>
<1> DEFINE m == [kind |-> "variables", target |-> n, value |-> Own]
<1>1. /\ UNCHANGED <<clientVars, up, down, registry, conn, since, shared, watch, later>> /\ changes' \in Nat
      /\ Room(1) /\ strand' = Append(strand, m)
  BY DEF OwnVariablesChanged, Types, ServerTypes
<1>2. m \in Notices /\ m \in Signals
  BY DEF Notices, Signals, Own, Ids
<1> HIDE DEF m
<1>3. Posts(<<m>>)
  BY <1>1, <1>2, OnePosted
<1>4. <<m>> \in Seq(Notices) /\ strand' = strand \o <<m>>
  BY <1>2, <1>3 DEF Posts
<1>5. ChannelTypes'
  BY <1>1, <1>3, PostTypes
<1> QED BY <1>1, <1>4, <1>5 DEF Types, ClientTypes, ServerTypes, clientVars

\* The group a change is written with, and the entry it is written as.
LEMMA GroupsFacts ==
  ASSUME Types, NEW m \in Signals
  PROVE  GroupsOf(m) \subseteq AllGroups
<1>1. m.kind = "nodes" => m.node \in Nodes
  BY DEF Signals, Notices
<1>2. m.kind = "nodes" => registry[m.node].group \in AllGroups
  BY <1>1 DEF Types, ServerTypes, Registrations, Absent, AllGroups
<1> QED BY <1>2 DEF GroupsOf, AllGroups

LEMMA WrittenFacts ==
  ASSUME NEW m \in Signals, NEW g \in AllGroups
  PROVE  /\ Written(m, g) \in DownMessages
         /\ m.kind # "nodes" => Written(m, g) = m /\ m \in Notices
         /\ m.kind = "nodes" =>
              /\ Written(m, g).kind = "nodes" /\ Agreeing(Written(m, g).changes)
              /\ Written(m, g).changes = <<[node |-> m.node, status |-> m.status, group |-> g]>>
<1>1. CASE m.kind # "nodes"
  BY <1>1 DEF Written, Signals, DownMessages
<1>2. CASE m.kind = "nodes"
  <2> DEFINE e == [node |-> m.node, status |-> m.status, group |-> g]
  <2>1. m.node \in Nodes /\ m.status \in {"available", "busy", "disconnected"}
    BY <1>2 DEF Signals, Notices
  <2>2. e \in Entries
    BY <2>1 DEF Entries
  <2>3. Written(m, g) = [kind |-> "nodes", changes |-> <<e>>]
    BY <1>2 DEF Written
  <2> HIDE DEF e
  <2>4. <<e>> \in Seq(Entries) /\ Agreeing(<<e>>)
    BY <2>2 DEF Agreeing
  <2>5. [kind |-> "nodes", changes |-> <<e>>] \in DownMessages
    BY <2>4 DEF DownMessages
  <2> QED BY <1>2, <2>3, <2>4, <2>5 DEF e
<1> QED BY <1>1, <1>2

LEMMA StrandFacts ==
  ASSUME Types, RunStrand
  PROVE  /\ strand # <<>> /\ Head(strand) \in Signals /\ Head(strand) = strand[1] /\ 1 \in 1..Len(strand)
         /\ strand' = Tail(strand) /\ strand' \in Seq(Signals) /\ Len(strand') = Len(strand) - 1
         /\ Len(strand) \in Nat
         /\ \A i \in 1..Len(strand') : i + 1 \in 1..Len(strand) /\ i + 1 # 1 /\ strand'[i] = strand[i + 1]
         /\ UNCHANGED <<clientVars, up, serverVars>>
         /\ \E g \in AllGroups : g \in GroupsOf(Head(strand)) /\ down' = Append(down, Written(Head(strand), g))
<1>1. strand \in Seq(Signals) /\ strand # <<>> /\ strand' = Tail(strand)
  BY DEF Types, ChannelTypes, RunStrand
<1>2. Head(strand) \in Signals /\ Tail(strand) \in Seq(Signals)
  BY <1>1
<1>3. \E g \in AllGroups : g \in GroupsOf(Head(strand)) /\ down' = Append(down, Written(Head(strand), g))
  BY <1>2, GroupsFacts DEF RunStrand
<1> QED BY <1>1, <1>2, <1>3 DEF RunStrand

LEMMA StrandTypes ==
  ASSUME Types, RunStrand PROVE Types'
<1> PICK g \in AllGroups : g \in GroupsOf(Head(strand)) /\ down' = Append(down, Written(Head(strand), g))
  BY StrandFacts
<1> DEFINE w == Written(Head(strand), g)
<1>1. w \in DownMessages /\ (w.kind = "nodes" => Agreeing(w.changes))
  <2>1. Head(strand) \in Signals
    BY StrandFacts
  <2>2. CASE Head(strand).kind = "nodes"
    BY <2>1, <2>2, WrittenFacts
  <2>3. CASE Head(strand).kind # "nodes"
    BY <2>1, <2>3, WrittenFacts
  <2> QED BY <2>2, <2>3
<1>2. down' = Append(down, w) /\ down \in Seq(DownMessages) /\ UNCHANGED <<clientVars, up, serverVars>>
  BY StrandFacts DEF Types, ChannelTypes
<1> HIDE DEF w
<1>3. /\ down' \in Seq(DownMessages) /\ Len(down') = Len(down) + 1 /\ Len(down) \in Nat
      /\ down'[Len(down) + 1] = w /\ \A i \in 1..Len(down) : down'[i] = down[i]
  BY <1>1, <1>2
<1>4. \A i \in 1..Len(down') : down'[i].kind = "nodes" => Agreeing(down'[i].changes)
  BY <1>1, <1>3 DEF Types, ChannelTypes
<1>5. Len(strand') + Len(down') <= MaxPosted
  BY <1>3, StrandFacts, ClientAssumption DEF Types, ChannelTypes
<1>6. ChannelTypes'
  BY <1>2, <1>3, <1>4, <1>5, StrandFacts DEF Types, ChannelTypes
<1> QED BY <1>2, <1>6 DEF Types, ClientTypes, ServerTypes, clientVars, serverVars

\* The full list of nodes that is on its way at first.
Listed(list) ==
  /\ list \in Seq(Entries)
  /\ \A i \in 1..Len(list) : /\ list[i].node \in Registered /\ list[i].status = "available"
                             /\ list[i].group = registry[list[i].node].group
  /\ \A n \in Registered : \E i \in 1..Len(list) : list[i].node = n

LEMMA InitFacts ==
  ASSUME Init
  PROVE  /\ registry \in [Nodes -> Registrations]
         /\ \A n \in Registered : registry[n].status = "available" /\ registry[n].group \in Groups
         /\ \E list : Listed(list) /\ down = <<[kind |-> "nodes", changes |-> list]>>
<1>1. registry \in [Nodes -> {Absent} \cup [status : {"available"}, group : Groups]]
  BY DEF Init, Absent
<1>2. registry \in [Nodes -> Registrations]
  BY <1>1 DEF Registrations
<1>3. \A n \in Registered : n \in Nodes /\ registry[n].status = "available" /\ registry[n].group \in Groups
  BY <1>1 DEF Registered, Absent
<1>4. PICK order \in [1..Cardinality(Registered) -> Registered] :
       /\ \A n \in Registered : \E i \in DOMAIN order : order[i] = n
       /\ down = <<[kind |-> "nodes", changes |-> [i \in DOMAIN order |->
                      [node |-> order[i], status |-> "available", group |-> registry[order[i]].group]]]>>
  BY DEF Init
<1> DEFINE k == Cardinality(Registered)
           list == [i \in 1..k |->
                      [node |-> order[i], status |-> "available", group |-> registry[order[i]].group]]
<1>5. k \in Nat
  <2>1. Registered \in SUBSET Nodes
    BY DEF Registered
  <2> QED BY <2>1, ClientAssumption, FS_Subset, FS_CardinalityType
<1>6. down = <<[kind |-> "nodes", changes |-> list]>>
  BY <1>4
<1> HIDE DEF k
<1>7. order \in [1..k -> Registered]
  BY <1>4 DEF k
<1>8. \A i \in 1..k : [node |-> order[i], status |-> "available", group |-> registry[order[i]].group] \in Entries
  BY <1>3, <1>7 DEF Entries, AllGroups
<1>9. list \in Seq(Entries) /\ Len(list) = k
  BY <1>5, <1>8
<1>10. \A n \in Registered : \E i \in 1..k : list[i].node = n
  BY <1>4, <1>7
<1>11. \A i \in 1..k : /\ list[i].node \in Registered /\ list[i].status = "available"
                       /\ list[i].group = registry[list[i].node].group
  BY <1>7
<1> HIDE DEF list
<1>12. Listed(list)
  BY <1>9, <1>10, <1>11 DEF Listed
<1> QED BY <1>2, <1>3, <1>6, <1>12
LEMMA ListAgrees ==
  ASSUME NEW list, Listed(list) PROVE Agreeing(list)
<1>1. \A i \in 1..Len(list) : list[i] \in Entries
  BY DEF Listed
<1> SUFFICES ASSUME NEW i \in 1..Len(list), NEW j \in 1..Len(list), list[i].node = list[j].node
             PROVE  list[i] = list[j]
  BY DEF Agreeing
<1>2. list[i].status = list[j].status /\ list[i].group = list[j].group
  BY DEF Listed
<1> QED BY <1>1, <1>2 DEF Entries

LEMMA TypesInit == Init => Types
<1> SUFFICES ASSUME Init PROVE Types
  OBVIOUS
<1>1. PICK list : Listed(list) /\ down = <<[kind |-> "nodes", changes |-> list]>>
  BY InitFacts
<1> DEFINE m == [kind |-> "nodes", changes |-> list]
<1>2. m \in DownMessages
  BY <1>1 DEF DownMessages, Listed
<1>3. ChannelTypes
  <2>1. m.kind = "nodes" /\ Agreeing(m.changes) /\ down = <<m>>
    BY <1>1, ListAgrees
  <2> HIDE DEF m
  <2>2. down \in Seq(DownMessages) /\ Len(down) = 1 /\ down[1] = m
    BY <1>2, <2>1
  <2>3. up \in Seq(RequestMessages) /\ strand \in Seq(Signals) /\ Len(strand) = 0
    BY DEF Init
  <2> QED BY <2>1, <2>2, <2>3, ClientAssumption DEF ChannelTypes
<1>4. ServerTypes
  <2>1. NotWatching \in [shared : [Ids -> Groups \cup {NoConnection}], own : [Nodes -> Nat]]
    BY DEF NotWatching
  <2>2. shared \in [Groups -> [variables : Nat, events : Nat]]
    BY DEF Init, FirstVersion
  <2>3. conn \in [Nodes -> Nat] /\ since \in [Nodes -> Nat]
    BY DEF Init
  <2> QED BY <2>1, <2>2, <2>3, InitFacts DEF Init, ServerTypes
<1>5. ClientTypes
  <2>1. Tables(nodes, groups)
    BY DEF Init, Tables
  <2>2. promise \in Seq(Promises) /\ DOMAIN requests = {} /\ requests \in [DOMAIN requests -> 1..Len(promise)]
    BY DEF Init
  <2> QED BY <2>1, <2>2 DEF Init, ClientTypes
<1> QED BY <1>3, <1>4, <1>5 DEF Types

LEMMA TypesInductive == Types /\ [Next]_vars => Types'
<1> SUFFICES ASSUME Types, [Next]_vars PROVE Types'
  OBVIOUS
<1>1. CASE UNCHANGED vars
  BY <1>1 DEF Types, ClientTypes, ServerTypes, ChannelTypes, vars, clientVars, serverVars
<1>2. CASE OnMessage
  BY <1>2, NodesChangedTypes, AnswerTypes, ValueTypes DEF OnMessage
<1>3. CASE HandleRead
  BY <1>3, WatchTypes, DescriptionTypes, ServerTypesKept, DeviceTypes DEF HandleRead
<1>4. CASE Environment
  <2>1. ASSUME NEW n \in Nodes, SetStatus(n) \/ Disconnect(n) PROVE Types'
    <3>1. CASE Groups # {}
      BY <2>1, <3>1, NodeTypes
    <3>2. CASE Groups = {}
      <4>1. n \in Registered
        BY <2>1 DEF SetStatus, Disconnect
      <4> QED BY <3>2, <4>1, RegisteredFacts
    <3> QED BY <3>1, <3>2
  <2> QED BY <1>4, <2>1, NodeTypes, AttachTypes, SharedTypes, OwnTypes DEF Environment
<1>5. CASE \E r \in later : AnswerLater(r) \/ RefuseLater(r) \/ DropLater(r)
  BY <1>5, LaterTypes, DropTypes
<1> QED BY <1>1, <1>2, <1>3, <1>4, <1>5, ApplicationTypes, CloseTypes, StrandTypes DEF Next

\* Every reachable state has the types the other arguments read.
THEOREM TypesInvariance == Spec => []Types
BY TypesInit, TypesInductive, PTL DEF Spec

\* The tables of the client and the messages of either side are well formed: every node has a
\* Group object, every pending id stands for a promise, and there is always a free object.
THEOREM TypeOKAlways == Spec => []TypeOK
<1>1. Types => TypeOK
  <2> SUFFICES ASSUME Types PROVE TypeOK
    OBVIOUS
  <2>1. DOMAIN promise = 1..Len(promise)
    BY DEF Types, ClientTypes
  <2>2. \A o \in DOMAIN groups : groups[o].id \in Groups \cup {NoGroup}
    BY DEF Types, ClientTypes, Tables, GroupRecords, AllGroups
  <2>3. \A i \in DOMAIN requests : requests[i] \in DOMAIN promise
    BY <2>1 DEF Types, ClientTypes
  <2> QED BY <2>2, <2>3 DEF Types, ClientTypes, ChannelTypes, Tables, TypeOK
<1> QED BY <1>1, TypesInvariance, PTL

\* Nodes of one group share one Group object, through every change of the list of nodes: a
\* node that comes takes the object of the group, and an object is made only if there is none.
THEOREM OneObjectPerGroupAlways == Spec => []OneObjectPerGroup
<1>1. Types => OneObjectPerGroup
  BY DEF Types, ClientTypes, Tables, OneObjectPerGroup
<1> QED BY <1>1, TypesInvariance, PTL
-----------------------------------------------------------------------------
(* Requests and their answers *)

IsAnswer(m) == m.kind \in AnswerKinds

\* What is on its way, of given messages and waiting requests.
Flying(u, l, d) ==
  {u[i] : i \in 1..Len(u)} \cup {r \in l : r.kind = "device"}
  \cup {d[i] : i \in {i \in 1..Len(d) : IsAnswer(d[i])}}

LEMMA FlyingNow ==
  /\ Types => InFlight = Flying(up, later, down)
  /\ Types' => InFlight' = Flying(up', later', down')
<1>1. ASSUME Types PROVE InFlight = Flying(up, later, down)
  <2>1. DOMAIN up = 1..Len(up) /\ DOMAIN down = 1..Len(down)
    BY <1>1 DEF Types, ChannelTypes
  <2> QED BY <2>1 DEF InFlight, Flying, IsAnswer, AnswerKinds
<1>2. ASSUME Types' PROVE InFlight' = Flying(up', later', down')
  <2>1. DOMAIN up' = 1..Len(up') /\ DOMAIN down' = 1..Len(down')
    BY <1>2 DEF Types, ChannelTypes
  <2> QED BY <2>1 DEF InFlight, Flying, IsAnswer, AnswerKinds
<1> QED BY <1>1, <1>2

\* A message comes to what is on its way, or leaves it.
LEMMA FlyingSent ==
  ASSUME NEW u \in Seq(RequestMessages), NEW l, NEW d, NEW m \in RequestMessages
  PROVE  Flying(Append(u, m), l, d) = Flying(u, l, d) \cup {m}
<1> DEFINE v == Append(u, m)
<1>1. /\ Len(u) \in Nat /\ Len(v) = Len(u) + 1 /\ v[Len(u) + 1] = m
      /\ \A i \in 1..Len(u) : v[i] = u[i] /\ i \in 1..Len(v)
      /\ \A i \in 1..Len(v) : i \in 1..Len(u) \/ i = Len(u) + 1
      /\ Len(u) + 1 \in 1..Len(v)
  OBVIOUS
<1> HIDE DEF v
<1>2. {v[i] : i \in 1..Len(v)} = {u[i] : i \in 1..Len(u)} \cup {m}
  BY <1>1
<1> QED BY <1>2 DEF Flying, v

LEMMA FlyingWritten ==
  ASSUME NEW u, NEW l, NEW d \in Seq(DownMessages), NEW m \in DownMessages
  PROVE  /\ IsAnswer(m) => Flying(u, l, Append(d, m)) = Flying(u, l, d) \cup {m}
         /\ ~IsAnswer(m) => Flying(u, l, Append(d, m)) = Flying(u, l, d)
<1> DEFINE e == Append(d, m)
<1>1. /\ Len(d) \in Nat /\ Len(e) = Len(d) + 1 /\ e[Len(d) + 1] = m
      /\ \A i \in 1..Len(d) : e[i] = d[i] /\ i \in 1..Len(e)
      /\ \A i \in 1..Len(e) : i \in 1..Len(d) \/ i = Len(d) + 1
      /\ Len(d) + 1 \in 1..Len(e)
  OBVIOUS
<1> HIDE DEF e
<1>2. {e[i] : i \in {i \in 1..Len(e) : IsAnswer(e[i])}} =
        {d[i] : i \in {i \in 1..Len(d) : IsAnswer(d[i])}} \cup (IF IsAnswer(m) THEN {m} ELSE {})
  BY <1>1
<1> QED BY <1>2 DEF Flying, e

LEMMA FlyingWaits ==
  ASSUME NEW u, NEW l, NEW d, NEW r
  PROVE  /\ r.kind = "device" => Flying(u, l \cup {r}, d) = Flying(u, l, d) \cup {r}
         /\ r.kind # "device" => Flying(u, l \cup {r}, d) = Flying(u, l, d)
BY DEF Flying

LEMMA FlyingHandled ==
  ASSUME NEW u \in Seq(RequestMessages), NEW l, NEW d, u # <<>>
  PROVE  Flying(u, l, d) = Flying(Tail(u), l, d) \cup {Head(u)}
<1> DEFINE v == Tail(u)
<1>1. /\ Len(u) \in Nat /\ Len(v) = Len(u) - 1 /\ Head(u) = u[1] /\ 1 \in 1..Len(u)
      /\ \A i \in 1..Len(v) : v[i] = u[i + 1] /\ i + 1 \in 1..Len(u)
  OBVIOUS
<1> HIDE DEF v
<1>2. \A i \in 1..Len(u) : i = 1 \/ (i - 1 \in 1..Len(v) /\ u[i] = v[i - 1])
  BY <1>1
<1>3. {u[i] : i \in 1..Len(u)} = {v[i] : i \in 1..Len(v)} \cup {Head(u)}
  BY <1>1, <1>2
<1> QED BY <1>3 DEF Flying, v

LEMMA FlyingTaken ==
  ASSUME NEW u, NEW l, NEW d \in Seq(DownMessages), d # <<>>
  PROVE  /\ IsAnswer(Head(d)) => Flying(u, l, d) = Flying(u, l, Tail(d)) \cup {Head(d)}
         /\ ~IsAnswer(Head(d)) => Flying(u, l, d) = Flying(u, l, Tail(d))
<1> DEFINE e == Tail(d)
<1>1. /\ Len(d) \in Nat /\ Len(e) = Len(d) - 1 /\ Head(d) = d[1] /\ 1 \in 1..Len(d)
      /\ \A i \in 1..Len(e) : e[i] = d[i + 1] /\ i + 1 \in 1..Len(d)
  OBVIOUS
<1> HIDE DEF e
<1>2. \A i \in 1..Len(d) : i = 1 \/ (i - 1 \in 1..Len(e) /\ d[i] = e[i - 1])
  BY <1>1
<1>3. {d[i] : i \in {i \in 1..Len(d) : IsAnswer(d[i])}} =
        {e[i] : i \in {i \in 1..Len(e) : IsAnswer(e[i])}}
        \cup (IF IsAnswer(Head(d)) THEN {Head(d)} ELSE {})
  BY <1>1, <1>2
<1> QED BY <1>3 DEF Flying, e

\* Where the request of a promise and its answers are: the request is on its way or waits for
\* a device, once; of its answers only the first on its way may be the first there is.
RequestsPlaced(u, p) ==
  \A i \in 1..Len(u) :
     /\ ~u[i].again /\ u[i].serial \in 1..Len(p) /\ u[i].kind = p[u[i].serial].kind
     /\ \A j \in 1..Len(u) : u[i].serial = u[j].serial => i = j

WaitingPlaced(u, l, p) ==
  \A r \in l :
     /\ r.serial \in 1..Len(p) /\ r.kind \in {"device", "dropped"}
     /\ \A q \in l : r.serial = q.serial => r = q
     /\ \A i \in 1..Len(u) : u[i].serial # r.serial

AnswersPlaced(u, l, d, p) ==
  \A i \in 1..Len(d) : IsAnswer(d[i]) =>
     /\ d[i].serial \in 1..Len(p) /\ (d[i].kind = "description" => p[d[i].serial].kind = "describe")
     /\ \A j \in 1..Len(u) : u[j].serial # d[i].serial
     /\ \A r \in l : r.serial = d[i].serial => r.again
     /\ \A j \in 1..Len(d) : (IsAnswer(d[j]) /\ d[j].serial = d[i].serial /\ ~d[j].again) => j <= i

Placed(u, l, d, p) == RequestsPlaced(u, p) /\ WaitingPlaced(u, l, p) /\ AnswersPlaced(u, l, d, p)

LEMMA PlacedLess ==
  ASSUME NEW u \in Seq(RequestMessages), NEW l, NEW d \in Seq(DownMessages), NEW p, Placed(u, l, d, p)
  PROVE  /\ u # <<>> => /\ Placed(Tail(u), l, d, p)
                        /\ \A i \in 1..Len(Tail(u)) : Tail(u)[i].serial # Head(u).serial
         /\ d # <<>> => Placed(u, l, Tail(d), p)
         /\ \A r : Placed(u, l \ {r}, d, p)
<1>1. ASSUME u # <<>>
      PROVE  /\ Placed(Tail(u), l, d, p)
             /\ \A i \in 1..Len(Tail(u)) : Tail(u)[i].serial # Head(u).serial
  <2> DEFINE v == Tail(u)
  <2>1. /\ Len(u) \in Nat /\ Len(v) = Len(u) - 1 /\ Head(u) = u[1] /\ 1 \in 1..Len(u)
        /\ \A i \in 1..Len(v) : v[i] = u[i + 1] /\ i + 1 \in 1..Len(u) /\ i + 1 # 1
    BY <1>1
  <2> HIDE DEF v
  <2>2. RequestsPlaced(v, p)
    <3> SUFFICES ASSUME NEW i \in 1..Len(v)
                 PROVE  /\ ~v[i].again /\ v[i].serial \in 1..Len(p) /\ v[i].kind = p[v[i].serial].kind
                        /\ \A j \in 1..Len(v) : v[i].serial = v[j].serial => i = j
      BY DEF RequestsPlaced
    <3>1. i + 1 \in 1..Len(u) /\ v[i] = u[i + 1]
      BY <2>1
    <3>2. \A j \in 1..Len(v) : v[i].serial = v[j].serial => i + 1 = j + 1
      BY <2>1, <3>1 DEF Placed, RequestsPlaced
    <3>3. \A j \in 1..Len(v) : v[i].serial = v[j].serial => i = j
      BY <3>2
    <3> QED BY <3>1, <3>3 DEF Placed, RequestsPlaced
  <2>3. WaitingPlaced(v, l, p)
    BY <2>1 DEF Placed, WaitingPlaced
  <2>4. AnswersPlaced(v, l, d, p)
    BY <2>1 DEF Placed, AnswersPlaced
  <2>5. \A i \in 1..Len(v) : v[i].serial # Head(u).serial
    BY <2>1 DEF Placed, RequestsPlaced
  <2> QED BY <2>2, <2>3, <2>4, <2>5 DEF Placed, v
<1>2. ASSUME d # <<>> PROVE Placed(u, l, Tail(d), p)
  <2> DEFINE e == Tail(d)
  <2>1. /\ Len(d) \in Nat /\ Len(e) = Len(d) - 1
        /\ \A i \in 1..Len(e) : e[i] = d[i + 1] /\ i + 1 \in 1..Len(d)
    BY <1>2
  <2> HIDE DEF e
  <2>2. AnswersPlaced(u, l, e, p)
    <3> SUFFICES ASSUME NEW i \in 1..Len(e), IsAnswer(e[i])
                 PROVE  /\ e[i].serial \in 1..Len(p) /\ (e[i].kind = "description" => p[e[i].serial].kind = "describe")
                        /\ \A j \in 1..Len(u) : u[j].serial # e[i].serial
                        /\ \A r \in l : r.serial = e[i].serial => r.again
                        /\ \A j \in 1..Len(e) : (IsAnswer(e[j]) /\ e[j].serial = e[i].serial /\ ~e[j].again) => j <= i
      BY DEF AnswersPlaced
    <3>1. i + 1 \in 1..Len(d) /\ e[i] = d[i + 1] /\ IsAnswer(d[i + 1])
      BY <2>1
    <3>2. \A j \in 1..Len(e) : (IsAnswer(e[j]) /\ e[j].serial = e[i].serial /\ ~e[j].again) => j + 1 <= i + 1
      BY <2>1, <3>1 DEF Placed, AnswersPlaced
    <3>3. ASSUME NEW j \in 1..Len(e), IsAnswer(e[j]), e[j].serial = e[i].serial, ~e[j].again PROVE j <= i
      <4>1. j + 1 <= i + 1
        BY <3>2, <3>3
      <4> QED BY <4>1
    <3> QED BY <3>1, <3>3 DEF Placed, AnswersPlaced
  <2> QED BY <2>2 DEF Placed, e
<1>3. ASSUME NEW r PROVE Placed(u, l \ {r}, d, p)
  BY DEF Placed, WaitingPlaced, AnswersPlaced
<1> QED BY <1>1, <1>2, <1>3

\* A request that is nowhere else waits for a device.
LEMMA PlacedWaiting ==
  ASSUME NEW u, NEW l, NEW d, NEW p, Placed(u, l, d, p),
         NEW r, r.serial \in 1..Len(p), r.kind \in {"device", "dropped"},
         \A q \in l : q.serial # r.serial,
         \A i \in 1..Len(u) : u[i].serial # r.serial,
         \A i \in 1..Len(d) : (IsAnswer(d[i]) /\ d[i].serial = r.serial) => r.again
  PROVE  Placed(u, l \cup {r}, d, p)
<1>1. WaitingPlaced(u, l \cup {r}, p)
  BY DEF Placed, WaitingPlaced
<1>2. AnswersPlaced(u, l \cup {r}, d, p)
  BY DEF Placed, AnswersPlaced
<1> QED BY <1>1, <1>2 DEF Placed

\* It is answered, or something else is written.
LEMMA PlacedWritten ==
  ASSUME NEW u, NEW l, NEW d \in Seq(DownMessages), NEW p, Placed(u, l, d, p), NEW m \in DownMessages,
         IsAnswer(m) =>
           /\ m.serial \in 1..Len(p) /\ (m.kind = "description" => p[m.serial].kind = "describe")
           /\ \A i \in 1..Len(u) : u[i].serial # m.serial
           /\ \A q \in l : q.serial # m.serial
           /\ \A i \in 1..Len(d) : (IsAnswer(d[i]) /\ d[i].serial = m.serial) => m.again
  PROVE  Placed(u, l, Append(d, m), p)
<1> DEFINE e == Append(d, m)
           k == Len(d) + 1
<1>1. /\ Len(d) \in Nat /\ Len(e) = k /\ e[k] = m /\ \A i \in 1..Len(d) : e[i] = d[i] /\ i < k
      /\ \A i \in 1..Len(e) : i \in 1..Len(d) \/ i = k
      /\ \A i \in 1..Len(e) : i <= k
  OBVIOUS
<1> HIDE DEF e, k
<1> SUFFICES ASSUME NEW i \in 1..Len(e), IsAnswer(e[i])
             PROVE  /\ e[i].serial \in 1..Len(p) /\ (e[i].kind = "description" => p[e[i].serial].kind = "describe")
                    /\ \A j \in 1..Len(u) : u[j].serial # e[i].serial
                    /\ \A r \in l : r.serial = e[i].serial => r.again
                    /\ \A j \in 1..Len(e) : (IsAnswer(e[j]) /\ e[j].serial = e[i].serial /\ ~e[j].again) => j <= i
  BY DEF Placed, AnswersPlaced, e
<1>2. CASE i = k
  BY <1>1, <1>2
<1>3. CASE i \in 1..Len(d)
  <2>1. IsAnswer(d[i]) /\ e[i] = d[i]
    BY <1>1, <1>3
  <2>2. \A j \in 1..Len(e) : (IsAnswer(e[j]) /\ e[j].serial = e[i].serial /\ ~e[j].again) => j <= i
    <3> SUFFICES ASSUME NEW j \in 1..Len(e), IsAnswer(e[j]), e[j].serial = e[i].serial, ~e[j].again PROVE j <= i
      OBVIOUS
    <3>1. CASE j \in 1..Len(d)
      BY <1>1, <1>3, <2>1, <3>1 DEF Placed, AnswersPlaced
    <3>2. CASE j = k
      BY <1>1, <1>3, <2>1, <3>2
    <3> QED BY <1>1, <3>1, <3>2
  <2> QED BY <1>3, <2>1, <2>2 DEF Placed, AnswersPlaced
<1> QED BY <1>1, <1>2, <1>3

\* Promises stay what they were for; a request is sent under a new serial.
LEMMA PlacedKept ==
  ASSUME NEW u, NEW l, NEW d, NEW p, NEW q, Placed(u, l, d, p),
         Len(p) \in Nat, Len(q) \in Nat, Len(p) <= Len(q), \A s \in 1..Len(p) : q[s].kind = p[s].kind
  PROVE  Placed(u, l, d, q)
<1>1. \A s \in 1..Len(p) : s \in 1..Len(q)
  OBVIOUS
<1> QED BY <1>1 DEF Placed, RequestsPlaced, WaitingPlaced, AnswersPlaced

LEMMA PlacedSent ==
  ASSUME NEW u \in Seq(RequestMessages), NEW l, NEW d, NEW p, NEW q, Placed(u, l, d, p),
         Len(p) \in Nat, Len(q) = Len(p) + 1, \A s \in 1..Len(p) : q[s].kind = p[s].kind,
         NEW m \in RequestMessages, m.serial = Len(p) + 1, ~m.again, m.kind = q[m.serial].kind
  PROVE  Placed(Append(u, m), l, d, q)
<1>1. \A s \in 1..Len(p) : s # Len(p) + 1
  OBVIOUS
<1>2. Placed(u, l, d, q)
  BY PlacedKept
<1> DEFINE v == Append(u, m)
           k == Len(u) + 1
<1>3. /\ Len(u) \in Nat /\ Len(v) = k /\ v[k] = m /\ \A i \in 1..Len(u) : v[i] = u[i] /\ i # k
      /\ \A i \in 1..Len(v) : i \in 1..Len(u) \/ i = k
  OBVIOUS
<1>4. m.serial \in 1..Len(q)
  OBVIOUS
<1> HIDE DEF v, k
<1>5. \A i \in 1..Len(u) : u[i].serial # m.serial
  BY <1>1 DEF Placed, RequestsPlaced
<1>6. RequestsPlaced(v, q)
  <2>1. ASSUME NEW i \in 1..Len(v)
        PROVE  ~v[i].again /\ v[i].serial \in 1..Len(q) /\ v[i].kind = q[v[i].serial].kind
    <3>1. CASE i \in 1..Len(u)
      BY <1>2, <1>3, <3>1 DEF Placed, RequestsPlaced
    <3>2. CASE i = k
      BY <1>3, <1>4, <3>2
    <3> QED BY <1>3, <3>1, <3>2
  <2>2. ASSUME NEW i \in 1..Len(v), NEW j \in 1..Len(v), v[i].serial = v[j].serial
        PROVE  i = j
    <3>1. CASE i \in 1..Len(u) /\ j \in 1..Len(u)
      BY <1>2, <1>3, <2>2, <3>1 DEF Placed, RequestsPlaced
    <3>2. CASE i \in 1..Len(u) /\ j = k
      BY <1>3, <1>5, <2>2, <3>2
    <3>3. CASE i = k /\ j \in 1..Len(u)
      BY <1>3, <1>5, <2>2, <3>3
    <3> QED BY <1>3, <3>1, <3>2, <3>3
  <2> QED BY <2>1, <2>2 DEF RequestsPlaced
<1>7. WaitingPlaced(v, l, q)
  <2>1. \A r \in l : r.serial # m.serial
    BY <1>1 DEF Placed, WaitingPlaced
  <2> QED BY <1>2, <1>3, <2>1 DEF Placed, WaitingPlaced
<1>8. AnswersPlaced(v, l, d, q)
  <2>1. \A i \in 1..Len(d) : IsAnswer(d[i]) => d[i].serial # m.serial
    BY <1>1 DEF Placed, AnswersPlaced
  <2> QED BY <1>2, <1>3, <2>1 DEF Placed, AnswersPlaced
<1> QED BY <1>6, <1>7, <1>8 DEF Placed, v

\* What is on its way and the table: no other promise has its id, unless it was redrawn; the
\* first of a promise, request or answer, finds it under its id; and unless a device dropped
\* it, a promise that is not settled has one.
Meet ==
  \A r \in InFlight : r.id \in DOMAIN requests => \/ requests[r.id] = r.serial
                                                   \/ promise[requests[r.id]].redrawn

FirstMeets ==
  \A r \in InFlight : (~r.again /\ ~promise[r.serial].redrawn) =>
     r.id \in DOMAIN requests /\ requests[r.id] = r.serial

Remembered ==
  socket = "open" => \A s \in 1..Len(promise) \ Dropped :
     (promise[s].state = "pending" /\ promise[s].kind # "describe" /\ ~promise[s].redrawn) =>
        \E r \in InFlight : r.serial = s /\ ~r.again

RequestInv == Placed(up, later, down, promise) /\ Meet /\ FirstMeets /\ Remembered

\* The serial of whatever is on its way is that of a promise.
LEMMA FlyingSerials ==
  ASSUME Types, RequestInv, NEW r \in InFlight PROVE r.serial \in 1..Len(promise)
<1>1. r \in Flying(up, later, down)
  BY FlyingNow
<1> QED BY <1>1 DEF Flying, RequestInv, Placed, RequestsPlaced, WaitingPlaced, AnswersPlaced

LEMMA RequestInit == Init => RequestInv
<1> SUFFICES ASSUME Init PROVE RequestInv
  OBVIOUS
<1>1. Types
  BY TypesInit
<1>2. PICK list : down = <<[kind |-> "nodes", changes |-> list]>>
  BY InitFacts
<1> DEFINE m == [kind |-> "nodes", changes |-> list]
<1>3. down = <<m>> /\ ~IsAnswer(m)
  BY <1>2 DEF IsAnswer, AnswerKinds
<1> HIDE DEF m
<1>4. \A i \in 1..Len(down) : ~IsAnswer(down[i])
  BY <1>3
<1>5. up = <<>> /\ later = {} /\ promise = <<>>
  BY DEF Init
<1>6. Placed(up, later, down, promise)
  BY <1>4, <1>5 DEF Placed, RequestsPlaced, WaitingPlaced, AnswersPlaced
<1>7. InFlight = {}
  BY <1>1, <1>4, <1>5, FlyingNow DEF Flying
<1> QED BY <1>5, <1>6, <1>7 DEF RequestInv, Meet, FirstMeets, Remembered

\* What the server does with one request: others stay, and what stands for it afterwards.
Passed(h, S) ==
  /\ \A q \in S : q.id = h.id /\ q.serial = h.serial /\ (~q.again => ~h.again)
  /\ ~h.again => \/ \E q \in S : ~q.again
                 \/ h.serial \in Dropped'
                 \/ promise[h.serial].kind = "describe"

LEMMA Passing ==
  ASSUME Meet, FirstMeets, Remembered, UNCHANGED <<socket, requests, promise>>, Dropped \subseteq Dropped',
         NEW R, NEW h, NEW S, InFlight = R \cup {h}, InFlight' = R \cup S, Passed(h, S)
  PROVE  Meet' /\ FirstMeets' /\ Remembered'
<1>1. Meet'
  BY DEF Meet, Passed
<1>2. FirstMeets'
  BY DEF FirstMeets, Passed
<1>3. Remembered'
  BY DEF Remembered, Passed
<1> QED BY <1>1, <1>2, <1>3

LEMMA Staying ==
  ASSUME Meet, FirstMeets, Remembered, UNCHANGED <<socket, requests, promise>>, Dropped \subseteq Dropped',
         InFlight' = InFlight
  PROVE  Meet' /\ FirstMeets' /\ Remembered'
BY DEF Meet, FirstMeets, Remembered

\* A request whose answer is written at once.
LEMMA AnsweredAtOnce ==
  ASSUME Types, Types', RequestInv, NEW kind, Handle(kind), kind \in RequestKinds,
         NEW answer \in AnswerKinds, down' = Append(down, Answer(answer, Head(up))),
         answer = "description" => kind = "describe",
         UNCHANGED <<socket, requests, promise, later>>
  PROVE  RequestInv'
<1> DEFINE h == Head(up)
           a == Answer(answer, h)
<1>1. /\ up \in Seq(RequestMessages) /\ down \in Seq(DownMessages) /\ up # <<>> /\ up' = Tail(up)
      /\ h \in RequestMessages /\ h = up[1] /\ 1 \in 1..Len(up) /\ h.kind = kind
  BY HandleFacts DEF Types, ChannelTypes
<1>2. a \in DownMessages /\ a.kind = answer /\ a.id = h.id /\ a.serial = h.serial /\ a.again = h.again /\ IsAnswer(a)
  BY <1>1, AnswerMessage DEF IsAnswer
<1>3. down' = Append(down, a)
  OBVIOUS
<1> HIDE DEF a
<1>4. /\ ~h.again /\ h.serial \in 1..Len(promise) /\ h.kind = promise[h.serial].kind
      /\ \A q \in later : q.serial # h.serial
      /\ \A i \in 1..Len(down) : IsAnswer(down[i]) => down[i].serial # h.serial
  BY <1>1 DEF RequestInv, Placed, RequestsPlaced, WaitingPlaced, AnswersPlaced
<1> HIDE DEF h
<1>5. Placed(up', later, down, promise) /\ \A i \in 1..Len(up') : up'[i].serial # h.serial
  BY <1>1, PlacedLess DEF RequestInv, h
<1>6. Placed(up', later, Append(down, a), promise)
  BY <1>1, <1>2, <1>4, <1>5, PlacedWritten
<1>7. Placed(up', later', down', promise')
  BY <1>3, <1>6
<1> DEFINE R == Flying(up', later, down)
<1>8. InFlight = R \cup {h}
  BY <1>1, FlyingNow, FlyingHandled DEF h
<1>9. InFlight' = R \cup {a}
  <2>1. Flying(up', later, Append(down, a)) = R \cup {a}
    BY <1>1, <1>2, FlyingWritten
  <2> QED BY <1>3, <2>1, FlyingNow
<1> HIDE DEF R
<1>10. Passed(h, {a}) /\ Dropped \subseteq Dropped'
  BY <1>2 DEF Passed, Dropped
<1> QED BY <1>7, <1>8, <1>9, <1>10, Passing DEF RequestInv

LEMMA DescriptionDropped ==
  ASSUME Types, Types', RequestInv, Handle("describe"), down' = down,
         UNCHANGED <<socket, requests, promise, later>>
  PROVE  RequestInv'
<1> DEFINE h == Head(up)
           R == Flying(up', later, down)
<1>1. /\ up \in Seq(RequestMessages) /\ up # <<>> /\ up' = Tail(up) /\ down \in Seq(DownMessages)
      /\ h = up[1] /\ 1 \in 1..Len(up) /\ h.kind = "describe"
  BY HandleFacts DEF Types, ChannelTypes
<1>2. promise[h.serial].kind = "describe"
  BY <1>1 DEF RequestInv, Placed, RequestsPlaced
<1>3. Placed(up', later', down', promise')
  BY <1>1, PlacedLess DEF RequestInv
<1>4. InFlight = R \cup {h} /\ InFlight' = R \cup {}
  BY <1>1, FlyingNow, FlyingHandled
<1>5. Passed(h, {}) /\ Dropped \subseteq Dropped'
  BY <1>2 DEF Passed, Dropped
<1> HIDE DEF h, R
<1> QED BY <1>3, <1>4, <1>5, Passing DEF RequestInv

LEMMA DeviceRequests ==
  ASSUME Types, Types', RequestInv, HandleDevice PROVE RequestInv'
<1> DEFINE h == Head(up)
<1>1. /\ up \in Seq(RequestMessages) /\ down \in Seq(DownMessages) /\ up # <<>> /\ up' = Tail(up)
      /\ h = up[1] /\ 1 \in 1..Len(up) /\ h.kind = "device" /\ later' = later \cup {h}
      /\ UNCHANGED <<socket, requests, promise, down>>
  BY HandleFacts DEF Types, ChannelTypes, HandleDevice, clientVars
<1>2. /\ h.serial \in 1..Len(promise) /\ \A q \in later : q.serial # h.serial
      /\ \A i \in 1..Len(down) : IsAnswer(down[i]) => down[i].serial # h.serial
  BY <1>1 DEF RequestInv, Placed, RequestsPlaced, WaitingPlaced, AnswersPlaced
<1>3. Placed(up', later, down, promise) /\ \A i \in 1..Len(up') : up'[i].serial # h.serial
  BY <1>1, PlacedLess DEF RequestInv
<1> HIDE DEF h
<1>4. Placed(up', later \cup {h}, down, promise)
  BY <1>1, <1>2, <1>3, PlacedWaiting
<1>5. Placed(up', later', down', promise')
  BY <1>1, <1>4
<1>6. InFlight' = InFlight
  <2>1. InFlight = Flying(up', later, down) \cup {h}
    BY <1>1, FlyingNow, FlyingHandled DEF h
  <2>2. Flying(up', later \cup {h}, down) = Flying(up', later, down) \cup {h}
    BY <1>1, FlyingWaits
  <2> QED BY <1>1, <2>1, <2>2, FlyingNow
<1>7. Dropped \subseteq Dropped'
  BY <1>1 DEF Dropped
<1> QED BY <1>1, <1>5, <1>6, <1>7, Staying DEF RequestInv

\* A request that waits for a device leaves it: others are where they were.
LEMMA WaitingTaken ==
  ASSUME Types, RequestInv, NEW r \in later, r.kind = "device"
  PROVE  /\ r.serial \in 1..Len(promise) /\ Placed(up, later \ {r}, down, promise)
         /\ \A q \in later \ {r} : q.serial # r.serial
         /\ \A i \in 1..Len(up) : up[i].serial # r.serial
         /\ \A i \in 1..Len(down) : (IsAnswer(down[i]) /\ down[i].serial = r.serial) => r.again
         /\ InFlight = Flying(up, later \ {r}, down) \cup {r}
<1>1. up \in Seq(RequestMessages) /\ down \in Seq(DownMessages)
  BY DEF Types, ChannelTypes
<1>2. Placed(up, later, down, promise)
  BY DEF RequestInv
<1>3. Placed(up, later \ {r}, down, promise)
  BY <1>1, <1>2, PlacedLess
<1>4. later = (later \ {r}) \cup {r}
  OBVIOUS
<1>5. Flying(up, (later \ {r}) \cup {r}, down) = Flying(up, later \ {r}, down) \cup {r}
  BY FlyingWaits
<1> QED BY <1>2, <1>3, <1>4, <1>5, FlyingNow DEF Placed, WaitingPlaced, AnswersPlaced

LEMMA LaterRequests ==
  ASSUME Types, Types', RequestInv, NEW r \in later, AnswerLater(r) \/ RefuseLater(r) PROVE RequestInv'
<1> DEFINE l == later \ {r}
           R == Flying(up, l, down)
           t == [r EXCEPT !.again = TRUE]
<1>1. /\ r \in RequestMessages /\ r.kind = "device" /\ UNCHANGED <<socket, requests, promise, up>>
      /\ up \in Seq(RequestMessages) /\ down \in Seq(DownMessages)
  BY DEF Types, ChannelTypes, ServerTypes, AnswerLater, RefuseLater, clientVars
<1>2. PICK answer \in {"completed", "error"} :
        /\ down' = Append(down, Answer(answer, r))
        /\ later' = l \/ later' = l \cup {t}
  BY DEF AnswerLater, RefuseLater
<1> DEFINE a == Answer(answer, r)
<1>3. /\ a \in DownMessages /\ IsAnswer(a) /\ a.kind # "description"
      /\ a.id = r.id /\ a.serial = r.serial /\ a.again = r.again
  BY <1>1, AnswerMessage DEF IsAnswer, AnswerKinds
<1>4. down' = Append(down, a)
  BY <1>2
<1> HIDE DEF a
<1>5. t.id = r.id /\ t.serial = r.serial /\ t.again /\ t.kind = "device" /\ t \in RequestMessages
  BY <1>1 DEF RequestMessages
<1> HIDE DEF t
<1>6. /\ r.serial \in 1..Len(promise) /\ Placed(up, l, down, promise) /\ \A q \in l : q.serial # r.serial
      /\ \A i \in 1..Len(up) : up[i].serial # r.serial
      /\ \A i \in 1..Len(down) : (IsAnswer(down[i]) /\ down[i].serial = r.serial) => r.again
      /\ InFlight = R \cup {r}
  BY <1>1, WaitingTaken
<1>7. Placed(up, l, down', promise)
  BY <1>1, <1>3, <1>4, <1>6, PlacedWritten
<1>8. down' \in Seq(DownMessages)
  BY <1>1, <1>3, <1>4
<1>9. Placed(up, l \cup {t}, down', promise)
  BY <1>5, <1>6, <1>7, PlacedWaiting
<1>10. Placed(up', later', down', promise')
  BY <1>1, <1>2, <1>7, <1>9
<1>11. Flying(up, l, down') = R \cup {a}
  BY <1>1, <1>3, <1>4, FlyingWritten
<1>12. Flying(up, l \cup {t}, down') = R \cup {a} \cup {t}
  <2>1. Flying(up, l \cup {t}, down') = Flying(up, l, down') \cup {t}
    BY <1>5, FlyingWaits
  <2> QED BY <1>11, <2>1
<1>13. Dropped \subseteq Dropped'
  BY <1>1, <1>2 DEF Dropped
<1>14. InFlight' = R \cup {a} \/ InFlight' = R \cup {a, t}
  <2>1. InFlight' = Flying(up', later', down')
    BY FlyingNow
  <2> QED BY <1>1, <1>2, <1>11, <1>12, <2>1
<1>15. Passed(r, {a}) /\ Passed(r, {a, t})
  BY <1>3, <1>5 DEF Passed
<1> HIDE DEF R, l
<1>16. Meet' /\ FirstMeets' /\ Remembered'
  <2>1. CASE InFlight' = R \cup {a}
    BY <1>1, <1>6, <1>13, <1>15, <2>1, Passing DEF RequestInv
  <2>2. CASE InFlight' = R \cup {a, t}
    BY <1>1, <1>6, <1>13, <1>15, <2>2, Passing DEF RequestInv
  <2> QED BY <1>14, <2>1, <2>2
<1> QED BY <1>10, <1>16 DEF RequestInv

LEMMA DropRequests ==
  ASSUME Types, Types', RequestInv, NEW r \in later, DropLater(r) PROVE RequestInv'
<1> DEFINE l == later \ {r}
           R == Flying(up, l, down)
           t == [r EXCEPT !.kind = "dropped"]
<1>1. /\ r \in RequestMessages /\ r.kind = "device" /\ ~r.again /\ later' = l \cup {t}
      /\ UNCHANGED <<socket, requests, promise, up, down>>
      /\ up \in Seq(RequestMessages) /\ down \in Seq(DownMessages)
  BY DEF Types, ChannelTypes, ServerTypes, DropLater, clientVars
<1>2. t.serial = r.serial /\ t.kind = "dropped" /\ t.again = r.again
  BY <1>1 DEF RequestMessages
<1> HIDE DEF t
<1>3. /\ r.serial \in 1..Len(promise) /\ Placed(up, l, down, promise) /\ \A q \in l : q.serial # r.serial
      /\ \A i \in 1..Len(up) : up[i].serial # r.serial
      /\ \A i \in 1..Len(down) : (IsAnswer(down[i]) /\ down[i].serial = r.serial) => r.again
      /\ InFlight = R \cup {r}
  BY <1>1, WaitingTaken
<1>4. Placed(up, l \cup {t}, down, promise)
  BY <1>2, <1>3, PlacedWaiting
<1>5. Placed(up', later', down', promise')
  BY <1>1, <1>4
<1>6. InFlight' = R \cup {}
  <2>1. Flying(up, l \cup {t}, down) = R
    BY <1>2, FlyingWaits
  <2> QED BY <1>1, <2>1, FlyingNow
<1>7. Dropped \subseteq Dropped' /\ r.serial \in Dropped'
  BY <1>1, <1>2 DEF Dropped
<1>8. Passed(r, {})
  BY <1>7 DEF Passed
<1> HIDE DEF R, l
<1> QED BY <1>1, <1>3, <1>5, <1>6, <1>7, <1>8, Passing DEF RequestInv

\* Request and _gen_request_id: an id that is not in the table is not that of a first answer on
\* its way; it may be that of a second one, and then the promise is marked.
LEMMA SentRequests ==
  ASSUME Types, Types', RequestInv, UNCHANGED <<socket, later, down>>,
         NEW kind \in RequestKinds, NEW target \in Ids, NEW flags \in SUBSET Flags,
         Send(kind, target, flags)
  PROVE  RequestInv'
<1>1. /\ up \in Seq(RequestMessages) /\ down \in Seq(DownMessages) /\ promise \in Seq(Promises)
      /\ Len(promise) \in Nat /\ DOMAIN requests \subseteq RequestIds
  BY DEF Types, ClientTypes, ChannelTypes
<1>2. PICK id : Sent(kind, target, flags, id)
  BY SendFacts DEF Types, ChannelTypes
<1> DEFINE s == Len(promise) + 1
           p == [kind |-> kind, state |-> "pending", redrawn |-> Redrawn(id)]
           m == [kind |-> kind, id |-> id, serial |-> s, again |-> FALSE, target |-> target, flags |-> flags]
<1>3. /\ id \in RequestIds \ DOMAIN requests /\ requests'[id] = s
      /\ DOMAIN requests' = DOMAIN requests \cup {id}
      /\ \A i \in DOMAIN requests : requests'[i] = requests[i]
      /\ promise' = Append(promise, p) /\ up' = IF socket = "closed" THEN up ELSE Append(up, m)
  BY <1>2 DEF Sent
<1>4. p \in Promises /\ p.kind = kind /\ p.state = "pending" /\ (p.redrawn <=> Redrawn(id))
  <2>1. Redrawn(id) \in BOOLEAN
    BY DEF Redrawn
  <2> QED BY <2>1 DEF Promises
<1>5. m \in RequestMessages /\ m.id = id /\ m.serial = s /\ ~m.again /\ m.kind = kind
  BY <1>1, <1>3 DEF RequestMessages
<1> HIDE DEF m, p
<1>6. /\ Len(promise') = s /\ s \in Nat /\ promise'[s] = p
      /\ \A x \in 1..Len(promise) : promise'[x] = promise[x] /\ x # s /\ x \in 1..s
      /\ \A x \in 1..s : x \in 1..Len(promise) \/ x = s
  BY <1>1, <1>3, <1>4
<1>7. Placed(up', later', down', promise')
  <2>1. \A x \in 1..Len(promise) : promise'[x].kind = promise[x].kind
    BY <1>6
  <2>2. Placed(up, later, down, promise')
    BY <1>1, <1>6, <2>1, PlacedKept DEF RequestInv
  <2>3. Placed(Append(up, m), later, down, promise')
    <3>1. m.serial = Len(promise) + 1 /\ Len(promise') = Len(promise) + 1 /\ m.kind = promise'[m.serial].kind
      BY <1>4, <1>5, <1>6
    <3> QED BY <1>1, <1>5, <1>6, <2>1, <3>1, PlacedSent DEF RequestInv
  <2> QED BY <1>3, <2>2, <2>3
<1>8. InFlight' = IF socket = "closed" THEN InFlight ELSE InFlight \cup {m}
  <2>1. InFlight = Flying(up, later, down) /\ InFlight' = Flying(up', later', down')
    BY FlyingNow
  <2>2. Flying(Append(up, m), later, down) = Flying(up, later, down) \cup {m}
    BY <1>1, <1>5, FlyingSent
  <2> QED BY <1>3, <2>1, <2>2
<1>9. \A r \in InFlight : r.serial \in 1..Len(promise)
  BY FlyingSerials
<1>10. \A r \in InFlight : r.id = id => p.redrawn
  <2> SUFFICES ASSUME NEW r \in InFlight, r.id = id PROVE Redrawn(id)
    BY <1>4
  <2>1. r.again \/ promise[r.serial].redrawn
    BY <1>3 DEF RequestInv, FirstMeets
  <2> QED BY <2>1 DEF Redrawn
<1> HIDE DEF s
<1>11. Meet'
  <2> SUFFICES ASSUME NEW r \in InFlight', r.id \in DOMAIN requests'
               PROVE  requests'[r.id] = r.serial \/ promise'[requests'[r.id]].redrawn
    BY DEF Meet
  <2>1. CASE r \in InFlight /\ r.id = id
    BY <1>3, <1>6, <1>10, <2>1
  <2>2. CASE r \in InFlight /\ r.id # id
    <3>1. r.id \in DOMAIN requests /\ requests'[r.id] = requests[r.id]
      BY <1>3, <2>2
    <3>2. requests[r.id] \in 1..Len(promise)
      BY <3>1 DEF Types, ClientTypes
    <3> QED BY <1>6, <2>2, <3>1, <3>2 DEF RequestInv, Meet
  <2>3. CASE r = m
    BY <1>3, <1>5, <2>3
  <2> QED BY <1>8, <2>1, <2>2, <2>3
<1>12. FirstMeets'
  <2> SUFFICES ASSUME NEW r \in InFlight', ~r.again, ~promise'[r.serial].redrawn
               PROVE  r.id \in DOMAIN requests' /\ requests'[r.id] = r.serial
    BY DEF FirstMeets
  <2>1. CASE r \in InFlight
    <3>1. promise'[r.serial] = promise[r.serial]
      BY <1>6, <1>9, <2>1
    <3> QED BY <1>3, <2>1, <3>1 DEF RequestInv, FirstMeets
  <2>2. CASE r = m
    BY <1>3, <1>5, <2>2
  <2> QED BY <1>8, <2>1, <2>2
<1>13. Remembered'
  <2> SUFFICES ASSUME socket' = "open", NEW x \in 1..Len(promise') \ Dropped',
                      promise'[x].state = "pending", promise'[x].kind # "describe", ~promise'[x].redrawn
               PROVE  \E r \in InFlight' : r.serial = x /\ ~r.again
    BY DEF Remembered
  <2>1. InFlight' = InFlight \cup {m} /\ socket = "open" /\ Dropped' = Dropped
    BY <1>8 DEF Dropped
  <2>2. CASE x = s
    BY <1>5, <2>1, <2>2
  <2>3. CASE x \in 1..Len(promise)
    <3>1. promise'[x] = promise[x]
      BY <1>6, <2>3
    <3>2. \E r \in InFlight : r.serial = x /\ ~r.again
      BY <2>1, <2>3, <3>1 DEF RequestInv, Remembered
    <3> QED BY <2>1, <3>2
  <2> QED BY <1>6, <2>2, <2>3
<1> QED BY <1>7, <1>11, <1>12, <1>13 DEF RequestInv

\* Nothing that a request depends on is changed.
LEMMA QuietRequests ==
  ASSUME Types, Types', RequestInv, UNCHANGED <<socket, requests, promise, up, later>>,
         Placed(up, later, down', promise), InFlight' = InFlight
  PROVE  RequestInv'
<1>1. Dropped' = Dropped
  BY DEF Dropped
<1>2. Meet' /\ FirstMeets' /\ Remembered'
  BY <1>1, Staying DEF RequestInv
<1>3. Placed(up', later', down', promise')
  OBVIOUS
<1> QED BY <1>2, <1>3 DEF RequestInv

LEMMA UnchangedRequests ==
  ASSUME Types, Types', RequestInv, UNCHANGED <<socket, requests, promise, up, down, later>> PROVE RequestInv'
<1>1. InFlight' = InFlight
  BY DEF InFlight
<1> QED BY <1>1, QuietRequests DEF RequestInv

LEMMA ApplicationRequests ==
  ASSUME Types, Types', RequestInv, Application PROVE RequestInv'
<1>1. Calls /\ UNCHANGED <<socket, down, later>>
  BY ApplicationFacts
<1>2. CASE UNCHANGED <<up, requests, promise>>
  BY <1>1, <1>2, UnchangedRequests
<1>3. CASE ~UNCHANGED <<up, requests, promise>>
  <2>1. PICK kind \in RequestKinds, target \in Ids, flags \in SUBSET Flags : Send(kind, target, flags)
    BY <1>1, <1>3 DEF Calls
  <2> QED BY <1>1, <2>1, SentRequests
<1> QED BY <1>2, <1>3

\* An answer frees its id: nothing else on its way was the first of the promise that had it.
LEMMA AnswerRequests ==
  ASSUME Types, Types', RequestInv, OnAnswer PROVE RequestInv'
<1> DEFINE m == Head(down)
           outcome == [completed |-> "resolved", error |-> "rejected", description |-> "pending"]
           R == Flying(up, later, Tail(down))
<1>1. /\ up \in Seq(RequestMessages) /\ down \in Seq(DownMessages) /\ down # <<>> /\ down' = Tail(down)
      /\ m = down[1] /\ 1 \in 1..Len(down) /\ UNCHANGED <<socket, up, later>>
  BY ReceiveFacts DEF OnAnswer, Types, ChannelTypes, serverVars
<1>2. /\ m \in Answers
      /\ promise' \in Seq(Promises) /\ Len(promise') = Len(promise)
      /\ DOMAIN requests' = DOMAIN requests \ {m.id}
      /\ \A i \in DOMAIN requests' : requests'[i] = requests[i]
      /\ \A s \in 1..Len(promise) :
           /\ promise'[s].kind = promise[s].kind /\ promise'[s].redrawn = promise[s].redrawn
           /\ ~ (m.id \in DOMAIN requests /\ s = requests[m.id]) => promise'[s] = promise[s]
           /\ m.id \in DOMAIN requests /\ s = requests[m.id] => promise'[s].state = outcome[m.kind]
  BY AnswerFacts
<1>3. IsAnswer(m) /\ m.kind \in AnswerKinds
  BY <1>2 DEF Answers, IsAnswer
<1>4. m.kind # "description" => outcome[m.kind] # "pending"
  BY <1>3 DEF AnswerKinds
<1>5. /\ m.serial \in 1..Len(promise) /\ (m.kind = "description" => promise[m.serial].kind = "describe")
      /\ \A i \in 1..Len(up) : up[i].serial # m.serial
      /\ \A r \in later : r.serial = m.serial => r.again
  BY <1>1, <1>3 DEF RequestInv, Placed, AnswersPlaced
<1>6. InFlight = R \cup {m} /\ InFlight' = R
  BY <1>1, <1>3, FlyingNow, FlyingTaken
<1>7. Placed(up', later', down', promise')
  <2>1. Placed(up, later, Tail(down), promise)
    BY <1>1, PlacedLess DEF RequestInv
  <2>2. Len(promise) \in Nat
    BY DEF Types, ClientTypes
  <2> QED BY <1>1, <1>2, <2>1, <2>2, PlacedKept
<1>8. \A r \in InFlight : r.serial \in 1..Len(promise)
  BY FlyingSerials
\* What stays and is the first of its promise has another id.
<1>9. ASSUME NEW r \in R, ~r.again, ~promise[r.serial].redrawn PROVE r.id # m.id
  <2> SUFFICES ASSUME r.id = m.id PROVE FALSE
    OBVIOUS
  <2>1. m.id \in DOMAIN requests /\ requests[m.id] = r.serial
    BY <1>6, <1>9 DEF RequestInv, FirstMeets
  <2>2. m.serial = r.serial
    BY <1>6, <1>9, <2>1 DEF RequestInv, Meet
  <2>3. \A i \in 1..Len(Tail(down)) : i + 1 \in 1..Len(down) /\ Tail(down)[i] = down[i + 1] /\ ~(i + 1 <= 1)
    BY <1>1
  <2>4. PICK i \in 1..Len(Tail(down)) : IsAnswer(Tail(down)[i]) /\ r = Tail(down)[i]
    BY <1>5, <1>9, <2>2 DEF Flying
  <2> QED BY <1>1, <1>3, <1>9, <2>2, <2>3, <2>4 DEF RequestInv, Placed, AnswersPlaced
<1>10. Meet'
  <2> SUFFICES ASSUME NEW r \in R, r.id \in DOMAIN requests'
               PROVE  requests'[r.id] = r.serial \/ promise'[requests'[r.id]].redrawn
    BY <1>6 DEF Meet
  <2>1. r.id \in DOMAIN requests /\ requests'[r.id] = requests[r.id] /\ requests[r.id] \in 1..Len(promise)
    BY <1>2 DEF Types, ClientTypes
  <2> QED BY <1>2, <1>6, <2>1 DEF RequestInv, Meet
<1>11. FirstMeets'
  <2> SUFFICES ASSUME NEW r \in R, ~r.again, ~promise'[r.serial].redrawn
               PROVE  r.id \in DOMAIN requests' /\ requests'[r.id] = r.serial
    BY <1>6 DEF FirstMeets
  <2>1. ~promise[r.serial].redrawn
    BY <1>2, <1>6, <1>8
  <2> QED BY <1>2, <1>6, <1>9, <2>1 DEF RequestInv, FirstMeets
<1>12. Remembered'
  <2> SUFFICES ASSUME socket' = "open", NEW s \in 1..Len(promise') \ Dropped',
                      promise'[s].state = "pending", promise'[s].kind # "describe", ~promise'[s].redrawn
               PROVE  \E r \in R : r.serial = s /\ ~r.again
    BY <1>6 DEF Remembered
  <2>1. /\ socket = "open" /\ s \in 1..Len(promise) \ Dropped
        /\ promise[s].kind # "describe" /\ ~promise[s].redrawn
    BY <1>1, <1>2 DEF Dropped
  <2>2. ~(m.id \in DOMAIN requests /\ s = requests[m.id])
    <3> SUFFICES ASSUME m.id \in DOMAIN requests, s = requests[m.id] PROVE FALSE
      OBVIOUS
    <3>1. m.kind = "description"
      BY <1>2, <1>4, <2>1
    <3>2. m.serial = s
      BY <1>6, <2>1 DEF RequestInv, Meet
    <3> QED BY <1>5, <2>1, <3>1, <3>2
  <2>3. promise'[s] = promise[s]
    BY <1>2, <2>1, <2>2
  <2>4. PICK r \in InFlight : r.serial = s /\ ~r.again
    BY <2>1, <2>3 DEF RequestInv, Remembered
  <2>5. r # m
    BY <1>6, <2>1, <2>2, <2>4 DEF RequestInv, FirstMeets
  <2> QED BY <1>6, <2>4, <2>5
<1> QED BY <1>7, <1>10, <1>11, <1>12 DEF RequestInv

LEMMA NewsRequests ==
  ASSUME Types, Types', RequestInv, OnNodesChanged \/ OnVariablesChanged \/ OnEventsDescriptionsChanged
  PROVE  RequestInv'
<1>1. PICK kinds \in {{"nodes"}, {"variables"}, {"events"}} : Receive(kinds)
  BY DEF OnNodesChanged, OnVariablesChanged, OnEventsDescriptionsChanged
<1>2. UNCHANGED <<socket, requests, promise, up, later>>
  BY DEF OnNodesChanged, OnVariablesChanged, OnEventsDescriptionsChanged, serverVars
<1>3. down \in Seq(DownMessages) /\ down # <<>> /\ down' = Tail(down) /\ ~IsAnswer(Head(down))
  BY <1>1, ReceiveFacts DEF IsAnswer, AnswerKinds, Types, ChannelTypes
<1>4. up \in Seq(RequestMessages)
  BY DEF Types, ChannelTypes
<1>5. Placed(up, later, down', promise)
  BY <1>3, <1>4, PlacedLess DEF RequestInv
<1>6. InFlight' = InFlight
  BY <1>2, <1>3, FlyingNow, FlyingTaken
<1> QED BY <1>2, <1>5, <1>6, QuietRequests

LEMMA StrandRequests ==
  ASSUME Types, Types', RequestInv, RunStrand PROVE RequestInv'
<1>1. PICK g \in AllGroups : g \in GroupsOf(Head(strand)) /\ down' = Append(down, Written(Head(strand), g))
  BY StrandFacts
<1>2. UNCHANGED <<socket, requests, promise, up, later>> /\ Head(strand) \in Signals
  BY StrandFacts DEF clientVars, serverVars
<1> DEFINE m == Written(Head(strand), g)
<1>3. m \in DownMessages /\ ~IsAnswer(m)
  <2>1. CASE Head(strand).kind = "nodes"
    BY <1>2, <2>1, WrittenFacts DEF IsAnswer, AnswerKinds
  <2>2. CASE Head(strand).kind # "nodes"
    BY <1>2, <2>2, WrittenFacts DEF IsAnswer, AnswerKinds, Notices
  <2> QED BY <2>1, <2>2
<1>4. down' = Append(down, m) /\ down \in Seq(DownMessages)
  BY <1>1 DEF Types, ChannelTypes
<1> HIDE DEF m
<1>5. Placed(up, later, down', promise)
  BY <1>3, <1>4, PlacedWritten DEF RequestInv
<1>6. InFlight' = InFlight
  BY <1>2, <1>3, <1>4, FlyingNow, FlyingWritten
<1> QED BY <1>2, <1>5, <1>6, QuietRequests

LEMMA CloseRequests ==
  ASSUME Types, Types', RequestInv, OnClose PROVE RequestInv'
<1>1. up' = <<>> /\ down' = <<>> /\ later' = {} /\ socket' = "closed" /\ UNCHANGED <<requests, promise>>
  BY DEF OnClose
<1>2. InFlight' = {}
  BY <1>1, FlyingNow DEF Flying
<1>3. Placed(up', later', down', promise')
  BY <1>1 DEF Placed, RequestsPlaced, WaitingPlaced, AnswersPlaced
<1> QED BY <1>1, <1>2, <1>3 DEF RequestInv, Meet, FirstMeets, Remembered

LEMMA ReadRequests ==
  ASSUME Types, Types', RequestInv, HandleRead PROVE RequestInv'
<1>1. CASE WatchNodeOrGroup
  <2>1. Handle("watch") /\ UNCHANGED <<socket, requests, promise, later>>
    BY <1>1 DEF WatchNodeOrGroup, clientVars
  <2>2. \/ down' = Append(down, Answer("completed", Head(up)))
        \/ down' = Append(down, Answer("error", Head(up)))
    <3>1. CASE ServerGroup(Head(up).target) = {}
      <4>1. down' = down \o <<Answer("error", Head(up))>>
        BY <1>1, <3>1 DEF WatchNodeOrGroup, Refused
      <4>2. Answer("error", Head(up)) \in DownMessages /\ down \in Seq(DownMessages)
        BY <2>1, HandleFacts, AnswerMessage DEF AnswerKinds, Types, ChannelTypes
      <4> QED BY <4>1, <4>2
    <3>2. CASE ServerGroup(Head(up).target) # {}
      BY <1>1, <3>2 DEF WatchNodeOrGroup
    <3> QED BY <3>1, <3>2
  <2> QED BY <2>1, <2>2, AnsweredAtOnce DEF AnswerKinds, RequestKinds
<1>2. CASE SendAsebaVMDescription
  <2>1. Handle("describe") /\ UNCHANGED <<socket, requests, promise, later>>
    BY <1>2 DEF SendAsebaVMDescription, clientVars, serverVars
  <2>2. CASE down' = down
    BY <2>1, <2>2, DescriptionDropped
  <2>3. CASE down' = Append(down, Answer("description", Head(up)))
    BY <2>1, <2>3, AnsweredAtOnce DEF AnswerKinds, RequestKinds
  <2> QED BY <1>2, <2>2, <2>3 DEF SendAsebaVMDescription
<1>3. CASE HandleServer
  <2>1. /\ Handle("server") /\ UNCHANGED <<socket, requests, promise, later>>
        /\ \E kind \in {"completed", "error"} : down' = Append(down, Answer(kind, Head(up)))
    BY <1>3 DEF HandleServer, clientVars, serverVars
  <2> QED BY <2>1, AnsweredAtOnce DEF AnswerKinds, RequestKinds
<1> QED BY <1>1, <1>2, <1>3, DeviceRequests DEF HandleRead

LEMMA RequestInductive == Types /\ RequestInv /\ [Next]_vars => RequestInv'
<1> SUFFICES ASSUME Types, RequestInv, [Next]_vars PROVE RequestInv'
  OBVIOUS
<1>1. Types'
  BY TypesInductive
<1>2. CASE UNCHANGED vars
  BY <1>1, <1>2, UnchangedRequests DEF vars, clientVars, serverVars
<1>3. CASE OnMessage
  BY <1>1, <1>3, NewsRequests, AnswerRequests DEF OnMessage
<1>4. CASE Environment
  <2>1. UNCHANGED <<socket, requests, promise, up, down, later>>
    BY <1>4 DEF Environment, SetStatus, Disconnect, OwnVariablesChanged, Connect, AttachToEndpoint,
                SetSharedVariables, SetEventsTable, clientVars
  <2> QED BY <1>1, <2>1, UnchangedRequests
<1>5. CASE \E r \in later : AnswerLater(r) \/ RefuseLater(r) \/ DropLater(r)
  BY <1>1, <1>5, LaterRequests, DropRequests
<1> QED BY <1>1, <1>2, <1>3, <1>4, <1>5, ApplicationRequests, CloseRequests, ReadRequests, StrandRequests
        DEF Next

THEOREM RequestInvariance == Spec => []RequestInv
BY TypesInvariance, RequestInit, RequestInductive, PTL DEF Spec

\* No answer settles the promise of another request, however answers overtake each other, if
\* some are given twice and however often an id is drawn again; the first one finds its own.
\* Only a promise that took its id while the second answer to another was on its way, and is
\* marked for it, may be settled by what is not its answer, or be left.  The proof rests on
\* the place of each request: its first answer comes before the others, and as long as it is
\* to come its id is in the table and is not drawn.
THEOREM AnswersMeetTheirRequestsAlways == Spec => []AnswersMeetTheirRequests
<1>1. RequestInv => AnswersMeetTheirRequests
  BY DEF RequestInv, Meet, FirstMeets, AnswersMeetTheirRequests
<1> QED BY <1>1, RequestInvariance, PTL

\* As long as the connection is open, a promise that is not settled is in the table and its
\* own request, or the answer, is still on its way: no request but one for a description, or
\* one whose callback a device dropped, is forgotten on either side.
THEOREM NoneForgottenAlways == Spec => []NoneForgotten
<1>1. Types /\ RequestInv => NoneForgotten
  <2> SUFFICES ASSUME Types, RequestInv, socket = "open", NEW s \in DOMAIN promise \ Dropped,
                      promise[s].state = "pending", promise[s].kind # "describe", ~promise[s].redrawn
               PROVE  \E i \in DOMAIN requests : requests[i] = s /\ \E r \in InFlight : r.id = i /\ r.serial = s
    BY DEF NoneForgotten
  <2>1. s \in 1..Len(promise) \ Dropped
    BY DEF Types, ClientTypes
  <2>2. PICK r \in InFlight : r.serial = s /\ ~r.again
    BY <2>1 DEF RequestInv, Remembered
  <2>3. r.id \in DOMAIN requests /\ requests[r.id] = s
    BY <2>2 DEF RequestInv, FirstMeets
  <2> QED BY <2>2, <2>3
<1> QED BY <1>1, TypesInvariance, RequestInvariance, PTL

-----------------------------------------------------------------------------
(* The nodes of the client and those of the server *)

\* A signal on the strand is about a node, a message to the client mentions it.
About(m, n) == m.kind = "nodes" /\ m.node = n
Mentions(m, n) == m.kind = "nodes" /\ \E j \in 1..Len(m.changes) : m.changes[j].node = n

Silent(s, n) == \A i \in 1..Len(s) : ~About(s[i], n)
Unwritten(d, n) == \A i \in 1..Len(d) : ~Mentions(d[i], n)

\* A signal, an entry of a list and the table agree with the registration r of a node and
\* the number k of its connections.
SaysOf(m, r, k) == IF r.status = "absent" THEN m.status = "disconnected"
                   ELSE m.status = r.status /\ m.conn = k
EntrySays(e, r) == IF r.status = "absent" THEN e.status = "disconnected"
                   ELSE e.status = r.status /\ e.group = r.group
TableSays(ns, gs, n, r) == IF r.status = "absent" THEN n \notin DOMAIN ns
                           ELSE Shows(ns, gs, n, r.status, r.group)

\* The last signal about a node, and the last message that mentions it, agree with it.
LastSaid(s, n, r, k) ==
  \A i \in 1..Len(s) :
    About(s[i], n) /\ (\A j \in 1..Len(s) : j > i => ~About(s[j], n)) => SaysOf(s[i], r, k)
LastWritten(d, n, r) ==
  \A i \in 1..Len(d) :
    Mentions(d[i], n) /\ (\A j \in 1..Len(d) : j > i => ~Mentions(d[j], n)) =>
      \A j \in 1..Len(d[i].changes) : d[i].changes[j].node = n => EntrySays(d[i].changes[j], r)

\* What the client shows of a node it was told of: a client that has not listened from the
\* start may not know of it.
Told(h, ns, gs, n, r) == TableSays(ns, gs, n, r) \/ (h # "since" /\ n \notin DOMAIN ns)

\* A client that does not listen has no nodes.
Unheard == heard = "no" => DOMAIN nodes = {}

\* Of each node the latest news agrees with the registry: what is posted before what is
\* written, what is written before what the client shows.
NodesInv ==
  socket = "open" => \A n \in Nodes :
     /\ LastSaid(strand, n, registry[n], conn[n])
     /\ Silent(strand, n) => LastWritten(down, n, registry[n])
     /\ Silent(strand, n) /\ Unwritten(down, n) => Told(heard, nodes, groups, n, registry[n])

\* A signal is added that is about another node or none.
LEMMA SaidOfOthers ==
  ASSUME NEW s \in Seq(Signals), NEW more \in Seq(Signals), NEW n, NEW r, NEW k, Silent(more, n)
  PROVE  /\ LastSaid(s, n, r, k) => LastSaid(s \o more, n, r, k)
         /\ Silent(s \o more, n) <=> Silent(s, n)
<1> DEFINE t == s \o more
<1>1. /\ Len(s) \in Nat /\ Len(more) \in Nat /\ Len(t) = Len(s) + Len(more)
      /\ \A i \in 1..Len(s) : i \in 1..Len(t) /\ t[i] = s[i]
      /\ \A i \in 1..Len(t) : i \in 1..Len(s) \/ (i - Len(s) \in 1..Len(more) /\ t[i] = more[i - Len(s)])
  OBVIOUS
<1> HIDE DEF t
<1>2. \A i \in 1..Len(t) : About(t[i], n) => i \in 1..Len(s) /\ About(s[i], n)
  BY <1>1 DEF Silent
<1>3. Silent(t, n) <=> Silent(s, n)
  BY <1>1, <1>2 DEF Silent
<1>4. ASSUME LastSaid(s, n, r, k) PROVE LastSaid(t, n, r, k)
  <2> SUFFICES ASSUME NEW i \in 1..Len(t), About(t[i], n), \A j \in 1..Len(t) : j > i => ~About(t[j], n)
               PROVE  SaysOf(t[i], r, k)
    BY DEF LastSaid
  <2>1. i \in 1..Len(s) /\ t[i] = s[i] /\ About(s[i], n)
    BY <1>1, <1>2
  <2>2. \A j \in 1..Len(s) : j > i => ~About(s[j], n)
    BY <1>1
  <2> QED BY <1>4, <2>1, <2>2 DEF LastSaid
<1> QED BY <1>3, <1>4 DEF t

LEMMA NoticesSilent ==
  ASSUME NEW more \in Seq(Notices), NEW n PROVE Silent(more, n) /\ more \in Seq(Signals)
<1>1. \A i \in 1..Len(more) : more[i] \in Notices
  OBVIOUS
<1>2. \A m \in Notices : ~About(m, n) /\ m \in Signals
  BY DEF Notices, About, Signals
<1> QED BY <1>1, <1>2 DEF Silent

\* A signal about the node is added.
LEMMA SaidOfNode ==
  ASSUME NEW s \in Seq(Signals), NEW m \in Signals, NEW n, NEW r, NEW k, About(m, n), SaysOf(m, r, k)
  PROVE  LastSaid(Append(s, m), n, r, k) /\ ~Silent(Append(s, m), n)
<1> DEFINE t == Append(s, m)
<1>1. Len(s) \in Nat /\ Len(t) = Len(s) + 1 /\ t[Len(s) + 1] = m /\ Len(s) + 1 \in 1..Len(t)
  OBVIOUS
<1> HIDE DEF t
<1>2. ~Silent(t, n)
  BY <1>1 DEF Silent
<1>3. LastSaid(t, n, r, k)
  <2> SUFFICES ASSUME NEW i \in 1..Len(t), About(t[i], n), \A j \in 1..Len(t) : j > i => ~About(t[j], n)
               PROVE  SaysOf(t[i], r, k)
    BY DEF LastSaid
  <2>1. ~ (Len(s) + 1 > i)
    BY <1>1
  <2>2. i = Len(s) + 1
    BY <1>1, <2>1
  <2> QED BY <1>1, <2>2
<1> QED BY <1>2, <1>3 DEF t

\* The first signal is taken.
LEMMA SignalTaken ==
  ASSUME NEW s \in Seq(Signals), s # <<>>, NEW n, NEW r, NEW k, LastSaid(s, n, r, k)
  PROVE  /\ LastSaid(Tail(s), n, r, k)
         /\ ~About(Head(s), n) /\ Silent(Tail(s), n) => Silent(s, n)
         /\ About(Head(s), n) /\ Silent(Tail(s), n) => SaysOf(Head(s), r, k)
<1> DEFINE t == Tail(s)
           h == Head(s)
<1>1. /\ Len(s) \in Nat /\ Len(t) = Len(s) - 1 /\ 1 \in 1..Len(s) /\ h = s[1]
      /\ \A i \in 1..Len(t) : i + 1 \in 1..Len(s) /\ t[i] = s[i + 1]
  OBVIOUS
<1> HIDE DEF t, h
<1>2. ASSUME NEW i \in 1..Len(s), i # 1 PROVE i - 1 \in 1..Len(t) /\ t[i - 1] = s[i]
  <2>1. i - 1 \in 1..Len(t) /\ (i - 1) + 1 = i
    BY <1>1, <1>2
  <2> QED BY <1>1, <2>1
<1>3. LastSaid(t, n, r, k)
  <2> SUFFICES ASSUME NEW i \in 1..Len(t), About(t[i], n), \A j \in 1..Len(t) : j > i => ~About(t[j], n)
               PROVE  SaysOf(t[i], r, k)
    BY DEF LastSaid
  <2>1. i + 1 \in 1..Len(s) /\ t[i] = s[i + 1] /\ About(s[i + 1], n)
    BY <1>1
  <2>2. ASSUME NEW j \in 1..Len(s), j > i + 1 PROVE ~About(s[j], n)
    <3>1. j - 1 \in 1..Len(t) /\ t[j - 1] = s[j] /\ j - 1 > i
      BY <1>1, <1>2, <2>2
    <3> QED BY <3>1
  <2> QED BY <2>1, <2>2 DEF LastSaid
<1>4. ASSUME Silent(t, n) PROVE \A i \in 1..Len(s) : i # 1 => ~About(s[i], n)
  BY <1>2, <1>4 DEF Silent
<1>5. ~About(h, n) /\ Silent(t, n) => Silent(s, n)
  BY <1>1, <1>4 DEF Silent
<1>6. ASSUME About(h, n), Silent(t, n) PROVE SaysOf(h, r, k)
  <2>1. \A j \in 1..Len(s) : j > 1 => ~About(s[j], n)
    BY <1>4, <1>6
  <2> QED BY <1>1, <1>6, <2>1 DEF LastSaid
<1> QED BY <1>3, <1>5, <1>6 DEF t, h
\* A message is written that does not mention the node.
LEMMA WrittenOfOthers ==
  ASSUME NEW d \in Seq(DownMessages), NEW w \in DownMessages, NEW n, NEW r, ~Mentions(w, n)
  PROVE  /\ LastWritten(d, n, r) => LastWritten(Append(d, w), n, r)
         /\ Unwritten(Append(d, w), n) <=> Unwritten(d, n)
<1> DEFINE t == Append(d, w)
<1>1. /\ Len(d) \in Nat /\ Len(t) = Len(d) + 1 /\ t[Len(d) + 1] = w
      /\ \A i \in 1..Len(d) : i \in 1..Len(t) /\ t[i] = d[i]
      /\ \A i \in 1..Len(t) : i \in 1..Len(d) \/ i = Len(d) + 1
  OBVIOUS
<1> HIDE DEF t
<1>2. \A i \in 1..Len(t) : Mentions(t[i], n) => i \in 1..Len(d) /\ Mentions(d[i], n)
  BY <1>1
<1>3. Unwritten(t, n) <=> Unwritten(d, n)
  BY <1>1, <1>2 DEF Unwritten
<1>4. ASSUME LastWritten(d, n, r) PROVE LastWritten(t, n, r)
  <2> SUFFICES ASSUME NEW i \in 1..Len(t), Mentions(t[i], n), \A j \in 1..Len(t) : j > i => ~Mentions(t[j], n)
               PROVE  \A j \in 1..Len(t[i].changes) : t[i].changes[j].node = n => EntrySays(t[i].changes[j], r)
    BY DEF LastWritten
  <2>1. i \in 1..Len(d) /\ t[i] = d[i] /\ Mentions(d[i], n)
    BY <1>1, <1>2
  <2>2. \A j \in 1..Len(d) : j > i => ~Mentions(d[j], n)
    BY <1>1
  <2> QED BY <1>4, <2>1, <2>2 DEF LastWritten
<1> QED BY <1>3, <1>4 DEF t

\* A message is written that does.
LEMMA WrittenOfNode ==
  ASSUME NEW d \in Seq(DownMessages), NEW w \in DownMessages, NEW n, NEW r, Mentions(w, n),
         \A j \in 1..Len(w.changes) : w.changes[j].node = n => EntrySays(w.changes[j], r)
  PROVE  LastWritten(Append(d, w), n, r) /\ ~Unwritten(Append(d, w), n)
<1> DEFINE t == Append(d, w)
<1>1. Len(d) \in Nat /\ Len(t) = Len(d) + 1 /\ t[Len(d) + 1] = w /\ Len(d) + 1 \in 1..Len(t)
  OBVIOUS
<1> HIDE DEF t
<1>2. ~Unwritten(t, n)
  BY <1>1 DEF Unwritten
<1>3. LastWritten(t, n, r)
  <2> SUFFICES ASSUME NEW i \in 1..Len(t), Mentions(t[i], n), \A j \in 1..Len(t) : j > i => ~Mentions(t[j], n)
               PROVE  \A j \in 1..Len(t[i].changes) : t[i].changes[j].node = n => EntrySays(t[i].changes[j], r)
    BY DEF LastWritten
  <2>1. ~ (Len(d) + 1 > i)
    BY <1>1
  <2>2. i = Len(d) + 1
    BY <1>1, <2>1
  <2> QED BY <1>1, <2>2
<1> QED BY <1>2, <1>3 DEF t

\* The first message is taken.
LEMMA MessageTaken ==
  ASSUME NEW d \in Seq(DownMessages), d # <<>>, NEW n, NEW r, LastWritten(d, n, r)
  PROVE  /\ LastWritten(Tail(d), n, r)
         /\ ~Mentions(Head(d), n) /\ Unwritten(Tail(d), n) => Unwritten(d, n)
         /\ Mentions(Head(d), n) /\ Unwritten(Tail(d), n) =>
              \A j \in 1..Len(Head(d).changes) :
                Head(d).changes[j].node = n => EntrySays(Head(d).changes[j], r)
<1> DEFINE t == Tail(d)
           h == Head(d)
<1>1. /\ Len(d) \in Nat /\ Len(t) = Len(d) - 1 /\ 1 \in 1..Len(d) /\ h = d[1]
      /\ \A i \in 1..Len(t) : i + 1 \in 1..Len(d) /\ t[i] = d[i + 1]
  OBVIOUS
<1> HIDE DEF t, h
<1>2. ASSUME NEW i \in 1..Len(d), i # 1 PROVE i - 1 \in 1..Len(t) /\ t[i - 1] = d[i]
  <2>1. i - 1 \in 1..Len(t) /\ (i - 1) + 1 = i
    BY <1>1, <1>2
  <2> QED BY <1>1, <2>1
<1>3. LastWritten(t, n, r)
  <2> SUFFICES ASSUME NEW i \in 1..Len(t), Mentions(t[i], n), \A j \in 1..Len(t) : j > i => ~Mentions(t[j], n)
               PROVE  \A j \in 1..Len(t[i].changes) : t[i].changes[j].node = n => EntrySays(t[i].changes[j], r)
    BY DEF LastWritten
  <2>1. i + 1 \in 1..Len(d) /\ t[i] = d[i + 1] /\ Mentions(d[i + 1], n)
    BY <1>1
  <2>2. ASSUME NEW j \in 1..Len(d), j > i + 1 PROVE ~Mentions(d[j], n)
    <3>1. j - 1 \in 1..Len(t) /\ t[j - 1] = d[j] /\ j - 1 > i
      BY <1>1, <1>2, <2>2
    <3> QED BY <3>1
  <2> QED BY <2>1, <2>2 DEF LastWritten
<1>4. ASSUME Unwritten(t, n) PROVE \A i \in 1..Len(d) : i # 1 => ~Mentions(d[i], n)
  BY <1>2, <1>4 DEF Unwritten
<1>5. ~Mentions(h, n) /\ Unwritten(t, n) => Unwritten(d, n)
  BY <1>1, <1>4 DEF Unwritten
<1>6. ASSUME Mentions(h, n), Unwritten(t, n)
      PROVE  \A j \in 1..Len(h.changes) : h.changes[j].node = n => EntrySays(h.changes[j], r)
  <2>1. \A j \in 1..Len(d) : j > 1 => ~Mentions(d[j], n)
    BY <1>4, <1>6
  <2> QED BY <1>1, <1>6, <2>1 DEF LastWritten
<1> QED BY <1>3, <1>5, <1>6 DEF t, h

LEMMA NodesInit == Init => NodesInv
<1> SUFFICES ASSUME Init, NEW n \in Nodes
             PROVE  /\ LastSaid(strand, n, registry[n], conn[n])
                    /\ LastWritten(down, n, registry[n])
                    /\ Unwritten(down, n) => Told(heard, nodes, groups, n, registry[n])
  BY DEF NodesInv
<1>1. PICK list : Listed(list) /\ down = <<[kind |-> "nodes", changes |-> list]>>
  BY InitFacts
<1> DEFINE m == [kind |-> "nodes", changes |-> list]
<1>2. m.kind = "nodes" /\ m.changes = list /\ down = <<m>>
  BY <1>1
<1> HIDE DEF m
<1>3. Len(down) = 1 /\ down[1] = m
  BY <1>2
<1>4. LastSaid(strand, n, registry[n], conn[n])
  <2>1. Len(strand) = 0
    BY DEF Init
  <2> QED BY <2>1 DEF LastSaid
<1>5. \A j \in 1..Len(list) : list[j].node = n => EntrySays(list[j], registry[n])
  <2> SUFFICES ASSUME NEW j \in 1..Len(list), list[j].node = n PROVE EntrySays(list[j], registry[n])
    OBVIOUS
  <2>1. n \in Registered /\ list[j].status = "available" /\ list[j].group = registry[n].group
    BY <1>1 DEF Listed
  <2> QED BY <2>1, InitFacts DEF EntrySays
<1>6. LastWritten(down, n, registry[n])
  BY <1>2, <1>3, <1>5 DEF LastWritten
<1>7. ASSUME Unwritten(down, n) PROVE Told(heard, nodes, groups, n, registry[n])
  <2>1. ~Mentions(m, n)
    BY <1>3, <1>7 DEF Unwritten
  <2>2. n \notin Registered
    BY <1>1, <1>2, <2>1 DEF Mentions, Listed
  <2> QED BY <2>2 DEF Init, Registered, Told, TableSays
<1> QED BY <1>4, <1>6, <1>7

\* A change of one node is posted, with notices after it.
LEMMA NodePosted ==
  ASSUME Types, NodesInv, NEW n \in Nodes, NEW m \in Signals, NEW more \in Seq(Notices),
         strand' = Append(strand, m) \o more, About(m, n), SaysOf(m, registry'[n], conn'[n]),
         \A l \in Nodes \ {n} : registry'[l] = registry[l] /\ conn'[l] = conn[l],
         UNCHANGED <<clientVars, down>>
  PROVE  NodesInv'
<1> SUFFICES ASSUME socket = "open", NEW l \in Nodes
             PROVE  /\ LastSaid(strand', l, registry'[l], conn'[l])
                    /\ Silent(strand', l) => LastWritten(down, l, registry'[l])
                    /\ Silent(strand', l) /\ Unwritten(down, l) => Told(heard, nodes, groups, l, registry'[l])
  BY DEF NodesInv, clientVars
<1> DEFINE s == Append(strand, m)
<1>1. strand \in Seq(Signals) /\ s \in Seq(Signals) /\ strand' = s \o more
  BY DEF Types, ChannelTypes
<1>2. Silent(more, l) /\ more \in Seq(Signals)
  BY NoticesSilent
<1>3. CASE l = n
  <2>1. LastSaid(s, n, registry'[n], conn'[n]) /\ ~Silent(s, n)
    BY <1>1, SaidOfNode
  <2> HIDE DEF s
  <2> QED BY <1>1, <1>2, <1>3, <2>1, SaidOfOthers
<1>4. CASE l # n
  <2>1. registry'[l] = registry[l] /\ conn'[l] = conn[l]
    BY <1>4
  <2>2. LastSaid(strand, l, registry[l], conn[l])
    BY DEF NodesInv
  <2>3. <<m>> \in Seq(Signals) /\ Silent(<<m>>, l)
    <3>1. ~About(m, l)
      BY <1>4 DEF About
    <3> QED BY <3>1 DEF Silent
  <2>4. s = strand \o <<m>>
    BY <1>1
  <2>5. LastSaid(s, l, registry[l], conn[l]) /\ (Silent(s, l) <=> Silent(strand, l))
    <3> DEFINE one == <<m>>
    <3>1. one \in Seq(Signals) /\ Silent(one, l) /\ s = strand \o one
      BY <2>3, <2>4
    <3> HIDE DEF one, s
    <3> QED BY <1>1, <2>2, <3>1, SaidOfOthers
  <2> HIDE DEF s
  <2>6. LastSaid(strand', l, registry[l], conn[l]) /\ (Silent(strand', l) <=> Silent(strand, l))
    BY <1>1, <1>2, <2>5, SaidOfOthers
  <2> QED BY <2>1, <2>6 DEF NodesInv
<1> QED BY <1>3, <1>4
\* Only notices are posted and only answers written.
LEMMA NoticesPosted ==
  ASSUME Types, NodesInv, NEW more \in Seq(Notices), strand' = strand \o more,
         down' = down \/ (\E w \in Answers : down' = Append(down, w)),
         UNCHANGED <<clientVars, registry, conn>>
  PROVE  NodesInv'
<1> SUFFICES ASSUME socket = "open", NEW l \in Nodes
             PROVE  /\ LastSaid(strand', l, registry[l], conn[l])
                    /\ Silent(strand', l) => LastWritten(down', l, registry[l])
                    /\ Silent(strand', l) /\ Unwritten(down', l) => Told(heard, nodes, groups, l, registry[l])
  BY DEF NodesInv, clientVars
<1>1. strand \in Seq(Signals) /\ Silent(more, l) /\ more \in Seq(Signals) /\ down \in Seq(DownMessages)
  BY NoticesSilent DEF Types, ChannelTypes
<1>2. LastSaid(strand, l, registry[l], conn[l])
  BY DEF NodesInv
<1>3. LastSaid(strand', l, registry[l], conn[l]) /\ (Silent(strand', l) <=> Silent(strand, l))
  BY <1>1, <1>2, SaidOfOthers
<1>4. /\ LastWritten(down, l, registry[l]) => LastWritten(down', l, registry[l])
      /\ Unwritten(down', l) <=> Unwritten(down, l)
  <2>1. CASE down' = down
    BY <2>1
  <2>2. ASSUME NEW w \in Answers, down' = Append(down, w)
        PROVE  /\ LastWritten(down, l, registry[l]) => LastWritten(down', l, registry[l])
               /\ Unwritten(down', l) <=> Unwritten(down, l)
    <3>1. w \in DownMessages /\ ~Mentions(w, l)
      BY DEF DownMessages, Answers, AnswerKinds, Mentions
    <3> QED BY <1>1, <2>2, <3>1, WrittenOfOthers
  <2> QED BY <2>1, <2>2
<1> QED BY <1>3, <1>4 DEF NodesInv

\* Changes of the registry.
LEMMA EnvironmentNodes ==
  ASSUME Types, NodesInv, Environment PROVE NodesInv'
<1>0. /\ registry \in [Nodes -> Registrations] /\ conn \in [Nodes -> Nat] /\ strand \in Seq(Signals)
      /\ <<>> \in Seq(Notices)
  BY DEF Types, ServerTypes, ChannelTypes
<1>1. ASSUME NEW n \in Nodes, NEW m \in Signals, strand' = Append(strand, m), About(m, n),
             SaysOf(m, registry'[n], conn'[n]),
             \A l \in Nodes \ {n} : registry'[l] = registry[l] /\ conn'[l] = conn[l],
             UNCHANGED <<clientVars, down>>
      PROVE  NodesInv'
  <2> DEFINE none == <<>>
  <2>1. none \in Seq(Notices) /\ Append(strand, m) \o none = Append(strand, m)
    BY <1>0
  <2>2. strand' = Append(strand, m) \o none
    BY <1>1, <2>1
  <2> HIDE DEF none
  <2> QED BY <1>1, <2>1, <2>2, NodePosted
<1>2. ASSUME NEW n \in Nodes, NEW g \in Groups, Connect(n, g) PROVE NodesInv'
  <2> DEFINE m == [Changed(n, "available") EXCEPT !.conn = conn[n] + 1]
  <2>1. /\ registry' = [registry EXCEPT ![n] = [status |-> "available", group |-> g]]
        /\ conn' = [conn EXCEPT ![n] = @ + 1] /\ strand' = Append(strand, m)
        /\ UNCHANGED <<clientVars, down>>
    BY <1>2 DEF Connect
  <2>2. m \in Signals
    BY ChangedSignal
  <2>3. m.kind = "nodes" /\ m.node = n /\ m.status = "available" /\ m.conn = conn[n] + 1
    BY DEF Changed
  <2>4. registry'[n].status = "available" /\ conn'[n] = conn[n] + 1
    BY <1>0, <2>1
  <2>5. \A l \in Nodes \ {n} : registry'[l] = registry[l] /\ conn'[l] = conn[l]
    BY <1>0, <2>1
  <2> HIDE DEF m
  <2>6. About(m, n) /\ SaysOf(m, registry'[n], conn'[n])
    BY <2>3, <2>4 DEF About, SaysOf
  <2> QED BY <1>1, <2>1, <2>2, <2>5, <2>6
<1>3. ASSUME NEW n \in Nodes, SetStatus(n) PROVE NodesInv'
  <2> DEFINE s == IF registry[n].status = "busy" THEN "available" ELSE "busy"
             m == Changed(n, s)
  <2>1. /\ registry' = [registry EXCEPT ![n].status = s] /\ conn' = conn /\ strand' = Append(strand, m)
        /\ UNCHANGED <<clientVars, down>>
    BY <1>3 DEF SetStatus
  <2>2. m \in Signals
    BY ChangedSignal
  <2>3. m.kind = "nodes" /\ m.node = n /\ m.status = s /\ m.conn = conn[n]
    BY DEF Changed
  <2>4. registry'[n].status = s /\ s # "absent"
    <3>1. registry[n] \in Registrations
      BY <1>0
    <3> QED BY <1>0, <2>1, <3>1 DEF Registrations, Absent
  <2>5. \A l \in Nodes \ {n} : registry'[l] = registry[l] /\ conn'[l] = conn[l]
    BY <1>0, <2>1
  <2> HIDE DEF m, s
  <2>6. About(m, n) /\ SaysOf(m, registry'[n], conn'[n])
    BY <2>1, <2>3, <2>4 DEF About, SaysOf
  <2> QED BY <1>1, <2>1, <2>2, <2>5, <2>6
<1>4. ASSUME NEW n \in Nodes, Disconnect(n) PROVE NodesInv'
  <2> DEFINE m == Changed(n, "disconnected")
  <2>1. /\ registry' = [registry EXCEPT ![n] = [status |-> "absent", group |-> NoGroup]] /\ conn' = conn
        /\ strand' = Append(strand, m) /\ UNCHANGED <<clientVars, down>>
    BY <1>4 DEF Disconnect
  <2>2. m \in Signals
    BY ChangedSignal
  <2>3. m.kind = "nodes" /\ m.node = n /\ m.status = "disconnected"
    BY DEF Changed
  <2>4. registry'[n].status = "absent"
    BY <1>0, <2>1
  <2>5. \A l \in Nodes \ {n} : registry'[l] = registry[l] /\ conn'[l] = conn[l]
    BY <1>0, <2>1
  <2> HIDE DEF m
  <2>6. About(m, n) /\ SaysOf(m, registry'[n], conn'[n])
    BY <2>3, <2>4 DEF About, SaysOf
  <2> QED BY <1>1, <2>1, <2>2, <2>5, <2>6
<1>5. ASSUME NEW n \in Nodes, NEW g \in Groups, AttachToEndpoint(n, g) PROVE NodesInv'
  <2> DEFINE m == Changed(n, registry[n].status)
  <2>1. /\ n \in Registered /\ registry' = [registry EXCEPT ![n].group = g] /\ conn' = conn
        /\ UNCHANGED <<clientVars, down>>
    BY <1>5 DEF AttachToEndpoint
  <2>2. m \in Signals
    BY <2>1, RegisteredFacts, ChangedSignal
  <2>3. m.kind = "nodes" /\ m.node = n /\ m.status = registry[n].status /\ m.conn = conn[n]
    BY DEF Changed
  <2>4. registry'[n].status = registry[n].status
    <3>1. registry[n] \in Registrations
      BY <1>0
    <3> QED BY <1>0, <2>1, <3>1 DEF Registrations, Absent
  <2>5. \A l \in Nodes \ {n} : registry'[l] = registry[l] /\ conn'[l] = conn[l]
    BY <1>0, <2>1
  <2>6. \E more \in Seq(Notices) : strand' = (strand \o <<m>>) \o more
    BY <1>5, AttachTypes
  <2> HIDE DEF m
  <2>7. PICK more \in Seq(Notices) : strand' = (strand \o <<m>>) \o more
    BY <2>6
  <2>8. strand' = Append(strand, m) \o more
    <3>1. strand \o <<m>> = Append(strand, m)
      BY <1>0, <2>2
    <3> QED BY <2>7, <3>1
  <2>9. About(m, n) /\ SaysOf(m, registry'[n], conn'[n])
    BY <2>1, <2>3, <2>4, RegisteredFacts DEF About, SaysOf
  <2> QED BY <2>1, <2>2, <2>5, <2>8, <2>9, NodePosted
<1>6. ASSUME \/ \E n \in Nodes : OwnVariablesChanged(n)
             \/ \E g \in Groups : SetSharedVariables(g) \/ SetEventsTable(g)
      PROVE  NodesInv'
  <2>1. /\ \E more \in Seq(Notices) : strand' = strand \o more
        /\ UNCHANGED <<clientVars, up, down, registry, conn, since, watch, later>>
    BY <1>6, OwnTypes, SharedTypes
  <2> QED BY <2>1, NoticesPosted
<1> QED BY <1>2, <1>3, <1>4, <1>5, <1>6 DEF Environment

\* The session answers and sends what is watched for the first time.
LEMMA ReadPosts ==
  ASSUME Types, HandleRead \/ (\E r \in later : AnswerLater(r) \/ RefuseLater(r) \/ DropLater(r))
  PROVE  /\ UNCHANGED <<clientVars, registry, conn, since>>
         /\ down' = down \/ \E w \in Answers : down' = Append(down, w)
         /\ \E more \in Seq(Notices) : strand' = strand \o more
<1>0. strand \in Seq(Signals) /\ down \in Seq(DownMessages) /\ later \in SUBSET RequestMessages
  BY DEF Types, ChannelTypes, ServerTypes
<1>1. UNCHANGED <<clientVars, registry, conn, since>>
  BY DEF HandleRead, WatchNodeOrGroup, SendAsebaVMDescription, HandleServer, HandleDevice, AnswerLater,
         RefuseLater, DropLater, serverVars
<1>2. down' = down \/ \E w \in Answers : down' = Append(down, w)
  <2>1. ASSUME NEW r \in RequestMessages, Replies(r) PROVE \E w \in Answers : down' = Append(down, w)
    BY <2>1, AnswerMessage DEF Replies
  <2>2. CASE WatchNodeOrGroup
    BY <2>1, <2>2, HandleFacts, WatchTypes DEF WatchNodeOrGroup
  <2>3. CASE SendAsebaVMDescription
    BY <2>1, <2>3, HandleFacts, DescriptionTypes DEF SendAsebaVMDescription
  <2>4. CASE HandleServer
    BY <2>1, <2>4, HandleFacts, ServerTypesKept DEF HandleServer
  <2>5. CASE HandleDevice
    BY <2>5 DEF HandleDevice
  <2>6. CASE \E r \in later : AnswerLater(r) \/ RefuseLater(r)
    BY <1>0, <2>1, <2>6, LaterTypes
  <2>7. CASE \E r \in later : DropLater(r)
    BY <2>7 DEF DropLater
  <2> QED BY <2>2, <2>3, <2>4, <2>5, <2>6, <2>7 DEF HandleRead
<1>3. \E more \in Seq(Notices) : strand' = strand \o more
  <2>1. CASE strand' = strand
    <3> DEFINE none == <<>>
    <3>1. none \in Seq(Notices) /\ strand \o none = strand
      BY <1>0
    <3> QED BY <2>1, <3>1
  <2>2. CASE strand' # strand
    <3>1. WatchNodeOrGroup
      BY <2>2 DEF HandleRead, SendAsebaVMDescription, HandleServer, HandleDevice, AnswerLater,
                  RefuseLater, DropLater
    <3>2. strand' = strand \o FirstValues(Head(up).target, Head(up).flags)
      BY <2>2, <3>1 DEF WatchNodeOrGroup
    <3>3. Head(up).target \in Ids
      BY <3>1, HandleFacts DEF WatchNodeOrGroup, RequestMessages
    <3> QED BY <3>2, <3>3, FirstValuesSignals
  <2> QED BY <2>1, <2>2
<1> QED BY <1>1, <1>2, <1>3

LEMMA ReadNodes ==
  ASSUME Types, NodesInv, HandleRead \/ (\E r \in later : AnswerLater(r) \/ RefuseLater(r) \/ DropLater(r)) PROVE NodesInv'
BY ReadPosts, NoticesPosted

\* do_node_changed: the last signal about a node becomes the last message that mentions it.
LEMMA StrandNodes ==
  ASSUME Types, NodesInv, RunStrand PROVE NodesInv'
<1> PICK g \in AllGroups : g \in GroupsOf(Head(strand)) /\ down' = Append(down, Written(Head(strand), g))
  BY StrandFacts
<1> DEFINE h == Head(strand)
           w == Written(h, g)
<1>1. /\ strand \in Seq(Signals) /\ down \in Seq(DownMessages) /\ strand # <<>> /\ h \in Signals
      /\ strand' = Tail(strand) /\ down' = Append(down, w) /\ g \in GroupsOf(h)
      /\ UNCHANGED <<socket, heard, nodes, groups, registry, conn>>
  BY StrandFacts DEF Types, ChannelTypes, clientVars, serverVars
<1> SUFFICES ASSUME socket = "open", NEW l \in Nodes
             PROVE  /\ LastSaid(strand', l, registry[l], conn[l])
                    /\ Silent(strand', l) => LastWritten(down', l, registry[l])
                    /\ Silent(strand', l) /\ Unwritten(down', l) => Told(heard, nodes, groups, l, registry[l])
  BY <1>1 DEF NodesInv
<1>2. /\ LastSaid(strand, l, registry[l], conn[l])
      /\ Silent(strand, l) => LastWritten(down, l, registry[l])
      /\ Silent(strand, l) /\ Unwritten(down, l) => Told(heard, nodes, groups, l, registry[l])
  BY DEF NodesInv
<1>3. /\ LastSaid(strand', l, registry[l], conn[l])
      /\ ~About(h, l) /\ Silent(strand', l) => Silent(strand, l)
      /\ About(h, l) /\ Silent(strand', l) => SaysOf(h, registry[l], conn[l])
  BY <1>1, <1>2, SignalTaken
<1>4. w \in DownMessages
  BY <1>1, WrittenFacts
<1>5. CASE ~About(h, l)
  <2>1. ~Mentions(w, l)
    <3>1. CASE h.kind # "nodes"
      <4>1. w \in Notices
        BY <1>1, <3>1, WrittenFacts
      <4> QED BY <4>1 DEF Notices, Mentions
    <3>2. CASE h.kind = "nodes"
      <4> DEFINE e == [node |-> h.node, status |-> h.status, group |-> g]
      <4>1. w.changes = <<e>> /\ e.node = h.node
        BY <1>1, <3>2, WrittenFacts
      <4>2. h.node # l
        BY <1>5, <3>2 DEF About
      <4> HIDE DEF e
      <4> QED BY <4>1, <4>2 DEF Mentions
    <3> QED BY <3>1, <3>2
  <2> HIDE DEF w
  <2> QED BY <1>1, <1>2, <1>3, <1>4, <1>5, <2>1, WrittenOfOthers
<1>6. CASE About(h, l)
  <2> DEFINE e == [node |-> h.node, status |-> h.status, group |-> g]
  <2>1. w.kind = "nodes" /\ w.changes = <<e>> /\ h.node = l /\ h.kind = "nodes"
    BY <1>1, <1>6, WrittenFacts DEF About
  <2>2. e.node = l /\ e.status = h.status /\ e.group = g
    BY <2>1
  <2> HIDE DEF e, w
  <2>3. Len(w.changes) = 1 /\ w.changes[1] = e
    BY <2>1
  <2>4. Mentions(w, l)
    BY <2>1, <2>2, <2>3 DEF Mentions
  <2>5. CASE Silent(strand', l)
    <3>1. SaysOf(h, registry[l], conn[l])
      BY <1>3, <1>6, <2>5
    <3>2. registry[l].status # "absent" => g = registry[l].group
      <4> SUFFICES ASSUME registry[l].status # "absent" PROVE g = registry[l].group
        OBVIOUS
      <4>1. l \in Registered /\ h.status = registry[l].status /\ h.conn = conn[l]
        BY <3>1 DEF SaysOf, Registered
      <4>2. h.status # "disconnected"
        BY <4>1, RegisteredFacts
      <4> QED BY <1>1, <2>1, <4>1, <4>2 DEF GroupsOf
    <3>5. EntrySays(e, registry[l])
      BY <2>2, <3>1, <3>2 DEF SaysOf, EntrySays
    <3>3. \A j \in 1..Len(w.changes) : w.changes[j].node = l => EntrySays(w.changes[j], registry[l])
      BY <2>3, <3>5
    <3>4. LastWritten(Append(down, w), l, registry[l]) /\ ~Unwritten(Append(down, w), l)
      BY <1>1, <1>4, <2>4, <3>3, WrittenOfNode
    <3> QED BY <1>1, <1>3, <3>4
  <2>6. CASE ~Silent(strand', l)
    BY <1>3, <2>6
  <2> QED BY <2>5, <2>6
<1> QED BY <1>5, <1>6

\* The client shows the same of every node it is told nothing of.
LEMMA TakenNodes ==
  ASSUME Types, NodesInv, down # <<>>, down' = Tail(down),
         UNCHANGED <<socket, heard, strand, registry, conn>>,
         socket = "open" => \A l \in Nodes :
           /\ ~Mentions(Head(down), l) /\ Told(heard, nodes, groups, l, registry[l]) =>
                Told(heard, nodes', groups', l, registry[l])
           /\ Mentions(Head(down), l)
              /\ (\A j \in 1..Len(Head(down).changes) :
                    Head(down).changes[j].node = l => EntrySays(Head(down).changes[j], registry[l])) =>
                Told(heard, nodes', groups', l, registry[l])
  PROVE  NodesInv'
<1> SUFFICES ASSUME socket = "open", NEW l \in Nodes
             PROVE  /\ LastSaid(strand, l, registry[l], conn[l])
                    /\ Silent(strand, l) => LastWritten(down', l, registry[l])
                    /\ Silent(strand, l) /\ Unwritten(down', l) => Told(heard, nodes', groups', l, registry[l])
  BY DEF NodesInv
<1>1. /\ LastSaid(strand, l, registry[l], conn[l])
      /\ Silent(strand, l) => LastWritten(down, l, registry[l])
      /\ Silent(strand, l) /\ Unwritten(down, l) => Told(heard, nodes, groups, l, registry[l])
  BY DEF NodesInv
<1>2. down \in Seq(DownMessages)
  BY DEF Types, ChannelTypes
<1>3. CASE ~Silent(strand, l)
  BY <1>1, <1>3
<1>4. CASE Silent(strand, l)
  <2>1. LastWritten(down, l, registry[l])
    BY <1>1, <1>4
  <2>2. /\ LastWritten(down', l, registry[l])
        /\ ~Mentions(Head(down), l) /\ Unwritten(down', l) => Unwritten(down, l)
        /\ Mentions(Head(down), l) /\ Unwritten(down', l) =>
             \A j \in 1..Len(Head(down).changes) :
               Head(down).changes[j].node = l => EntrySays(Head(down).changes[j], registry[l])
    BY <1>2, <2>1, MessageTaken
  <2> QED BY <1>1, <1>4, <2>2
<1> QED BY <1>3, <1>4

\* _nodes_changed_as_node_list: what is mentioned is shown.
LEMMA ChangedNodes ==
  ASSUME Types, Unheard, NodesInv, OnNodesChanged PROVE NodesInv'
<1> DEFINE list == Head(down).changes
           new == [nodes |-> nodes', groups |-> groups']
<1>1. /\ UNCHANGED <<socket, heard, strand, registry, conn>> /\ down # <<>> /\ down' = Tail(down)
  BY ReceiveFacts DEF OnNodesChanged, serverVars
<1>2. /\ Head(down).kind = "nodes" /\ list \in Seq(Entries)
      /\ heard # "no" => Shown(nodes, groups, list, Len(list), new)
  BY NodesChangedFacts
<1>3. new.nodes = nodes' /\ new.groups = groups'
  OBVIOUS
<1>4. heard = "no" => UNCHANGED <<nodes, groups>> /\ DOMAIN nodes = {}
  BY DEF OnNodesChanged, Unheard
<1> HIDE DEF list, new
<1>5. ASSUME NEW l \in Nodes, ~Mentions(Head(down), l), Told(heard, nodes, groups, l, registry[l])
      PROVE  Told(heard, nodes', groups', l, registry[l])
  <2>1. CASE heard = "no"
    BY <1>4, <1>5, <2>1
  <2>2. CASE heard # "no"
    <3>1. \A i \in 1..Len(list) : list[i].node # l
      BY <1>2, <1>5 DEF Mentions, list
    <3>2. SameFor(nodes, groups, new, l)
      BY <1>2, <2>2, <3>1 DEF Shown
    <3> QED BY <1>3, <1>5, <3>2 DEF SameFor, Told, TableSays, Shows
  <2> QED BY <2>1, <2>2
<1>6. ASSUME NEW l \in Nodes, Mentions(Head(down), l),
             \A j \in 1..Len(list) : list[j].node = l => EntrySays(list[j], registry[l])
      PROVE  Told(heard, nodes', groups', l, registry[l])
  <2>1. CASE heard = "no"
    BY <1>4, <2>1 DEF Told
  <2>2. CASE heard # "no"
    <3>1. PICK j \in 1..Len(list) : list[j].node = l
      BY <1>6 DEF Mentions, list
    <3>2. Follows(nodes', groups', list[j])
      BY <1>2, <1>3, <2>2 DEF Shown
    <3>3. EntrySays(list[j], registry[l])
      BY <1>6, <3>1
    <3>4. registry[l] \in Registrations
      BY DEF Types, ServerTypes
    <3> QED BY <3>1, <3>2, <3>3, <3>4 DEF EntrySays, Follows, Told, TableSays, Registrations, Absent
  <2> QED BY <2>1, <2>2
<1> QED BY <1>1, <1>5, <1>6, TakenNodes DEF list

\* Other messages say nothing of which nodes there are.
LEMMA NewsNodes ==
  ASSUME Types, NodesInv, OnAnswer \/ OnVariablesChanged \/ OnEventsDescriptionsChanged
  PROVE  NodesInv'
<1>1. PICK kinds \in {{"completed", "error", "description"}, {"variables"}, {"events"}} : Receive(kinds)
  BY DEF OnAnswer, OnVariablesChanged, OnEventsDescriptionsChanged
<1>2. down # <<>> /\ down' = Tail(down) /\ Head(down).kind \in kinds
  BY <1>1, ReceiveFacts
<1>3. UNCHANGED <<socket, heard, strand, registry, conn, nodes>>
  BY DEF OnAnswer, OnVariablesChanged, OnEventsDescriptionsChanged, serverVars
<1>4. \A l : ~Mentions(Head(down), l)
  BY <1>1, <1>2 DEF Mentions
<1>5. \A n \in DOMAIN nodes : groups'[nodes[n].group].id = groups[nodes[n].group].id
  <2>1. \A n \in DOMAIN nodes : nodes[n].group \in DOMAIN groups
    BY DEF Types, ClientTypes, Tables
  <2>2. CASE OnAnswer
    BY <2>2 DEF OnAnswer
  <2>3. CASE OnVariablesChanged \/ OnEventsDescriptionsChanged
    BY <2>1, <2>3, ValueFacts
  <2> QED BY <2>2, <2>3
<1>6. \A l : Told(heard, nodes, groups, l, registry[l]) => Told(heard, nodes', groups', l, registry[l])
  BY <1>3, <1>5 DEF Told, TableSays, Shows
<1> QED BY <1>2, <1>3, <1>4, <1>6, TakenNodes

LEMMA ApplicationNodes ==
  ASSUME Types, NodesInv, Application PROVE NodesInv'
<1>1. /\ UNCHANGED <<socket, down, strand, registry, conn>>
      /\ DOMAIN nodes' = DOMAIN nodes
      /\ \A n \in DOMAIN nodes : /\ nodes'[n].status = nodes[n].status
                                 /\ groups'[nodes'[n].group].id = groups[nodes[n].group].id
      /\ heard' # heard => heard' = "late"
  BY ApplicationFacts
<1>2. \A l : Told(heard, nodes, groups, l, registry[l]) => Told(heard', nodes', groups', l, registry[l])
  BY <1>1 DEF Told, TableSays, Shows
<1> SUFFICES ASSUME socket = "open", NEW l \in Nodes
             PROVE  /\ LastSaid(strand, l, registry[l], conn[l])
                    /\ Silent(strand, l) => LastWritten(down, l, registry[l])
                    /\ Silent(strand, l) /\ Unwritten(down, l) => Told(heard', nodes', groups', l, registry[l])
  BY <1>1 DEF NodesInv
<1> QED BY <1>2 DEF NodesInv

\* Nodes become known to a client by what it listens to.
LEMMA UnheardInductive == Types /\ Unheard /\ [Next]_vars => Unheard'
<1> SUFFICES ASSUME Types, Unheard, [Next]_vars PROVE Unheard'
  OBVIOUS
<1>1. CASE Application
  <2>1. DOMAIN nodes' = DOMAIN nodes /\ (heard' # heard => heard' = "late")
    BY <1>1, ApplicationFacts
  <2> QED BY <2>1 DEF Unheard
<1>2. CASE OnNodesChanged
  BY <1>2 DEF OnNodesChanged, Unheard
<1>3. CASE OnAnswer \/ OnVariablesChanged \/ OnEventsDescriptionsChanged
  BY <1>3 DEF OnAnswer, OnVariablesChanged, OnEventsDescriptionsChanged, Unheard
<1>4. CASE OnClose \/ RunStrand \/ Environment \/ UNCHANGED vars
  BY <1>4 DEF OnClose, RunStrand, Environment, SetStatus, Disconnect, OwnVariablesChanged, Connect,
              AttachToEndpoint, SetSharedVariables, SetEventsTable, vars, clientVars, Unheard
<1>5. CASE HandleRead \/ \E r \in later : AnswerLater(r) \/ RefuseLater(r) \/ DropLater(r)
  BY <1>5 DEF HandleRead, WatchNodeOrGroup, SendAsebaVMDescription, HandleServer, HandleDevice,
              AnswerLater, RefuseLater, DropLater, clientVars, Unheard
<1> QED BY <1>1, <1>2, <1>3, <1>4, <1>5 DEF Next, OnMessage

LEMMA NodesInductive == Types /\ Unheard /\ NodesInv /\ [Next]_vars => NodesInv'
<1> SUFFICES ASSUME Types, Unheard, NodesInv, [Next]_vars PROVE NodesInv'
  OBVIOUS
<1>1. CASE UNCHANGED vars
  BY <1>1 DEF NodesInv, vars, clientVars, serverVars
<1>2. CASE OnClose
  BY <1>2 DEF OnClose, NodesInv
<1>3. CASE OnMessage
  BY <1>3, ChangedNodes, NewsNodes DEF OnMessage
<1> QED BY <1>1, <1>2, <1>3, ApplicationNodes, ReadNodes, StrandNodes, EnvironmentNodes DEF Next

\* The latest news of each node is true in every reachable state.
THEOREM NodesInvariance == Spec => [](Unheard /\ NodesInv)
<1>1. Init => Unheard
  BY DEF Init, Unheard
<1> QED BY <1>1, TypesInvariance, NodesInit, UnheardInductive, NodesInductive, PTL DEF Spec

\* Once all is delivered, a client that has listened from the start has exactly the nodes of
\* the server, with their status and group: whatever nodes come, go, come back and change
\* group while messages are on their way.  The latest news of each node is true wherever it
\* is: posted, written, or shown.
THEOREM NodesAgreeAlways == Spec => []NodesAgree
<1>1. Types /\ NodesInv => NodesAgree
  <2> SUFFICES ASSUME Types, NodesInv, Quiet, heard = "since"
               PROVE  /\ DOMAIN nodes = Registered
                      /\ \A n \in Registered : /\ nodes[n].status = registry[n].status
                                               /\ groups[nodes[n].group].id = registry[n].group
    BY DEF NodesAgree
  <2>1. Len(strand) = 0 /\ Len(down) = 0 /\ socket = "open"
    BY DEF Quiet
  <2>2. \A n \in Nodes : Silent(strand, n) /\ Unwritten(down, n)
    BY <2>1 DEF Silent, Unwritten
  <2>3. \A n \in Nodes : TableSays(nodes, groups, n, registry[n])
    BY <2>1, <2>2 DEF NodesInv, Told
  <2>4. DOMAIN nodes \subseteq Nodes
    BY DEF Types, ClientTypes, Tables
  <2> QED BY <2>3, <2>4 DEF TableSays, Shows, Registered
<1> QED BY <1>1, NodesInvariance, TypesInvariance, PTL

-----------------------------------------------------------------------------
(* What the client knows of a group the session watches *)

\* The last message of s that is in M is in G; no message of s is in M.
LastIs(s, M, G) ==
  \A i \in 1..Len(s) : s[i] \in M /\ (\A j \in 1..Len(s) : j > i => s[j] \notin M) => s[i] \in G
NoneIn(s, M) == \A i \in 1..Len(s) : s[i] \notin M

\* Messages are added; those of them that are in M are in G.
LEMMA LastJoined ==
  ASSUME NEW S, NEW s \in Seq(S), NEW t \in Seq(S), NEW M, NEW G,
         \A i \in 1..Len(t) : t[i] \in M => t[i] \in G
  PROVE  /\ LastIs(s, M, G) \/ ~NoneIn(t, M) => LastIs(s \o t, M, G)
         /\ NoneIn(s \o t, M) <=> NoneIn(s, M) /\ NoneIn(t, M)
<1> DEFINE u == s \o t
<1>1. /\ Len(s) \in Nat /\ Len(t) \in Nat /\ Len(u) = Len(s) + Len(t)
      /\ \A i \in 1..Len(s) : i \in 1..Len(u) /\ u[i] = s[i]
      /\ \A i \in 1..Len(t) : i + Len(s) \in 1..Len(u) /\ u[i + Len(s)] = t[i]
      /\ \A i \in 1..Len(u) : i \in 1..Len(s) \/ (i - Len(s) \in 1..Len(t) /\ u[i] = t[i - Len(s)])
  OBVIOUS
<1> HIDE DEF u
<1>2. NoneIn(u, M) <=> NoneIn(s, M) /\ NoneIn(t, M)
  <2>1. NoneIn(u, M) => NoneIn(s, M) /\ NoneIn(t, M)
    BY <1>1 DEF NoneIn
  <2>2. NoneIn(s, M) /\ NoneIn(t, M) => NoneIn(u, M)
    BY <1>1 DEF NoneIn
  <2> QED BY <2>1, <2>2
<1>3. ASSUME LastIs(s, M, G) \/ ~NoneIn(t, M) PROVE LastIs(u, M, G)
  <2> SUFFICES ASSUME NEW i \in 1..Len(u), u[i] \in M, \A j \in 1..Len(u) : j > i => u[j] \notin M
               PROVE  u[i] \in G
    BY DEF LastIs
  <2>1. CASE i - Len(s) \in 1..Len(t) /\ u[i] = t[i - Len(s)]
    BY <2>1
  <2>2. CASE i \in 1..Len(s)
    <3>1. NoneIn(t, M)
      <4> SUFFICES ASSUME NEW k \in 1..Len(t) PROVE t[k] \notin M
        BY DEF NoneIn
      <4>1. k + Len(s) \in 1..Len(u) /\ u[k + Len(s)] = t[k] /\ k + Len(s) > i
        BY <1>1, <2>2
      <4> QED BY <4>1
    <3>2. LastIs(s, M, G) /\ u[i] = s[i] /\ \A j \in 1..Len(s) : j > i => s[j] \notin M
      BY <1>1, <1>3, <2>2, <3>1
    <3> QED BY <2>2, <3>2 DEF LastIs
  <2> QED BY <1>1, <2>1, <2>2
<1> QED BY <1>2, <1>3 DEF u

\* The first message is taken.
LEMMA LastTaken ==
  ASSUME NEW S, NEW s \in Seq(S), s # <<>>, NEW M, NEW G, LastIs(s, M, G)
  PROVE  /\ LastIs(Tail(s), M, G)
         /\ Head(s) \notin M /\ NoneIn(Tail(s), M) => NoneIn(s, M)
         /\ Head(s) \in M /\ NoneIn(Tail(s), M) => Head(s) \in G
<1> DEFINE t == Tail(s)
           h == Head(s)
<1>1. /\ Len(s) \in Nat /\ Len(t) = Len(s) - 1 /\ 1 \in 1..Len(s) /\ h = s[1]
      /\ \A i \in 1..Len(t) : i + 1 \in 1..Len(s) /\ t[i] = s[i + 1]
  OBVIOUS
<1> HIDE DEF t, h
<1>2. ASSUME NEW i \in 1..Len(s), i # 1 PROVE i - 1 \in 1..Len(t) /\ t[i - 1] = s[i]
  <2>1. i - 1 \in 1..Len(t) /\ (i - 1) + 1 = i
    BY <1>1, <1>2
  <2> QED BY <1>1, <2>1
<1>3. LastIs(t, M, G)
  <2> SUFFICES ASSUME NEW i \in 1..Len(t), t[i] \in M, \A j \in 1..Len(t) : j > i => t[j] \notin M
               PROVE  t[i] \in G
    BY DEF LastIs
  <2>1. i + 1 \in 1..Len(s) /\ t[i] = s[i + 1]
    BY <1>1
  <2>2. ASSUME NEW j \in 1..Len(s), j > i + 1 PROVE s[j] \notin M
    <3>1. j - 1 \in 1..Len(t) /\ t[j - 1] = s[j] /\ j - 1 > i
      BY <1>1, <1>2, <2>2
    <3> QED BY <3>1
  <2> QED BY <2>1, <2>2 DEF LastIs
<1>4. ASSUME NoneIn(t, M) PROVE \A i \in 1..Len(s) : i # 1 => s[i] \notin M
  BY <1>2, <1>4 DEF NoneIn
<1>5. h \notin M /\ NoneIn(t, M) => NoneIn(s, M)
  BY <1>1, <1>4 DEF NoneIn
<1>6. ASSUME h \in M, NoneIn(t, M) PROVE h \in G
  <2>1. \A j \in 1..Len(s) : j > 1 => s[j] \notin M
    BY <1>4, <1>6
  <2> QED BY <1>1, <1>6, <2>1 DEF LastIs
<1> QED BY <1>3, <1>5, <1>6 DEF t, h

\* Appending is joining a sequence of one.
LEMMA AppendOne ==
  ASSUME NEW S, NEW s \in Seq(S), NEW w \in S
  PROVE  <<w>> \in Seq(S) /\ Append(s, w) = s \o <<w>>
OBVIOUS

\* One message is added.
LEMMA LastAppended ==
  ASSUME NEW S, NEW s \in Seq(S), NEW w \in S, NEW M, NEW G, w \in M => w \in G
  PROVE  /\ LastIs(s, M, G) \/ w \in M => LastIs(Append(s, w), M, G)
         /\ NoneIn(Append(s, w), M) <=> NoneIn(s, M) /\ w \notin M
<1> DEFINE t == <<w>>
<1>1. t \in Seq(S) /\ Append(s, w) = s \o t
  OBVIOUS
<1>2. \A i \in 1..Len(t) : t[i] \in M => t[i] \in G
  OBVIOUS
<1>3. NoneIn(t, M) <=> w \notin M
  BY DEF NoneIn
<1> HIDE DEF t
<1> QED BY <1>1, <1>2, <1>3, LastJoined

\* The messages that carry the variables or the events of a group, and the one of a version.
News(kind, g) == [kind : {kind}, target : {g}, value : Nat]
Update(kind, g, v) == [kind |-> kind, target |-> g, value |-> v]

\* The Group objects have the version v, or nothing, or the variables of a robot.
Unset(kind) == IF kind = "variables" THEN {Null, Own} ELSE {Null}
Holds(gs, kind, g, v) ==
  \A o \in DOMAIN gs : gs[o].id = g => gs[o][kind] \in Unset(kind) \cup {v}

\* The latest news of a group is true wherever it is: posted, written, or stored.
Tracked(s, d, gs, kind, g, v) ==
  LET M == News(kind, g)
      G == {Update(kind, g, v)}
  IN  /\ LastIs(s, M, G)
      /\ NoneIn(s, M) => LastIs(d, M, G)
      /\ NoneIn(s, M) /\ NoneIn(d, M) => Holds(gs, kind, g, v)

\* Signals are posted that tell the version, or nothing of the group.
LEMMA TrackedPosted ==
  ASSUME NEW s \in Seq(Signals), NEW more \in Seq(Signals), NEW d, NEW gs, NEW kind, NEW g, NEW v,
         \A i \in 1..Len(more) : more[i] \in News(kind, g) => more[i] = Update(kind, g, v),
         Tracked(s, d, gs, kind, g, v) \/ ~NoneIn(more, News(kind, g))
  PROVE  Tracked(s \o more, d, gs, kind, g, v)
<1> DEFINE M == News(kind, g)
           G == {Update(kind, g, v)}
<1>1. /\ \A i \in 1..Len(more) : more[i] \in M => more[i] \in G
      /\ Tracked(s, d, gs, kind, g, v) \/ ~NoneIn(more, M)
      /\ Tracked(s, d, gs, kind, g, v) =>
           /\ LastIs(s, M, G) /\ (NoneIn(s, M) => LastIs(d, M, G))
           /\ (NoneIn(s, M) /\ NoneIn(d, M) => Holds(gs, kind, g, v))
      /\ (/\ LastIs(s \o more, M, G) /\ (NoneIn(s \o more, M) => LastIs(d, M, G))
          /\ (NoneIn(s \o more, M) /\ NoneIn(d, M) => Holds(gs, kind, g, v)))
           => Tracked(s \o more, d, gs, kind, g, v)
  BY DEF Tracked
<1> HIDE DEF M, G
<1>2. /\ LastIs(s, M, G) \/ ~NoneIn(more, M) => LastIs(s \o more, M, G)
      /\ NoneIn(s \o more, M) <=> NoneIn(s, M) /\ NoneIn(more, M)
  BY <1>1, LastJoined
<1> QED BY <1>1, <1>2

\* A message is written that is not of the group.
LEMMA TrackedWritten ==
  ASSUME NEW s, NEW d \in Seq(DownMessages), NEW w \in DownMessages, NEW gs, NEW kind, NEW g, NEW v,
         w \notin News(kind, g), Tracked(s, d, gs, kind, g, v)
  PROVE  Tracked(s, Append(d, w), gs, kind, g, v)
<1> DEFINE M == News(kind, g)
           G == {Update(kind, g, v)}
<1>1. /\ LastIs(d, M, G) => LastIs(Append(d, w), M, G)
      /\ NoneIn(Append(d, w), M) <=> NoneIn(d, M)
  BY LastAppended
<1> QED BY <1>1 DEF Tracked

\* The first signal becomes the last message.
LEMMA TrackedMoved ==
  ASSUME NEW s \in Seq(Signals), s # <<>>, NEW d \in Seq(DownMessages), NEW w \in DownMessages,
         NEW gs, NEW kind, NEW g, NEW v, Tracked(s, d, gs, kind, g, v),
         IF Head(s) \in News(kind, g) THEN w = Head(s) ELSE w \notin News(kind, g)
  PROVE  Tracked(Tail(s), Append(d, w), gs, kind, g, v)
<1> DEFINE M == News(kind, g)
           G == {Update(kind, g, v)}
           t == Tail(s)
           e == Append(d, w)
<1>1. /\ LastIs(s, M, G) /\ (NoneIn(s, M) => LastIs(d, M, G))
      /\ (NoneIn(s, M) /\ NoneIn(d, M) => Holds(gs, kind, g, v))
      /\ IF Head(s) \in M THEN w = Head(s) ELSE w \notin M
      /\ (/\ LastIs(t, M, G) /\ (NoneIn(t, M) => LastIs(e, M, G))
          /\ (NoneIn(t, M) /\ NoneIn(e, M) => Holds(gs, kind, g, v)))
           => Tracked(t, e, gs, kind, g, v)
  BY DEF Tracked
<1> HIDE DEF M, G
<1>2. /\ LastIs(t, M, G)
      /\ Head(s) \notin M /\ NoneIn(t, M) => NoneIn(s, M)
      /\ Head(s) \in M /\ NoneIn(t, M) => Head(s) \in G
  BY <1>1, LastTaken
<1>3. CASE ~NoneIn(t, M)
  BY <1>1, <1>2, <1>3
<1>4. CASE NoneIn(t, M)
  <2>1. w \in M => w \in G
    BY <1>1, <1>2, <1>4
  <2>2. /\ LastIs(d, M, G) \/ w \in M => LastIs(e, M, G)
        /\ NoneIn(e, M) <=> NoneIn(d, M) /\ w \notin M
    BY <2>1, LastAppended
  <2> QED BY <1>1, <1>2, <1>4, <2>2
<1> QED BY <1>3, <1>4

\* The first message is taken, and stored if it is of the group.
LEMMA TrackedTaken ==
  ASSUME NEW s, NEW d \in Seq(DownMessages), d # <<>>, NEW gs, NEW new, NEW kind, NEW g, NEW v,
         Tracked(s, d, gs, kind, g, v),
         Head(d) \notin News(kind, g) /\ Holds(gs, kind, g, v) => Holds(new, kind, g, v),
         Head(d) = Update(kind, g, v) => Holds(new, kind, g, v)
  PROVE  Tracked(s, Tail(d), new, kind, g, v)
<1> DEFINE M == News(kind, g)
           G == {Update(kind, g, v)}
           t == Tail(d)
<1>1. /\ LastIs(s, M, G) /\ (NoneIn(s, M) => LastIs(d, M, G))
      /\ (NoneIn(s, M) /\ NoneIn(d, M) => Holds(gs, kind, g, v))
      /\ (Head(d) \notin M /\ Holds(gs, kind, g, v) => Holds(new, kind, g, v))
      /\ (Head(d) \in G => Holds(new, kind, g, v))
      /\ (/\ LastIs(s, M, G) /\ (NoneIn(s, M) => LastIs(t, M, G))
          /\ (NoneIn(s, M) /\ NoneIn(t, M) => Holds(new, kind, g, v)))
           => Tracked(s, t, new, kind, g, v)
  BY DEF Tracked
<1> HIDE DEF M, G
<1>2. LastIs(d, M, G) =>
        /\ LastIs(t, M, G)
        /\ Head(d) \notin M /\ NoneIn(t, M) => NoneIn(d, M)
        /\ Head(d) \in M /\ NoneIn(t, M) => Head(d) \in G
  BY LastTaken
<1> QED BY <1>1, <1>2

SharedKinds == {"variables", "events"}

\* Every Group object is the one of a node.
ReferencedBy(ns, gs) == DOMAIN gs = {ns[n].group : n \in DOMAIN ns}

\* What the loop of _nodes_changed_as_node_list leaves alone: values of a group are its own.
Carries(gs, new) ==
  \A kind \in SharedKinds : \A g, v : Holds(gs, kind, g, v) => Holds(new, kind, g, v)

\* Flags of a node are its own, and a new node has none.
Keeps(ns, new) ==
  \A n \in DOMAIN new : new[n].flags = {} \/ (n \in DOMAIN ns /\ new[n].flags = ns[n].flags)

\* _set_group: a new Group object has no values, and one stays only with a node.
LEMMA RegroupedValues ==
  ASSUME NEW ns, NEW gs, Tables(ns, gs), NEW n, NEW node \in NodeRecords, NEW g
  PROVE  LET new == Regrouped(ns, gs, n, node, g)
         IN  /\ ReferencedBy(new.nodes, new.groups) /\ Carries(gs, new.groups)
             /\ new.nodes[n].flags = node.flags
             /\ \A m \in DOMAIN new.nodes \ {n} : m \in DOMAIN ns /\ new.nodes[m] = ns[m]
<1> DEFINE D == DOMAIN ns \ {n}
           known == GroupFromId(ns, gs, g)
           o == IF known # {} THEN CHOOSE x \in known : TRUE
                ELSE CHOOSE x \in Objects : \A m \in D : ns[m].group # x
           left == {o} \cup {ns[m].group : m \in D}
           new == [m \in DOMAIN ns \cup {n} |-> IF m = n THEN [node EXCEPT !.group = o] ELSE ns[m]]
           newg == [p \in left |-> IF p = o /\ known = {} THEN NewGroup(g) ELSE gs[p]]
<1>1. Regrouped(ns, gs, n, node, g) = [nodes |-> new, groups |-> newg]
  BY DEF Regrouped
<1>2. \A m \in DOMAIN ns : ns[m].group \in DOMAIN gs
  BY DEF Tables
<1>3. known # {} => o \in DOMAIN gs
  BY <1>2 DEF GroupFromId
<1> DEFINE fresh == known = {}
<1>4. newg = [p \in left |-> IF p = o /\ fresh THEN NewGroup(g) ELSE gs[p]]
  OBVIOUS
<1>5. ~fresh => o \in DOMAIN gs
  BY <1>3
<1> HIDE DEF o, fresh
<1>6. ReferencedBy(new, newg)
  <2>1. DOMAIN newg = left
    BY <1>4
  <2>2. new[n].group = o /\ \A m \in D : new[m].group = ns[m].group
    BY DEF NodeRecords
  <2>3. DOMAIN new = D \cup {n}
    OBVIOUS
  <2> HIDE DEF new, newg
  <2> QED BY <2>1, <2>2, <2>3 DEF ReferencedBy
<1>7. Carries(gs, newg)
  <2> SUFFICES ASSUME NEW kind \in SharedKinds, NEW h, NEW v, Holds(gs, kind, h, v),
                      NEW p \in DOMAIN newg, newg[p].id = h
               PROVE  newg[p][kind] \in Unset(kind) \cup {v}
    BY DEF Carries, Holds
  <2>1. CASE p = o /\ fresh
    <3>1. newg[p] = NewGroup(g)
      BY <1>4, <2>1
    <3> QED BY <3>1 DEF NewGroup, SharedKinds, Unset
  <2>2. CASE ~ (p = o /\ fresh)
    <3>1. newg[p] = gs[p] /\ p \in DOMAIN gs
      BY <1>2, <1>4, <1>5, <2>2
    <3> QED BY <3>1 DEF Holds
  <2> QED BY <2>1, <2>2
<1>8. new[n].flags = node.flags /\ \A m \in DOMAIN new \ {n} : m \in DOMAIN ns /\ new[m] = ns[m]
  BY DEF NodeRecords
<1> HIDE DEF new, newg
<1> QED BY <1>1, <1>6, <1>7, <1>8

\* One round of the loop of _nodes_changed_as_node_list.
LEMMA UpdatedValues ==
  ASSUME NEW ns, NEW gs, Tables(ns, gs), NEW c \in Entries
  PROVE  LET new == Updated(ns, gs, c)
         IN  ReferencedBy(new.nodes, new.groups) /\ Carries(gs, new.groups) /\ Keeps(ns, new.nodes)
<1>1. c.node \in Nodes /\ c.status \in {"available", "busy", "disconnected"} /\ c.group \in AllGroups
  BY DEF Entries
<1>2. CASE c.status = "disconnected"
  <2> DEFINE rest == DOMAIN ns \ {c.node}
             new == [m \in rest |-> ns[m]]
             newg == [p \in {ns[m].group : m \in rest} |-> gs[p]]
  <2>1. Updated(ns, gs, c) = [nodes |-> new, groups |-> newg]
    BY <1>2 DEF Updated, Deleted
  <2>2. ReferencedBy(new, newg)
    BY DEF ReferencedBy
  <2>3. Carries(gs, newg)
    <3> SUFFICES ASSUME NEW kind \in SharedKinds, NEW h, NEW v, Holds(gs, kind, h, v),
                        NEW p \in DOMAIN newg, newg[p].id = h
                 PROVE  newg[p][kind] \in Unset(kind) \cup {v}
      BY DEF Carries, Holds
    <3>1. p \in DOMAIN gs /\ newg[p] = gs[p]
      BY DEF Tables
    <3> QED BY <3>1 DEF Holds
  <2>4. Keeps(ns, new)
    BY DEF Keeps
  <2> HIDE DEF new, newg
  <2> QED BY <2>1, <2>2, <2>3, <2>4
<1>3. CASE c.status # "disconnected"
  <2> DEFINE old == IF c.node \in DOMAIN ns THEN ns[c.node] ELSE NewNode
             node == [old EXCEPT !.status = c.status]
  <2>1. old \in NodeRecords
    <3>1. 1 \in Objects
      BY ClientAssumption, FS_CardinalityType DEF Objects
    <3>2. NewNode \in NodeRecords
      BY <3>1 DEF NewNode, NodeRecords
    <3> QED BY <3>2 DEF Tables
  <2> HIDE DEF old
  <2>2. node \in NodeRecords /\ node.flags = old.flags
    BY <1>1, <1>3, <2>1 DEF NodeRecords
  <2>3. Updated(ns, gs, c) = Regrouped(ns, gs, c.node, node, c.group)
    BY <1>3 DEF Updated, old
  <2> HIDE DEF node
  <2> DEFINE new == Regrouped(ns, gs, c.node, node, c.group)
  <2>4. /\ ReferencedBy(new.nodes, new.groups) /\ Carries(gs, new.groups)
        /\ new.nodes[c.node].flags = node.flags
        /\ \A m \in DOMAIN new.nodes \ {c.node} : m \in DOMAIN ns /\ new.nodes[m] = ns[m]
    BY <2>2, RegroupedValues
  <2> HIDE DEF new
  <2>5. old.flags = {} \/ (c.node \in DOMAIN ns /\ old.flags = ns[c.node].flags)
    BY DEF old, NewNode
  <2>6. Keeps(ns, new.nodes)
    BY <2>2, <2>4, <2>5 DEF Keeps
  <2> QED BY <2>3, <2>4, <2>6 DEF new
<1> QED BY <1>2, <1>3

\* The loop itself.
LEMMA AllUpdatedValues ==
  ASSUME NEW ns, NEW gs, Tables(ns, gs), ReferencedBy(ns, gs), NEW list \in Seq(Entries)
  PROVE  LET new == AllUpdated(ns, gs, list)
         IN  ReferencedBy(new.nodes, new.groups) /\ Carries(gs, new.groups) /\ Keeps(ns, new.nodes)
<1> DEFINE f == CHOOSE f : Rounds(ns, gs, list, Len(list), f)
           Fine(new) == Tables(new.nodes, new.groups) /\ ReferencedBy(new.nodes, new.groups)
                        /\ Carries(gs, new.groups) /\ Keeps(ns, new.nodes)
<1>1. Len(list) \in Nat /\ \A k \in 1..Len(list) : list[k] \in Entries
  OBVIOUS
<1>2. Rounds(ns, gs, list, Len(list), f)
  BY <1>1, RoundsExist
<1>3. AllUpdated(ns, gs, list) = f[Len(list)]
  BY DEF AllUpdated, Rounds
<1> HIDE DEF f
<1>4. f[0] = [nodes |-> ns, groups |-> gs]
  BY <1>1, <1>2 DEF Rounds
<1>5. \A k \in 1..Len(list) : f[k] = Updated(f[k - 1].nodes, f[k - 1].groups, list[k])
  BY <1>1, <1>2 DEF Rounds
<1>6. ASSUME NEW old, Fine(old), NEW c \in Entries PROVE Fine(Updated(old.nodes, old.groups, c))
  <2>1. /\ Tables(Updated(old.nodes, old.groups, c).nodes, Updated(old.nodes, old.groups, c).groups)
        /\ ReferencedBy(Updated(old.nodes, old.groups, c).nodes, Updated(old.nodes, old.groups, c).groups)
        /\ Carries(old.groups, Updated(old.nodes, old.groups, c).groups)
        /\ Keeps(old.nodes, Updated(old.nodes, old.groups, c).nodes)
    BY <1>6, UpdatedTables, UpdatedValues
  <2>2. Carries(gs, Updated(old.nodes, old.groups, c).groups)
    BY <1>6, <2>1 DEF Carries
  <2>3. Keeps(ns, Updated(old.nodes, old.groups, c).nodes)
    BY <1>6, <2>1 DEF Keeps
  <2> QED BY <2>1, <2>2, <2>3
<1>7. Fine(f[0])
  BY <1>4 DEF Carries, Keeps
<1> HIDE DEF Fine
<1> DEFINE T == {k \in 0..Len(list) : ~Fine(f[k])}
<1>8. T = {}
  <2> SUFFICES ASSUME T # {} PROVE FALSE
    OBVIOUS
  <2>1. PICK x \in T : \A y \in T : x <= y
    <3>1. T \in SUBSET Nat
      BY <1>1
    <3> HIDE DEF T
    <3> QED BY <3>1, LeastNumber
  <2>2. x # 0
    BY <1>7, <2>1
  <2>3. x \in 1..Len(list) /\ x - 1 \in 0..Len(list) /\ x - 1 \notin T
    BY <1>1, <2>1, <2>2
  <2>4. Fine(f[x - 1])
    BY <2>3
  <2>5. Fine(f[x])
    BY <1>1, <1>5, <1>6, <2>3, <2>4
  <2> QED BY <2>1, <2>5
<1>9. Len(list) \in 0..Len(list)
  BY <1>1
<1>10. Fine(f[Len(list)])
  BY <1>8, <1>9
<1> QED BY <1>3, <1>10 DEF Fine

\* Variables sent of a robot are said to be a robot's.
OwnOnly(s) == \A i \in 1..Len(s) : s[i].kind = "variables" /\ s[i].target \in Nodes => s[i].value = Own

\* The inductive invariant: Group objects are those of nodes, and the latest news of every
\* group the session watches is the version the group has.
SharedInv ==
  /\ ReferencedBy(nodes, groups) /\ OwnOnly(strand) /\ OwnOnly(down)
  /\ \A g \in Groups, kind \in SharedKinds :
       Watchers(g) # {} => Tracked(strand, down, groups, kind, g, shared[g][kind])

\* What the server posts is true: about nodes, the version of a group, or of a robot.
IsTrue(m) ==
  \/ m.kind = "nodes"
  \/ \E g \in Groups, kind \in SharedKinds : m = Update(kind, g, shared[g][kind])
  \/ \E n \in Nodes : m = Update("variables", n, Own)

\* A true message that tells of a group tells its version.
LEMMA TrueFacts ==
  ASSUME NEW m, IsTrue(m)
  PROVE  /\ \A g \in Groups, kind \in SharedKinds :
              m \in News(kind, g) => m = Update(kind, g, shared[g][kind])
         /\ m.kind = "variables" /\ m.target \in Nodes => m.value = Own
<1>1. ASSUME NEW g \in Groups, NEW kind \in SharedKinds, m \in News(kind, g)
      PROVE  m = Update(kind, g, shared[g][kind])
  <2>1. m.kind = kind /\ m.target = g /\ g \notin Nodes /\ kind # "nodes"
    BY <1>1, ClientAssumption DEF News, SharedKinds
  <2>2. CASE \E h \in Groups, k \in SharedKinds : m = Update(k, h, shared[h][k])
    <3>1. PICK h \in Groups, k \in SharedKinds : m = Update(k, h, shared[h][k])
      BY <2>2
    <3>2. h = g /\ k = kind
      BY <2>1, <3>1 DEF Update
    <3> QED BY <3>1, <3>2
  <2> QED BY <2>1, <2>2 DEF IsTrue, Update
<1>2. ASSUME m.kind = "variables", m.target \in Nodes PROVE m.value = Own
  BY <1>2, ClientAssumption DEF IsTrue, Update
<1> QED BY <1>1, <1>2

\* Messages joined or taken keep to it that a robot's variables are a robot's.
LEMMA OwnJoined ==
  ASSUME NEW S, NEW s \in Seq(S), NEW t \in Seq(S), OwnOnly(s), OwnOnly(t) PROVE OwnOnly(s \o t)
<1> DEFINE u == s \o t
<1>1. \A i \in 1..Len(u) : (i \in 1..Len(s) /\ u[i] = s[i]) \/ (i - Len(s) \in 1..Len(t) /\ u[i] = t[i - Len(s)])
  OBVIOUS
<1> HIDE DEF u
<1>2. OwnOnly(u)
  BY <1>1 DEF OwnOnly
<1> QED BY <1>2 DEF u

LEMMA OwnTaken ==
  ASSUME NEW S, NEW s \in Seq(S), s # <<>>, OwnOnly(s)
  PROVE  OwnOnly(Tail(s)) /\ (Head(s).kind = "variables" /\ Head(s).target \in Nodes => Head(s).value = Own)
<1> DEFINE t == Tail(s)
<1>1. /\ 1 \in 1..Len(s) /\ Head(s) = s[1]
      /\ \A i \in 1..Len(t) : i + 1 \in 1..Len(s) /\ t[i] = s[i + 1]
  OBVIOUS
<1> HIDE DEF t
<1>2. OwnOnly(t)
  BY <1>1 DEF OwnOnly
<1> QED BY <1>1, <1>2 DEF OwnOnly, t

LEMMA SharedInit == Init => SharedInv
<1> SUFFICES ASSUME Init PROVE SharedInv
  OBVIOUS
<1>1. ReferencedBy(nodes, groups)
  BY DEF Init, ReferencedBy
<1>2. OwnOnly(strand)
  BY DEF Init, OwnOnly
<1>3. OwnOnly(down)
  <2>1. PICK list : down = <<[kind |-> "nodes", changes |-> list]>>
    BY InitFacts
  <2> QED BY <2>1 DEF OwnOnly
<1>4. \A g \in Groups : Watchers(g) = {}
  BY ClientAssumption DEF Init, NotWatching, Watchers
<1> QED BY <1>1, <1>2, <1>3, <1>4 DEF SharedInv

\* The session answers, or not: an answer tells nothing of a group.
LEMMA AnswerWritten ==
  ASSUME Types, OwnOnly(down), down' = down \/ (\E w \in Answers : down' = Append(down, w))
  PROVE  /\ OwnOnly(down')
         /\ \A kind \in SharedKinds : \A s, gs, g, v :
              Tracked(s, down, gs, kind, g, v) => Tracked(s, down', gs, kind, g, v)
<1>1. down \in Seq(DownMessages)
  BY DEF Types, ChannelTypes
<1>2. CASE down' = down
  BY <1>2
<1>3. CASE \E w \in Answers : down' = Append(down, w)
  <2>1. PICK w \in Answers : down' = Append(down, w)
    BY <1>3
  <2>2. w \in DownMessages /\ w.kind \notin SharedKinds
    BY DEF DownMessages, Answers, AnswerKinds, SharedKinds
  <2>3. OwnOnly(down')
    <3> DEFINE t == <<w>>
    <3>1. OwnOnly(t)
      BY <2>2 DEF OwnOnly, SharedKinds
    <3>2. t \in Seq(DownMessages) /\ down' = down \o t
      BY <1>1, <2>1, <2>2
    <3> HIDE DEF t
    <3> QED BY <1>1, <3>1, <3>2, OwnJoined
  <2>4. ASSUME NEW kind \in SharedKinds, NEW s, NEW gs, NEW g, NEW v, Tracked(s, down, gs, kind, g, v)
        PROVE  Tracked(s, down', gs, kind, g, v)
    <3>1. w \notin News(kind, g)
      BY <2>2 DEF News
    <3> QED BY <1>1, <2>1, <2>2, <2>4, <3>1, TrackedWritten
  <2> QED BY <2>3, <2>4
<1> QED BY <1>2, <1>3

\* The server posts what is true, and answers.
LEMMA TruePosted ==
  ASSUME Types, SharedInv, NEW more \in Seq(Signals), strand' = strand \o more,
         \A i \in 1..Len(more) : IsTrue(more[i]),
         UNCHANGED <<nodes, groups, shared>>,
         down' = down \/ (\E w \in Answers : down' = Append(down, w)),
         \A g \in Groups : Watchers(g)' # {} =>
           Watchers(g) # {} \/ \A kind \in SharedKinds : ~NoneIn(more, News(kind, g))
  PROVE  SharedInv'
<1>1. strand \in Seq(Signals)
  BY DEF Types, ChannelTypes
<1>2. OwnOnly(strand')
  <2>1. OwnOnly(more)
    BY TrueFacts DEF OwnOnly
  <2> QED BY <1>1, <2>1, OwnJoined DEF SharedInv
<1>3. OwnOnly(down')
  BY AnswerWritten DEF SharedInv
<1>4. ASSUME NEW g \in Groups, NEW kind \in SharedKinds, Watchers(g)' # {}
      PROVE  Tracked(strand', down', groups, kind, g, shared[g][kind])
  <2>1. \A i \in 1..Len(more) : more[i] \in News(kind, g) => more[i] = Update(kind, g, shared[g][kind])
    BY TrueFacts
  <2>2. Tracked(strand, down, groups, kind, g, shared[g][kind]) \/ ~NoneIn(more, News(kind, g))
    BY <1>4 DEF SharedInv
  <2>3. Tracked(strand', down, groups, kind, g, shared[g][kind])
    BY <1>1, <2>1, <2>2, TrackedPosted
  <2> QED BY <2>3, AnswerWritten DEF SharedInv
<1> QED BY <1>2, <1>3, <1>4 DEF SharedInv

\* The session answers and posts nothing.
LEMMA AnswerOnly ==
  ASSUME Types, SharedInv, UNCHANGED <<nodes, groups, shared, strand, watch>>,
         down' = down \/ (\E w \in Answers : down' = Append(down, w))
  PROVE  SharedInv'
<1>1. OwnOnly(down')
  BY AnswerWritten DEF SharedInv
<1>2. ASSUME NEW g \in Groups, NEW kind \in SharedKinds, Watchers(g) # {}
      PROVE  Tracked(strand, down', groups, kind, g, shared[g][kind])
  <2>1. Tracked(strand, down, groups, kind, g, shared[g][kind])
    BY <1>2 DEF SharedInv
  <2> QED BY <2>1, AnswerWritten DEF SharedInv
<1> QED BY <1>1, <1>2 DEF SharedInv, Watchers

\* do_group_variables_changed and the others.
LEMMA StrandShared ==
  ASSUME Types, SharedInv, RunStrand PROVE SharedInv'
<1> PICK a \in AllGroups : a \in GroupsOf(Head(strand)) /\ down' = Append(down, Written(Head(strand), a))
  BY StrandFacts
<1> DEFINE h == Head(strand)
           w == Written(h, a)
<1>1. /\ strand \in Seq(Signals) /\ down \in Seq(DownMessages) /\ strand # <<>> /\ h \in Signals
      /\ strand' = Tail(strand) /\ down' = Append(down, w)
      /\ UNCHANGED <<nodes, groups, shared, watch>>
  BY StrandFacts DEF Types, ChannelTypes, clientVars, serverVars
<1>2. w \in DownMessages /\ (h.kind # "nodes" => w = h) /\ (h.kind = "nodes" => w.kind = "nodes")
  BY <1>1, WrittenFacts
<1> HIDE DEF h, w
<1>3. OwnOnly(strand') /\ (h.kind = "variables" /\ h.target \in Nodes => h.value = Own)
  BY <1>1, OwnTaken DEF SharedInv, h
<1>4. OwnOnly(down')
  <2> DEFINE t == <<w>>
  <2>1. OwnOnly(t)
    BY <1>2, <1>3 DEF OwnOnly
  <2>2. t \in Seq(DownMessages) /\ down' = down \o t
    BY <1>1, <1>2, AppendOne
  <2> HIDE DEF t
  <2> QED BY <1>1, <2>1, <2>2, OwnJoined DEF SharedInv
<1>5. ASSUME NEW g \in Groups, NEW kind \in SharedKinds, Watchers(g) # {}
      PROVE  Tracked(strand', down', groups, kind, g, shared[g][kind])
  <2>1. Tracked(strand, down, groups, kind, g, shared[g][kind])
    BY <1>5 DEF SharedInv
  <2>2. IF h \in News(kind, g) THEN w = h ELSE w \notin News(kind, g)
    BY <1>2 DEF News, SharedKinds
  <2> QED BY <1>1, <1>2, <2>1, <2>2, TrackedMoved DEF h
<1> QED BY <1>1, <1>3, <1>4, <1>5 DEF SharedInv, Watchers

\* The client takes a message.
LEMMA MessageShared ==
  ASSUME Types, SharedInv, down # <<>>, down' = Tail(down), UNCHANGED <<strand, shared, watch>>,
         ReferencedBy(nodes', groups'),
         \A g \in Groups, kind \in SharedKinds :
           /\ Head(down) \notin News(kind, g) /\ Holds(groups, kind, g, shared[g][kind])
                => Holds(groups', kind, g, shared[g][kind])
           /\ Head(down) = Update(kind, g, shared[g][kind]) => Holds(groups', kind, g, shared[g][kind])
  PROVE  SharedInv'
<1>1. down \in Seq(DownMessages)
  BY DEF Types, ChannelTypes
<1>2. OwnOnly(down')
  BY <1>1, OwnTaken DEF SharedInv
<1>3. ASSUME NEW g \in Groups, NEW kind \in SharedKinds, Watchers(g) # {}
      PROVE  Tracked(strand, down', groups', kind, g, shared[g][kind])
  <2>1. Tracked(strand, down, groups, kind, g, shared[g][kind])
    BY <1>3 DEF SharedInv
  <2> QED BY <1>1, <2>1, TrackedTaken
<1> QED BY <1>2, <1>3 DEF SharedInv, Watchers

\* _nodes_changed_as_node_list: what is known of a group stays with it.
LEMMA ChangedShared ==
  ASSUME Types, SharedInv, OnNodesChanged PROVE SharedInv'
<1> DEFINE list == Head(down).changes
           new == AllUpdated(nodes, groups, list)
<1>1. /\ down # <<>> /\ down' = Tail(down) /\ UNCHANGED <<strand, shared, watch>>
      /\ Head(down).kind = "nodes" /\ list \in Seq(Entries)
  BY ReceiveFacts, NodesChangedFacts DEF OnNodesChanged, serverVars
<1>2. ReferencedBy(nodes', groups') /\ Carries(groups, groups')
  <2>1. CASE heard = "no"
    <3>1. nodes' = nodes /\ groups' = groups
      BY <2>1 DEF OnNodesChanged
    <3> QED BY <3>1 DEF SharedInv, Carries
  <2>2. CASE heard # "no"
    <3>1. nodes' = new.nodes /\ groups' = new.groups
      BY <2>2 DEF OnNodesChanged
    <3>2. Tables(nodes, groups) /\ ReferencedBy(nodes, groups)
      BY DEF Types, ClientTypes, SharedInv
    <3> HIDE DEF list
    <3>3. ReferencedBy(new.nodes, new.groups) /\ Carries(groups, new.groups)
      BY <1>1, <3>2, AllUpdatedValues
    <3> QED BY <3>1, <3>3
  <2> QED BY <2>1, <2>2
<1>3. ASSUME NEW g \in Groups, NEW kind \in SharedKinds
      PROVE  /\ Holds(groups, kind, g, shared[g][kind]) => Holds(groups', kind, g, shared[g][kind])
             /\ Head(down) # Update(kind, g, shared[g][kind])
  BY <1>1, <1>2 DEF Carries, Update, SharedKinds
<1> QED BY <1>1, <1>2, <1>3, MessageShared

\* Group objects that hold what they held.
LEMMA SameValues ==
  ASSUME NEW gs, NEW new, DOMAIN new = DOMAIN gs, NEW kind,
         \A o \in DOMAIN gs : new[o].id = gs[o].id /\ new[o][kind] = gs[o][kind]
  PROVE  \A g, v : Holds(gs, kind, g, v) => Holds(new, kind, g, v)
BY DEF Holds

\* Answers tell nothing of a group.
LEMMA AnswerShared ==
  ASSUME Types, SharedInv, OnAnswer PROVE SharedInv'
<1>1. /\ down # <<>> /\ down' = Tail(down) /\ UNCHANGED <<nodes, groups, strand, shared, watch>>
      /\ Head(down).kind \in {"completed", "error", "description"}
  BY ReceiveFacts DEF OnAnswer, serverVars
<1>2. ReferencedBy(nodes', groups')
  BY <1>1 DEF SharedInv
<1>3. \A g \in Groups, kind \in SharedKinds : Head(down) # Update(kind, g, shared[g][kind])
  BY <1>1 DEF Update, SharedKinds
<1> QED BY <1>1, <1>2, <1>3, MessageShared

\* Variables are stored in the Group object they are for; in another one only those of a robot.
LEMMA VariablesShared ==
  ASSUME Types, SharedInv, OnVariablesChanged PROVE SharedInv'
<1> DEFINE m == Head(down)
           S == StoredIn(m)
<1>1. /\ down # <<>> /\ down' = Tail(down) /\ UNCHANGED <<nodes, strand, shared, watch>>
      /\ groups' = [o \in DOMAIN groups |-> IF o \in S THEN [groups[o] EXCEPT !.variables = m.value]
                                            ELSE groups[o]]
      /\ m.kind = "variables" /\ m \in DownMessages
  BY ReceiveFacts DEF OnVariablesChanged, serverVars
<1>2. m \in Notices /\ (m.target \in Nodes => m.value = Own)
  <2>1. m \in Notices
    BY <1>1 DEF DownMessages, Answers, AnswerKinds
  <2>2. down \in Seq(DownMessages) /\ OwnOnly(down)
    BY DEF Types, ChannelTypes, SharedInv
  <2> QED BY <1>1, <2>1, <2>2, OwnTaken
<1>3. groups \in [DOMAIN groups -> GroupRecords] /\ DOMAIN nodes \subseteq Nodes
  BY DEF Types, ClientTypes, Tables
<1>4. DOMAIN groups' = DOMAIN groups
      /\ \A o \in DOMAIN groups : /\ groups'[o].id = groups[o].id /\ groups'[o].events = groups[o].events
                                  /\ o \in S => groups'[o].variables = m.value
                                  /\ o \notin S => groups'[o].variables = groups[o].variables
  <2>1. \A o \in DOMAIN groups : groups[o] \in GroupRecords
    BY <1>3
  <2> HIDE DEF S, m
  <2> QED BY <1>1, <2>1 DEF GroupRecords
<1>5. ReferencedBy(nodes', groups')
  BY <1>1, <1>4 DEF SharedInv, ReferencedBy
<1>6. ASSUME NEW g \in Groups
      PROVE  /\ Holds(groups, "events", g, shared[g]["events"]) => Holds(groups', "events", g, shared[g]["events"])
             /\ m # Update("events", g, shared[g]["events"])
  BY <1>1, <1>4 DEF Holds, Update
<1>7. ASSUME NEW g \in Groups, m.target = g, NEW o \in DOMAIN groups, groups[o].id = g PROVE o \in S
  <2>1. PICK n \in DOMAIN nodes : nodes[n].group = o
    BY DEF SharedInv, ReferencedBy
  <2>2. n # m.target
    BY <1>3, <1>7, ClientAssumption
  <2> QED BY <1>7, <2>1, <2>2 DEF StoredIn
<1>8. ASSUME NEW g \in Groups, m.target # g, NEW o \in DOMAIN groups, groups[o].id = g, o \in S
      PROVE  m.value = Own
  <2>1. m.target \in Nodes
    <3>1. PICK n \in DOMAIN nodes : /\ nodes[n].group = o
                                    /\ n = m.target \/ groups[nodes[n].group].id = m.target
      BY <1>8 DEF StoredIn
    <3>2. n = m.target
      BY <1>8, <3>1
    <3> QED BY <1>3, <3>2
  <2> QED BY <1>2, <2>1
<1> HIDE DEF S, m
<1>9. ASSUME NEW g \in Groups, NEW v
      PROVE  /\ m \notin News("variables", g) /\ Holds(groups, "variables", g, v)
                  => Holds(groups', "variables", g, v)
             /\ m = Update("variables", g, v) => Holds(groups', "variables", g, v)
  <2>1. m.target = g => m \in News("variables", g)
    BY <1>1, <1>2 DEF Notices, News
  <2>2. ASSUME m.target # g, Holds(groups, "variables", g, v) PROVE Holds(groups', "variables", g, v)
    <3> SUFFICES ASSUME NEW o \in DOMAIN groups, groups[o].id = g
                 PROVE  groups'[o].variables \in Unset("variables") \cup {v}
      BY <1>4 DEF Holds
    <3>1. CASE o \in S
      BY <1>4, <1>8, <2>2, <3>1 DEF Unset
    <3>2. CASE o \notin S
      BY <1>4, <2>2, <3>2 DEF Holds
    <3> QED BY <3>1, <3>2
  <2>3. ASSUME m = Update("variables", g, v) PROVE Holds(groups', "variables", g, v)
    <3> SUFFICES ASSUME NEW o \in DOMAIN groups, groups[o].id = g
                 PROVE  groups'[o].variables \in Unset("variables") \cup {v}
      BY <1>4 DEF Holds
    <3>1. m.target = g /\ m.value = v
      BY <2>3 DEF Update
    <3>2. o \in S
      BY <1>7, <3>1
    <3> QED BY <1>4, <3>1, <3>2
  <2> QED BY <2>1, <2>2, <2>3
<1>10. ASSUME NEW g \in Groups, NEW kind \in SharedKinds
       PROVE  /\ m \notin News(kind, g) /\ Holds(groups, kind, g, shared[g][kind])
                   => Holds(groups', kind, g, shared[g][kind])
              /\ m = Update(kind, g, shared[g][kind]) => Holds(groups', kind, g, shared[g][kind])
  BY <1>6, <1>9 DEF SharedKinds
<1> QED BY <1>1, <1>5, <1>10, MessageShared DEF m

\* Events are stored in the Group object they are for.
LEMMA EventsShared ==
  ASSUME Types, SharedInv, OnEventsDescriptionsChanged PROVE SharedInv'
<1> DEFINE m == Head(down)
           S == GroupFromId(nodes, groups, m.target)
<1>1. /\ down # <<>> /\ down' = Tail(down) /\ UNCHANGED <<nodes, strand, shared, watch>>
      /\ groups' = [o \in DOMAIN groups |-> IF o \in S THEN [groups[o] EXCEPT !.events = m.value]
                                            ELSE groups[o]]
      /\ m.kind = "events" /\ m \in DownMessages
  BY ReceiveFacts DEF OnEventsDescriptionsChanged, serverVars
<1>2. m \in Notices
  BY <1>1 DEF DownMessages, Answers, AnswerKinds
<1>3. groups \in [DOMAIN groups -> GroupRecords]
  BY DEF Types, ClientTypes, Tables
<1>4. DOMAIN groups' = DOMAIN groups
      /\ \A o \in DOMAIN groups : /\ groups'[o].id = groups[o].id /\ groups'[o].variables = groups[o].variables
                                  /\ o \in S => groups'[o].events = m.value
                                  /\ o \notin S => groups'[o].events = groups[o].events
  <2>1. \A o \in DOMAIN groups : groups[o] \in GroupRecords
    BY <1>3
  <2> HIDE DEF S, m
  <2> QED BY <1>1, <2>1 DEF GroupRecords
<1>5. ReferencedBy(nodes', groups')
  BY <1>1, <1>4 DEF SharedInv, ReferencedBy
<1>6. ASSUME NEW o \in DOMAIN groups PROVE o \in S <=> groups[o].id = m.target
  <2>1. PICK n \in DOMAIN nodes : nodes[n].group = o
    BY DEF SharedInv, ReferencedBy
  <2> QED BY <2>1 DEF GroupFromId
<1> HIDE DEF S, m
<1>7. ASSUME NEW g \in Groups, NEW kind \in SharedKinds, NEW v
      PROVE  /\ m \notin News(kind, g) /\ Holds(groups, kind, g, v) => Holds(groups', kind, g, v)
             /\ m = Update(kind, g, v) => Holds(groups', kind, g, v)
  <2>1. CASE kind = "variables"
    BY <1>1, <1>4, <2>1 DEF Holds, Update
  <2>2. CASE kind = "events"
    <3>1. m.target = g => m \in News(kind, g)
      BY <1>1, <1>2, <2>2 DEF Notices, News
    <3>2. m.target # g /\ Holds(groups, kind, g, v) => Holds(groups', kind, g, v)
      BY <1>4, <1>6, <2>2 DEF Holds
    <3>3. m = Update(kind, g, v) => Holds(groups', kind, g, v)
      <4> SUFFICES ASSUME m.target = g, m.value = v PROVE Holds(groups', kind, g, v)
        BY DEF Update
      <4> QED BY <1>4, <1>6, <2>2 DEF Holds
    <3> QED BY <3>1, <3>2, <3>3
  <2> QED BY <2>1, <2>2 DEF SharedKinds
<1> QED BY <1>1, <1>5, <1>7, MessageShared DEF m

\* Calls of the application set flags only.
LEMMA ApplicationShared ==
  ASSUME Types, SharedInv, Application PROVE SharedInv'
<1>1. UNCHANGED <<down, strand, shared, watch>>
  BY ApplicationFacts
<1>2. /\ groups \in [DOMAIN groups -> GroupRecords] /\ nodes \in [DOMAIN nodes -> NodeRecords]
  BY DEF Types, ClientTypes, Tables
<1>3. /\ DOMAIN nodes' = DOMAIN nodes /\ \A n \in DOMAIN nodes : nodes'[n].group = nodes[n].group
  <2>1. CASE \E n \in Nodes, on \in BOOLEAN : SetOnVariablesChanged(n, on) \/ WatchNode(n, on)
    <3>1. PICK n \in Nodes, on \in BOOLEAN : SetOnVariablesChanged(n, on) \/ WatchNode(n, on)
      BY <2>1
    <3>2. n \in DOMAIN nodes
      BY <3>1 DEF SetOnVariablesChanged, WatchNode
    <3>3. \E new : nodes' \in {[nodes EXCEPT ![n].flags = new, ![n].callback = on], [nodes EXCEPT ![n].flags = new]}
      <4>1. CASE SetOnVariablesChanged(n, on)
        BY <4>1 DEF SetOnVariablesChanged
      <4>2. CASE WatchNode(n, on)
        BY <4>2 DEF WatchNode
      <4> QED BY <3>1, <4>1, <4>2
    <3>4. PICK new : nodes' \in {[nodes EXCEPT ![n].flags = new, ![n].callback = on], [nodes EXCEPT ![n].flags = new]}
      BY <3>3
    <3>5. nodes[n] \in NodeRecords
      BY <1>2, <3>2
    <3>6. nodes'[n].group = nodes[n].group
      BY <3>2, <3>4, <3>5 DEF NodeRecords
    <3>7. DOMAIN nodes' = DOMAIN nodes /\ \A m \in DOMAIN nodes : m # n => nodes'[m] = nodes[m]
      BY <3>4
    <3> QED BY <3>6, <3>7
  <2>2. CASE ~ \E n \in Nodes, on \in BOOLEAN : SetOnVariablesChanged(n, on) \/ WatchNode(n, on)
    <3>1. nodes' = nodes
      BY <2>2 DEF Application, ListenToNodes, AskDescription, AskDevice, AskServer, Ask, WatchGroup
    <3> QED BY <3>1
  <2> QED BY <2>1, <2>2
<1>4. /\ DOMAIN groups' = DOMAIN groups
      /\ \A o \in DOMAIN groups : /\ groups'[o].id = groups[o].id /\ groups'[o].variables = groups[o].variables
                                  /\ groups'[o].events = groups[o].events
  <2>1. CASE groups' = groups
    BY <2>1
  <2>2. CASE groups' # groups
    <3>1. PICK n \in Nodes, on \in BOOLEAN : WatchGroup(n, on)
      BY <2>2 DEF Application, ListenToNodes, AskDescription, AskDevice, AskServer, Ask,
                  SetOnVariablesChanged, WatchNode
    <3>2. PICK new : groups' = [groups EXCEPT ![nodes[n].group].flags = new]
      BY <3>1 DEF WatchGroup
    <3>3. \A o \in DOMAIN groups : groups[o] \in GroupRecords
      BY <1>2
    <3> QED BY <3>2, <3>3 DEF GroupRecords
  <2> QED BY <2>1, <2>2
<1>5. ReferencedBy(nodes', groups')
  BY <1>3, <1>4 DEF SharedInv, ReferencedBy
<1>6. \A g : \A kind \in SharedKinds : \A v : Holds(groups, kind, g, v) => Holds(groups', kind, g, v)
  BY <1>4 DEF Holds, SharedKinds
<1>7. ASSUME NEW g \in Groups, NEW kind \in SharedKinds, Watchers(g) # {}
      PROVE  Tracked(strand, down, groups', kind, g, shared[g][kind])
  <2>1. Tracked(strand, down, groups, kind, g, shared[g][kind])
    BY <1>7 DEF SharedInv
  <2> QED BY <1>6, <2>1 DEF Tracked
<1> QED BY <1>1, <1>5, <1>7 DEF SharedInv, Watchers

\* What the server sends of a group is true.
LEMMA CurrentValues ==
  ASSUME NEW g \in Groups
  PROVE  /\ SharedVariables(g) = Update("variables", g, shared[g]["variables"])
         /\ EventsTable(g) = Update("events", g, shared[g]["events"])
         /\ IsTrue(SharedVariables(g)) /\ IsTrue(EventsTable(g))
<1>1. /\ SharedVariables(g) = Update("variables", g, shared[g]["variables"])
      /\ EventsTable(g) = Update("events", g, shared[g]["events"])
  BY DEF SharedVariables, EventsTable, Update
<1> QED BY <1>1 DEF IsTrue, SharedKinds

\* True messages, joined.
LEMMA TrueJoined ==
  ASSUME NEW s \in Seq(Signals), NEW t \in Seq(Signals),
         \A i \in 1..Len(s) : IsTrue(s[i]), \A i \in 1..Len(t) : IsTrue(t[i])
  PROVE  \A i \in 1..Len(s \o t) : IsTrue((s \o t)[i])
<1> DEFINE u == s \o t
<1>1. \A i \in 1..Len(u) : (i \in 1..Len(s) /\ u[i] = s[i]) \/ (i - Len(s) \in 1..Len(t) /\ u[i] = t[i - Len(s)])
  OBVIOUS
<1> HIDE DEF u
<1>2. \A i \in 1..Len(u) : IsTrue(u[i])
  BY <1>1
<1> QED BY <1>2 DEF u

\* What is sent when a group is watched for the first time: what it has.
LEMMA FirstValuesTrue ==
  ASSUME Types, NEW id \in Ids, NEW flags
  PROVE  /\ \A i \in 1..Len(FirstValues(id, flags)) : IsTrue(FirstValues(id, flags)[i])
         /\ "shared" \in flags /\ ServerGroup(id) # {} /\ watch.shared[id] = NoConnection
              => \A kind \in SharedKinds :
                   ~NoneIn(FirstValues(id, flags), News(kind, CHOOSE g \in ServerGroup(id) : TRUE))
<1> DEFINE g == CHOOSE g \in ServerGroup(id) : TRUE
           first == "shared" \in flags /\ ServerGroup(id) # {} /\ watch.shared[id] = NoConnection
           own == "variables" \in flags /\ id \in Registered /\ watch.own[id] = 0
           m == [kind |-> "variables", target |-> id, value |-> Own]
           one == IF first THEN <<SharedVariables(g), EventsTable(g)>> ELSE <<>>
           two == IF own THEN <<m>> ELSE <<>>
<1>1. FirstValues(id, flags) = one \o two
  BY DEF FirstValues
<1>2. first => g \in Groups
  BY ServerGroupFacts
<1>3. first => /\ SharedVariables(g) \in Signals /\ EventsTable(g) \in Signals
               /\ IsTrue(SharedVariables(g)) /\ IsTrue(EventsTable(g))
               /\ SharedVariables(g) \in News("variables", g) /\ EventsTable(g) \in News("events", g)
  <2> SUFFICES ASSUME first
               PROVE /\ SharedVariables(g) \in Signals /\ EventsTable(g) \in Signals
                     /\ IsTrue(SharedVariables(g)) /\ IsTrue(EventsTable(g))
                     /\ SharedVariables(g) \in News("variables", g) /\ EventsTable(g) \in News("events", g)
    OBVIOUS
  <2>1. g \in Groups
    BY <1>2
  <2> HIDE DEF g
  <2>2. SharedVariables(g) \in Notices /\ EventsTable(g) \in Notices
    BY <2>1, ValuesSignals
  <2>3. /\ SharedVariables(g) = Update("variables", g, shared[g]["variables"])
        /\ EventsTable(g) = Update("events", g, shared[g]["events"])
        /\ IsTrue(SharedVariables(g)) /\ IsTrue(EventsTable(g))
    BY <2>1, CurrentValues
  <2>4. SharedVariables(g) \in News("variables", g) /\ EventsTable(g) \in News("events", g)
    BY <2>2, <2>3 DEF Notices, Update, News
  <2> QED BY <2>2, <2>3, <2>4 DEF Signals
<1>4. own => m \in Signals /\ IsTrue(m)
  BY DEF Signals, Notices, Own, IsTrue, Update, Registered
<1> DEFINE a == SharedVariables(g)
           b == EventsTable(g)
<1>5. /\ one = IF first THEN <<a, b>> ELSE <<>>
      /\ first => /\ a \in Signals /\ b \in Signals /\ IsTrue(a) /\ IsTrue(b)
                  /\ a \in News("variables", g) /\ b \in News("events", g)
  BY <1>3
<1> HIDE DEF first, own, a, b, m, one, g
<1>6. one \in Seq(Signals) /\ \A i \in 1..Len(one) : IsTrue(one[i])
  BY <1>5
<1>7. two \in Seq(Signals) /\ \A i \in 1..Len(two) : IsTrue(two[i])
  BY <1>4
<1> HIDE DEF two
<1>8. \A i \in 1..Len(one \o two) : IsTrue((one \o two)[i])
  BY <1>6, <1>7, TrueJoined
<1>9. ASSUME first, NEW kind \in SharedKinds PROVE ~NoneIn(one \o two, News(kind, g))
  <2> DEFINE u == one \o two
  <2>1. one = <<a, b>>
    BY <1>5, <1>9
  <2>2. Len(two) \in Nat /\ Len(u) = Len(one) + Len(two) /\ \A i \in 1..Len(one) : u[i] = one[i]
    BY <1>6, <1>7
  <2>3. Len(one) = 2 /\ one[1] = a /\ one[2] = b
    BY <2>1
  <2> HIDE DEF u
  <2>4. 1 \in 1..Len(u) /\ 2 \in 1..Len(u) /\ u[1] = a /\ u[2] = b
    BY <2>2, <2>3
  <2>5. ~NoneIn(u, News(kind, g))
    BY <1>5, <1>9, <2>4 DEF NoneIn, SharedKinds
  <2> QED BY <2>5 DEF u
<1> QED BY <1>1, <1>8, <1>9 DEF first, g

\* watch_node_or_group: a group that was not watched is sent as it is.
LEMMA WatchShared ==
  ASSUME Types, SharedInv, WatchNodeOrGroup PROVE SharedInv'
<1> DEFINE r == Head(up)
           more == FirstValues(r.target, r.flags)
<1>1. Handle("watch") /\ UNCHANGED <<clientVars, registry, conn, since, shared, later, changes>>
  BY DEF WatchNodeOrGroup
<1>2. r \in RequestMessages /\ r.target \in Ids
  BY <1>1, HandleFacts DEF RequestMessages
<1>3. \E w \in Answers : down' = Append(down, w)
  BY <1>2, WatchTypes, AnswerMessage DEF Replies
<1>4. CASE ServerGroup(r.target) = {}
  <2>1. UNCHANGED <<watch, strand>>
    BY <1>4 DEF WatchNodeOrGroup
  <2> QED BY <1>1, <1>3, <2>1, AnswerOnly DEF clientVars
<1>5. CASE ServerGroup(r.target) # {}
  <2>1. /\ strand' = strand \o more
        /\ watch'.shared = [watch.shared EXCEPT ![r.target] = SharedWatch(r.target, r.flags)]
    BY <1>5 DEF WatchNodeOrGroup
  <2>2. more \in Seq(Signals)
    BY <1>2, FirstValuesSignals, NoticesSilent
  <2>3. \A i \in 1..Len(more) : IsTrue(more[i])
    BY <1>2, FirstValuesTrue
  <2>4. watch.shared \in [Ids -> Groups \cup {NoConnection}]
    BY DEF Types, ServerTypes
  <2>5. ASSUME NEW g \in Groups, Watchers(g)' # {}, Watchers(g) = {}
        PROVE  \A kind \in SharedKinds : ~NoneIn(more, News(kind, g))
    <3>1. watch'.shared[r.target] = g /\ watch.shared[r.target] # g
      <4>1. PICK id \in Ids : watch'.shared[id] = g
        BY <2>5 DEF Watchers
      <4>2. watch.shared[id] # g /\ watch.shared[r.target] # g
        BY <1>2, <2>5 DEF Watchers
      <4>3. id # r.target => watch'.shared[id] = watch.shared[id]
        BY <2>1, <2>4
      <4> QED BY <4>1, <4>2, <4>3
    <3>2. SharedWatch(r.target, r.flags) = g
      BY <1>2, <2>1, <2>4, <3>1
    <3>3. /\ "shared" \in r.flags /\ watch.shared[r.target] = NoConnection
          /\ g = CHOOSE h \in ServerGroup(r.target) : TRUE
      BY <3>1, <3>2, ClientAssumption DEF SharedWatch
    <3> QED BY <1>2, <1>5, <3>3, FirstValuesTrue
  <2> HIDE DEF more
  <2> QED BY <1>1, <1>3, <2>1, <2>2, <2>3, <2>5, TruePosted DEF clientVars
<1> QED BY <1>4, <1>5

\* The other handlers of requests answer.
LEMMA ReadShared ==
  ASSUME Types, SharedInv, HandleRead \/ (\E r \in later : AnswerLater(r) \/ RefuseLater(r) \/ DropLater(r)) PROVE SharedInv'
<1>1. ASSUME NEW r \in RequestMessages, Replies(r) PROVE \E w \in Answers : down' = Append(down, w)
  BY <1>1, AnswerMessage DEF Replies
<1>2. CASE WatchNodeOrGroup
  BY <1>2, WatchShared
<1>3. CASE SendAsebaVMDescription
  BY <1>1, <1>3, HandleFacts, DescriptionTypes, AnswerOnly DEF SendAsebaVMDescription, clientVars, serverVars
<1>4. CASE HandleServer
  BY <1>1, <1>4, HandleFacts, ServerTypesKept, AnswerOnly DEF HandleServer, clientVars, serverVars
<1>5. CASE HandleDevice
  BY <1>5, AnswerOnly DEF HandleDevice, clientVars
<1>6. ASSUME NEW r \in later, AnswerLater(r) \/ RefuseLater(r) PROVE SharedInv'
  <2>1. UNCHANGED <<nodes, groups, shared, strand, watch>>
    BY <1>6 DEF AnswerLater, RefuseLater, clientVars
  <2> QED BY <1>1, <1>6, <2>1, LaterTypes, AnswerOnly
<1>7. ASSUME NEW r \in later, DropLater(r) PROVE SharedInv'
  BY <1>7, AnswerOnly DEF DropLater, clientVars
<1> QED BY <1>2, <1>3, <1>4, <1>5, <1>6, <1>7 DEF HandleRead

\* _onclose: the session ends, and its connections with it.
LEMMA CloseShared ==
  ASSUME Types, SharedInv, OnClose PROVE SharedInv'
<1>1. strand' = <<>> /\ down' = <<>> /\ watch' = NotWatching /\ UNCHANGED <<nodes, groups, shared>>
  BY DEF OnClose
<1>2. OwnOnly(strand') /\ OwnOnly(down')
  BY <1>1 DEF OwnOnly
<1>3. \A g \in Groups : Watchers(g)' = {}
  BY <1>1, ClientAssumption DEF NotWatching, Watchers
<1> QED BY <1>1, <1>2, <1>3 DEF SharedInv

\* A signal to a session that watches a group reaches it at least once.
LEMMA SignalledFacts ==
  ASSUME NEW g, NEW m \in Notices
  PROVE  /\ \A i \in 1..Len(Signalled(g, m)) : Signalled(g, m)[i] = m
         /\ Watchers(g) # {} => 1 \in 1..Len(Signalled(g, m))
<1>1. IsFiniteSet(Ids)
  BY ClientAssumption, FS_Union DEF Ids
<1>2. IsFiniteSet(Watchers(g))
  <2>1. Watchers(g) \in SUBSET Ids
    BY DEF Watchers
  <2> QED BY <1>1, <2>1, FS_Subset
<1>3. Cardinality(Watchers(g)) \in Nat /\ (Watchers(g) # {} => Cardinality(Watchers(g)) # 0)
  BY <1>2, FS_CardinalityType, FS_EmptySet
<1>4. Len(Signalled(g, m)) = Cardinality(Watchers(g))
  BY SignalledNotices
<1> QED BY <1>3, <1>4 DEF Signalled

\* set_shared_variables, set_events_table: a session that watches the group is told.
LEMMA SetShared ==
  ASSUME Types, SharedInv, NEW g \in Groups, NEW kind \in SharedKinds, NEW v \in Nat,
         shared' = [shared EXCEPT ![g] = [shared[g] EXCEPT ![kind] = v]],
         strand' = strand \o Signalled(g, Update(kind, g, v)),
         UNCHANGED <<nodes, groups, down, watch>>
  PROVE  SharedInv'
<1> DEFINE m == Update(kind, g, v)
           more == Signalled(g, m)
<1>1. m \in Notices /\ m \in News(kind, g) /\ m.target \notin Nodes
  BY ClientAssumption DEF Update, Notices, News, SharedKinds, Ids
<1>2. /\ strand \in Seq(Signals) /\ more \in Seq(Signals)
      /\ shared \in [Groups -> [variables : Nat, events : Nat]]
  BY <1>1, SignalledNotices DEF Types, ChannelTypes, ServerTypes
<1> HIDE DEF m
<1>3. /\ \A i \in 1..Len(more) : more[i] = m
      /\ Watchers(g) # {} => 1 \in 1..Len(more)
  BY <1>1, SignalledFacts
<1> HIDE DEF more
<1>4. OwnOnly(strand')
  <2>1. OwnOnly(more)
    BY <1>1, <1>3 DEF OwnOnly
  <2> QED BY <1>2, <2>1, OwnJoined DEF SharedInv, more, m
<1>5. /\ \A h \in Groups : h # g => shared'[h] = shared[h]
      /\ shared'[g][kind] = v
      /\ \A k \in SharedKinds : k # kind => shared'[g][k] = shared[g][k]
  BY <1>2 DEF SharedKinds
<1>6. ASSUME NEW h \in Groups, NEW k \in SharedKinds, Watchers(h) # {}
      PROVE  Tracked(strand', down, groups, k, h, shared'[h][k])
  <2>1. Tracked(strand, down, groups, k, h, shared[h][k])
    BY <1>6 DEF SharedInv
  <2>2. CASE h = g /\ k = kind
    <3>1. ~NoneIn(more, News(k, h))
      BY <1>1, <1>3, <1>6, <2>2 DEF NoneIn
    <3>2. \A i \in 1..Len(more) : more[i] = Update(k, h, v)
      BY <1>3, <2>2 DEF m
    <3>3. Tracked(strand \o more, down, groups, k, h, v)
      BY <1>2, <3>1, <3>2, TrackedPosted
    <3> QED BY <1>5, <2>2, <3>3 DEF more, m
  <2>3. CASE ~(h = g /\ k = kind)
    <3>1. m \notin News(k, h)
      BY <1>1, <2>3 DEF News
    <3>2. \A i \in 1..Len(more) : more[i] \notin News(k, h)
      BY <1>3, <3>1
    <3>3. Tracked(strand \o more, down, groups, k, h, shared[h][k])
      BY <1>2, <2>1, <3>2, TrackedPosted
    <3>4. shared'[h][k] = shared[h][k]
      BY <1>5, <2>3
    <3> QED BY <3>3, <3>4 DEF more, m
  <2> QED BY <2>2, <2>3
<1> QED BY <1>4, <1>5, <1>6 DEF SharedInv, Watchers

\* What is true is posted, in three parts.
LEMMA TruePostedThrice ==
  ASSUME Types, SharedInv, NEW a \in Seq(Signals), NEW b \in Seq(Signals), NEW c \in Seq(Signals),
         strand' = strand \o a \o b \o c,
         \A i \in 1..Len(a) : IsTrue(a[i]), \A i \in 1..Len(b) : IsTrue(b[i]), \A i \in 1..Len(c) : IsTrue(c[i]),
         UNCHANGED <<nodes, groups, shared, down, watch>>
  PROVE  SharedInv'
<1> DEFINE f == a \o b
           more == f \o c
<1>1. f \in Seq(Signals) /\ \A i \in 1..Len(f) : IsTrue(f[i])
  BY TrueJoined, Joined
<1>2. strand \in Seq(Signals)
  BY DEF Types, ChannelTypes
<1>3. strand' = strand \o more
  <2>1. strand \o a \o b = strand \o f
    BY <1>2
  <2> HIDE DEF f
  <2>2. (strand \o f) \o c = strand \o (f \o c)
    BY <1>1, <1>2
  <2> QED BY <2>1, <2>2, Zenon
<1> HIDE DEF f
<1>4. more \in Seq(Signals) /\ \A i \in 1..Len(more) : IsTrue(more[i])
  BY <1>1, TrueJoined, Joined
<1>5. \A h \in Groups : Watchers(h)' = Watchers(h)
  BY DEF Watchers
<1> HIDE DEF more
<1> QED BY <1>3, <1>4, <1>5, TruePosted

\* The server posts what is true, and more when the version of a group moves on.
LEMMA EnvironmentShared ==
  ASSUME Types, SharedInv, Environment PROVE SharedInv'
<1>0. strand \in Seq(Signals) /\ shared \in [Groups -> [variables : Nat, events : Nat]]
  BY DEF Types, ChannelTypes, ServerTypes
<1>1. ASSUME NEW m \in Signals, IsTrue(m), strand' = Append(strand, m),
             UNCHANGED <<nodes, groups, shared, down, watch>>
      PROVE  SharedInv'
  <2> DEFINE more == <<m>>
  <2>1. more \in Seq(Signals) /\ strand' = strand \o more
    BY <1>0, <1>1, AppendOne
  <2>2. \A i \in 1..Len(more) : IsTrue(more[i])
    BY <1>1
  <2>3. \A g \in Groups : Watchers(g)' = Watchers(g)
    BY <1>1 DEF Watchers
  <2> HIDE DEF more
  <2> QED BY <1>1, <2>1, <2>2, <2>3, TruePosted
<1>2. ASSUME NEW n \in Nodes, NEW g \in Groups, Connect(n, g) PROVE SharedInv'
  <2> DEFINE m == [Changed(n, "available") EXCEPT !.conn = conn[n] + 1]
  <2>1. strand' = Append(strand, m) /\ UNCHANGED <<nodes, groups, shared, down, watch>>
    BY <1>2 DEF Connect, clientVars
  <2>2. m \in Signals
    BY ChangedSignal
  <2>3. m.kind = "nodes"
    BY DEF Changed
  <2> HIDE DEF m
  <2> QED BY <1>1, <2>1, <2>2, <2>3 DEF IsTrue
<1>3. ASSUME NEW n \in Nodes, NEW s \in {"available", "busy", "disconnected"},
             strand' = Append(strand, Changed(n, s)), UNCHANGED <<nodes, groups, shared, down, watch>>
      PROVE  SharedInv'
  <2>1. Changed(n, s) \in Signals /\ Changed(n, s).kind = "nodes"
    BY ChangedSignal DEF Changed
  <2> QED BY <1>1, <1>3, <2>1 DEF IsTrue
<1>4. ASSUME NEW n \in Nodes, SetStatus(n) \/ Disconnect(n) PROVE SharedInv'
  <2>1. UNCHANGED <<nodes, groups, shared, down, watch>>
    BY <1>4 DEF SetStatus, Disconnect, clientVars
  <2>2. \E s \in {"available", "busy", "disconnected"} : strand' = Append(strand, Changed(n, s))
    BY <1>4 DEF SetStatus, Disconnect
  <2> QED BY <1>3, <2>1, <2>2
<1>5. ASSUME NEW n \in Nodes, OwnVariablesChanged(n) PROVE SharedInv'
  <2>1. /\ strand' = Append(strand, Update("variables", n, Own))
        /\ UNCHANGED <<nodes, groups, shared, down, watch>>
    BY <1>5 DEF OwnVariablesChanged, clientVars, Update
  <2>2. Update("variables", n, Own) \in Signals
    BY DEF Update, Signals, Notices, Own, Ids
  <2>3. IsTrue(Update("variables", n, Own))
    BY DEF IsTrue
  <2> QED BY <1>1, <2>1, <2>2, <2>3
<1>6. ASSUME NEW n \in Nodes, NEW g \in Groups, AttachToEndpoint(n, g) PROVE SharedInv'
  <2> DEFINE m == Changed(n, registry[n].status)
             first == <<m>>
             one == Signalled(g, SharedVariables(g))
             two == Signalled(g, EventsTable(g))
  <2>1. /\ n \in Registered /\ strand' = strand \o first \o one \o two
        /\ UNCHANGED <<nodes, groups, shared, down, watch>>
    BY <1>6 DEF AttachToEndpoint, clientVars
  <2>2. m \in Signals /\ IsTrue(m)
    <3>1. m \in Signals
      BY <2>1, RegisteredFacts, ChangedSignal
    <3>2. m.kind = "nodes"
      BY DEF Changed
    <3> QED BY <3>1, <3>2 DEF IsTrue
  <2>3. first \in Seq(Signals) /\ \A i \in 1..Len(first) : IsTrue(first[i])
    <3> HIDE DEF m
    <3> QED BY <2>2
  <2>4. one \in Seq(Signals) /\ \A i \in 1..Len(one) : IsTrue(one[i])
    <3> DEFINE w == SharedVariables(g)
    <3>1. w \in Notices /\ IsTrue(w)
      BY ValuesSignals, CurrentValues
    <3> HIDE DEF w
    <3>2. Signalled(g, w) \in Seq(Signals) /\ \A i \in 1..Len(Signalled(g, w)) : Signalled(g, w)[i] = w
      BY <3>1, SignalledNotices, SignalledFacts
    <3> QED BY <3>1, <3>2 DEF w
  <2>5. two \in Seq(Signals) /\ \A i \in 1..Len(two) : IsTrue(two[i])
    <3> DEFINE w == EventsTable(g)
    <3>1. w \in Notices /\ IsTrue(w)
      BY ValuesSignals, CurrentValues
    <3> HIDE DEF w
    <3>2. Signalled(g, w) \in Seq(Signals) /\ \A i \in 1..Len(Signalled(g, w)) : Signalled(g, w)[i] = w
      BY <3>1, SignalledNotices, SignalledFacts
    <3> QED BY <3>1, <3>2 DEF w
  <2> HIDE DEF m, first, one, two
  <2> QED BY <2>1, <2>3, <2>4, <2>5, TruePostedThrice
<1>7. ASSUME NEW g \in Groups, SetSharedVariables(g) PROVE SharedInv'
  <2> DEFINE v == shared[g].variables + 1
  <2>1. v \in Nat
    BY <1>0
  <2>2. [SharedVariables(g) EXCEPT !.value = @ + 1] = Update("variables", g, v)
    BY DEF SharedVariables, Update
  <2>3. shared' = [shared EXCEPT ![g] = [shared[g] EXCEPT !["variables"] = v]]
    BY <1>0, <1>7 DEF SetSharedVariables
  <2>4. strand' = strand \o Signalled(g, Update("variables", g, v)) /\ UNCHANGED <<nodes, groups, down, watch>>
    BY <1>7, <2>2 DEF SetSharedVariables, clientVars
  <2> HIDE DEF v
  <2> QED BY <2>1, <2>3, <2>4, SetShared DEF SharedKinds
<1>8. ASSUME NEW g \in Groups, SetEventsTable(g) PROVE SharedInv'
  <2> DEFINE v == shared[g].events + 1
  <2>1. v \in Nat
    BY <1>0
  <2>2. [EventsTable(g) EXCEPT !.value = @ + 1] = Update("events", g, v)
    BY DEF EventsTable, Update
  <2>3. shared' = [shared EXCEPT ![g] = [shared[g] EXCEPT !["events"] = v]]
    BY <1>0, <1>8 DEF SetEventsTable
  <2>4. strand' = strand \o Signalled(g, Update("events", g, v)) /\ UNCHANGED <<nodes, groups, down, watch>>
    BY <1>8, <2>2 DEF SetEventsTable, clientVars
  <2> HIDE DEF v
  <2> QED BY <2>1, <2>3, <2>4, SetShared DEF SharedKinds
<1> QED BY <1>2, <1>4, <1>5, <1>6, <1>7, <1>8 DEF Environment

LEMMA SharedInductive == Types /\ SharedInv /\ [Next]_vars => SharedInv'
<1> SUFFICES ASSUME Types, SharedInv, [Next]_vars PROVE SharedInv'
  OBVIOUS
<1>1. CASE UNCHANGED vars
  BY <1>1 DEF SharedInv, Watchers, vars, clientVars, serverVars
<1>2. CASE OnMessage
  BY <1>2, ChangedShared, AnswerShared, VariablesShared, EventsShared DEF OnMessage
<1>3. CASE HandleRead \/ \E r \in later : AnswerLater(r) \/ RefuseLater(r) \/ DropLater(r)
  BY <1>3, ReadShared
<1> QED BY <1>1, <1>2, <1>3, ApplicationShared, CloseShared, StrandShared, EnvironmentShared DEF Next

\* The latest news of each group is true in every reachable state.
THEOREM SharedInvariance == Spec => []SharedInv
BY TypesInvariance, SharedInit, SharedInductive, PTL DEF Spec

\* Once all is delivered, what the client knows of a group its session watches is what the
\* group has: through any order of changes, of nodes that come, go and change group, and of
\* objects made and collected, no update is lost and none is stored in another group's
\* object.  The latest news of each group is true wherever it is: posted, written, or stored.
THEOREM SharedCurrentAlways == Spec => []SharedCurrent
<1>1. Types /\ SharedInv => SharedCurrent
  <2> SUFFICES ASSUME Types, SharedInv, Quiet, NEW o \in DOMAIN groups, Watchers(groups[o].id) # {}
               PROVE  /\ groups[o].variables \in {Null, Own, shared[groups[o].id].variables}
                      /\ groups[o].events \in {Null, shared[groups[o].id].events}
    BY DEF SharedCurrent
  <2> DEFINE g == groups[o].id
  <2>1. g \in Groups
    <3>1. watch.shared \in [Ids -> Groups \cup {NoConnection}]
      BY DEF Types, ServerTypes
    <3>2. g \in AllGroups
      BY DEF Types, ClientTypes, Tables, GroupRecords
    <3> QED BY <3>1, <3>2, ClientAssumption DEF Watchers, AllGroups
  <2>2. \A kind \in SharedKinds : NoneIn(strand, News(kind, g)) /\ NoneIn(down, News(kind, g))
    BY DEF Quiet, NoneIn
  <2>3. \A kind \in SharedKinds : Holds(groups, kind, g, shared[g][kind])
    <3>1. \A kind \in SharedKinds : Tracked(strand, down, groups, kind, g, shared[g][kind])
      BY <2>1 DEF SharedInv
    <3> QED BY <2>2, <3>1 DEF Tracked
  <2>4. \A kind \in SharedKinds : groups[o][kind] \in Unset(kind) \cup {shared[g][kind]}
    BY <2>3 DEF Holds
  <2> QED BY <2>4 DEF SharedKinds, Unset
<1> QED BY <1>1, SharedInvariance, TypesInvariance, PTL

-----------------------------------------------------------------------------
(* What the session watches of a node *)

\* Requests to watch the node or to watch it no more, and those that ask for its variables.
Watches(n) == {r \in RequestMessages : r.kind = "watch" /\ r.target = n}
Wanting == {r \in RequestMessages : "variables" \in r.flags}

\* The signals, and the messages, that say that the node has gone.
Departures(n) == {m \in Signals : About(m, n) /\ m.status = "disconnected"}
Farewells(n) ==
  {m \in DownMessages : /\ m.kind = "nodes"
                        /\ \E j \in 1..Len(m.changes) : /\ m.changes[j].node = n
                                                        /\ m.changes[j].status = "disconnected"}

\* The client is still to be told that the node has gone.
Leaving(s, d, n) == ~NoneIn(s, Departures(n)) \/ ~NoneIn(d, Farewells(n))

\* The objects of a node since the clients were told of a disconnection.
SinceInv == \A n \in Nodes : since[n] <= conn[n]

Current(n) == watch.own[n] \in since[n]..conn[n]

\* The last request is for the variables of the node; if all are handled, the session is
\* connected to one of its objects since then.
Served(n) ==
  /\ LastIs(up, Watches(n), Wanting)
  /\ NoneIn(up, Watches(n)) => (n \in Registered => Current(n))

\* Variables the client is to get are asked for or watched, unless the object they are of has
\* gone and the client is still to be told.
WatchInv ==
  socket = "open" => \A n \in DOMAIN nodes :
     "variables" \in nodes[n].flags /\ ~Leaving(strand, down, n) => Served(n)

\* Of the messages of s that are in M there is a last one.
LEMMA LastExists ==
  ASSUME NEW S, NEW s \in Seq(S), NEW M, ~NoneIn(s, M)
  PROVE  \E i \in 1..Len(s) : s[i] \in M /\ \A j \in 1..Len(s) : j > i => s[j] \notin M
<1>1. Len(s) \in Nat
  OBVIOUS
<1> DEFINE T == {k \in 0..Len(s) : Len(s) - k \in 1..Len(s) /\ s[Len(s) - k] \in M}
<1>2. PICK i \in 1..Len(s) : s[i] \in M
  BY DEF NoneIn
<1>3. Len(s) - i \in T
  <2>1. Len(s) - i \in 0..Len(s) /\ Len(s) - (Len(s) - i) = i
    BY <1>1
  <2> QED BY <1>2, <2>1
<1>4. T \in SUBSET Nat
  BY <1>1
<1>5. PICK k \in T : \A l \in T : k <= l
  <2> HIDE DEF T
  <2> QED BY <1>3, <1>4, LeastNumber
<1>6. ASSUME NEW j \in 1..Len(s), j > Len(s) - k PROVE s[j] \notin M
  <2> SUFFICES ASSUME s[j] \in M PROVE FALSE
    OBVIOUS
  <2>1. Len(s) - j \in 0..Len(s) /\ Len(s) - (Len(s) - j) = j
    BY <1>1
  <2>2. Len(s) - j \in T
    BY <2>1
  <2>3. k <= Len(s) - j /\ k \in Nat
    BY <1>4, <1>5, <2>2
  <2> QED BY <1>1, <1>6, <2>3
<1> QED BY <1>5, <1>6

\* A node the client shows and the server has not is one it is still to be told of.
LEMMA GoneIsLeaving ==
  ASSUME Types, NodesInv, socket = "open", NEW n \in DOMAIN nodes, n \notin Registered
  PROVE  Leaving(strand, down, n)
<1>1. /\ n \in Nodes /\ strand \in Seq(Signals) /\ down \in Seq(DownMessages)
      /\ registry[n].status = "absent"
  BY DEF Types, ClientTypes, ChannelTypes, Tables, Registered
<1>2. /\ LastSaid(strand, n, registry[n], conn[n])
      /\ Silent(strand, n) => LastWritten(down, n, registry[n])
      /\ Silent(strand, n) /\ Unwritten(down, n) => Told(heard, nodes, groups, n, registry[n])
  BY <1>1 DEF NodesInv
<1>3. CASE ~Silent(strand, n)
  <2> DEFINE M == {m \in Signals : About(m, n)}
  <2>1. \A i \in 1..Len(strand) : strand[i] \in Signals /\ (strand[i] \in M <=> About(strand[i], n))
    BY <1>1
  <2> HIDE DEF M
  <2>2. ~NoneIn(strand, M)
    BY <1>3, <2>1 DEF NoneIn, Silent
  <2>3. PICK i \in 1..Len(strand) : strand[i] \in M /\ \A j \in 1..Len(strand) : j > i => strand[j] \notin M
    BY <1>1, <2>2, LastExists
  <2>4. About(strand[i], n) /\ SaysOf(strand[i], registry[n], conn[n])
    BY <1>2, <2>1, <2>3 DEF LastSaid
  <2>5. strand[i] \in Departures(n)
    BY <1>1, <2>1, <2>4 DEF Departures, SaysOf
  <2> QED BY <2>5 DEF Leaving, NoneIn
<1>4. CASE Silent(strand, n)
  <2>1. ~Unwritten(down, n)
    BY <1>1, <1>2, <1>4 DEF Told, TableSays
  <2> DEFINE M == {m \in DownMessages : Mentions(m, n)}
  <2>2. \A i \in 1..Len(down) : down[i] \in DownMessages /\ (down[i] \in M <=> Mentions(down[i], n))
    BY <1>1
  <2> HIDE DEF M
  <2>3. ~NoneIn(down, M)
    BY <2>1, <2>2 DEF NoneIn, Unwritten
  <2>4. PICK i \in 1..Len(down) : down[i] \in M /\ \A j \in 1..Len(down) : j > i => down[j] \notin M
    BY <1>1, <2>3, LastExists
  <2>5. /\ Mentions(down[i], n)
        /\ \A j \in 1..Len(down[i].changes) : down[i].changes[j].node = n => EntrySays(down[i].changes[j], registry[n])
    BY <1>2, <1>4, <2>2, <2>4 DEF LastWritten
  <2>6. down[i] \in Farewells(n)
    BY <1>1, <2>2, <2>5 DEF Farewells, EntrySays, Mentions
  <2> QED BY <2>6 DEF Leaving, NoneIn
<1> QED BY <1>3, <1>4

LEMMA WatchInit == Init => WatchInv
BY DEF Init, WatchInv

\* A request is sent: one to watch the node asks for its variables.
LEMMA WatchSent ==
  ASSUME Types, socket = "open", NEW n \in Nodes, NEW kind \in RequestKinds, NEW target \in Ids,
         NEW flags \in SUBSET Flags, Send(kind, target, flags),
         kind = "watch" /\ target = n => "variables" \in flags,
         LastIs(up, Watches(n), Wanting) \/ (kind = "watch" /\ target = n)
  PROVE  /\ LastIs(up', Watches(n), Wanting)
         /\ NoneIn(up', Watches(n)) => NoneIn(up, Watches(n)) /\ ~ (kind = "watch" /\ target = n)
<1>1. up \in Seq(RequestMessages) /\ ClientTypes
  BY DEF Types, ChannelTypes
<1>2. PICK id : Sent(kind, target, flags, id)
  BY <1>1, SendFacts
<1> DEFINE m == [kind |-> kind, id |-> id, serial |-> Len(promise) + 1, again |-> FALSE,
                 target |-> target, flags |-> flags]
<1>3. up' = Append(up, m) /\ id \in RequestIds
  BY <1>2 DEF Sent
<1>4. m \in RequestMessages /\ m.kind = kind /\ m.target = target /\ m.flags = flags
  BY <1>1, <1>3 DEF RequestMessages, ClientTypes
<1> HIDE DEF m
<1>5. (m \in Watches(n) <=> kind = "watch" /\ target = n) /\ (m \in Wanting <=> "variables" \in flags)
  BY <1>4 DEF Watches, Wanting
<1> DEFINE W == Watches(n)
           G == Wanting
<1>6. m \in W => m \in G
  BY <1>5
<1>7. LastIs(up, W, G) \/ m \in W
  BY <1>5
<1> HIDE DEF W, G
<1>8. LastIs(up', W, G) /\ (NoneIn(up', W) <=> NoneIn(up, W) /\ m \notin W)
  BY <1>1, <1>3, <1>4, <1>6, <1>7, LastAppended
<1> QED BY <1>5, <1>8 DEF W, G

\* The application asks for the variables of a node, or for something else.
LEMMA ApplicationWatch ==
  ASSUME Types, WatchInv, Application PROVE WatchInv'
<1>1. UNCHANGED <<socket, down, strand, registry, conn, since, watch>> /\ DOMAIN nodes' = DOMAIN nodes
  BY ApplicationFacts
<1> SUFFICES ASSUME socket = "open", NEW n \in DOMAIN nodes, "variables" \in nodes'[n].flags,
                    ~Leaving(strand, down, n)
             PROVE  /\ LastIs(up', Watches(n), Wanting)
                    /\ NoneIn(up', Watches(n)) => (n \in Registered => Current(n))
  BY <1>1 DEF WatchInv, Served, Registered, Current
<1>2. /\ DOMAIN nodes \subseteq Nodes /\ nodes \in [DOMAIN nodes -> NodeRecords]
      /\ groups \in [DOMAIN groups -> GroupRecords] /\ \A l \in DOMAIN nodes : nodes[l].group \in DOMAIN groups
      /\ Nodes \cap Groups = {}
  BY ClientAssumption DEF Types, ClientTypes, Tables
<1>3. "variables" \in nodes[n].flags => Served(n)
  BY DEF WatchInv
<1>4. ASSUME NEW kind \in RequestKinds, NEW target \in Ids, NEW flags \in SUBSET Flags,
             Send(kind, target, flags), nodes' = nodes, ~ (kind = "watch" /\ target = n)
      PROVE  /\ LastIs(up', Watches(n), Wanting)
             /\ NoneIn(up', Watches(n)) => (n \in Registered => Current(n))
  <2>1. Served(n)
    BY <1>3, <1>4
  <2> QED BY <1>2, <1>4, <2>1, WatchSent DEF Served
<1>5. CASE nodes' = nodes /\ up' = up
  BY <1>3, <1>5 DEF Served
<1>6. ASSUME NEW l \in Nodes, NEW kind \in RequestKinds, kind # "watch", Ask(l, kind)
      PROVE  /\ LastIs(up', Watches(n), Wanting)
             /\ NoneIn(up', Watches(n)) => (n \in Registered => Current(n))
  <2>1. Send(kind, l, {}) /\ nodes' = nodes /\ l \in Ids /\ {} \in SUBSET Flags
    BY <1>6 DEF Ask, Ids
  <2> QED BY <1>4, <1>6, <2>1
<1>7. ASSUME NEW l \in Nodes, NEW on \in BOOLEAN, WatchGroup(l, on)
      PROVE  /\ LastIs(up', Watches(n), Wanting)
             /\ NoneIn(up', Watches(n)) => (n \in Registered => Current(n))
  <2> DEFINE g == nodes[l].group
             new == Flagged(groups[g].flags, "shared", on)
  <2>1. /\ l \in DOMAIN nodes /\ groups[g].id # NoGroup /\ nodes' = nodes
        /\ SetMonitoringFlags(groups[g].id, groups[g].flags, new)
    BY <1>7 DEF WatchGroup
  <2>2. groups[g] \in GroupRecords
    BY <1>2, <2>1
  <2>3. groups[g].id \in Groups /\ groups[g].id \in Ids /\ groups[g].flags \in SUBSET Flags
    BY <2>1, <2>2 DEF GroupRecords, AllGroups, Ids
  <2>4. new \in SUBSET Flags
    BY <2>3, FlaggedFlags DEF Flags
  <2>5. groups[g].id # n
    BY <1>2, <2>3
  <2> HIDE DEF g, new
  <2>6. up' = up \/ Send("watch", groups[g].id, new)
    BY <2>1 DEF SetMonitoringFlags
  <2> QED BY <1>4, <1>5, <2>1, <2>3, <2>4, <2>5, <2>6 DEF RequestKinds
<1>8. ASSUME NEW l \in Nodes, NEW on \in BOOLEAN, SetOnVariablesChanged(l, on) \/ WatchNode(l, on)
      PROVE  /\ LastIs(up', Watches(n), Wanting)
             /\ NoneIn(up', Watches(n)) => (n \in Registered => Current(n))
  <2>1. l \in DOMAIN nodes
    BY <1>8 DEF SetOnVariablesChanged, WatchNode
  <2>2. PICK flag \in Flags :
          LET new == Flagged(nodes[l].flags, flag, on)
          IN  /\ SetMonitoringFlags(l, nodes[l].flags, new)
              /\ nodes' \in {[nodes EXCEPT ![l].flags = new, ![l].callback = on],
                             [nodes EXCEPT ![l].flags = new]}
    BY <1>8 DEF SetOnVariablesChanged, WatchNode, Flags
  <2> DEFINE new == Flagged(nodes[l].flags, flag, on)
  <2>3. nodes[l] \in NodeRecords /\ nodes[l].flags \in SUBSET Flags /\ l \in Ids
    BY <1>2, <2>1 DEF NodeRecords, Ids
  <2>4. new \in SUBSET Flags
    BY <2>3, FlaggedFlags
  <2>5. nodes' \in {[nodes EXCEPT ![l].flags = new, ![l].callback = on], [nodes EXCEPT ![l].flags = new]}
    BY <2>2
  <2>6. (new = nodes[l].flags /\ up' = up) \/ Send("watch", l, new)
    BY <2>2 DEF SetMonitoringFlags
  <2> HIDE DEF new
  <2>7. nodes'[l].flags = new /\ \A m \in DOMAIN nodes : m # l => nodes'[m] = nodes[m]
    BY <2>1, <2>3, <2>5 DEF NodeRecords
  <2>8. CASE new = nodes[l].flags /\ up' = up
    <3>1. nodes'[n].flags = nodes[n].flags
      BY <2>7, <2>8
    <3> QED BY <1>3, <2>8, <3>1 DEF Served
  <2>9. CASE Send("watch", l, new) /\ l = n
    <3>1. "variables" \in new /\ n \in Nodes /\ "watch" \in RequestKinds
      BY <1>2, <2>7, <2>9 DEF RequestKinds
    <3>2. LastIs(up', Watches(n), Wanting) /\ (NoneIn(up', Watches(n)) => FALSE)
      BY <2>3, <2>4, <2>9, <3>1, WatchSent
    <3> QED BY <3>2
  <2>10. CASE Send("watch", l, new) /\ l # n
    <3>1. Served(n) /\ n \in Nodes /\ "watch" \in RequestKinds
      BY <1>2, <1>3, <2>7, <2>10 DEF RequestKinds
    <3>2. LastIs(up', Watches(n), Wanting) /\ (NoneIn(up', Watches(n)) => NoneIn(up, Watches(n)))
      BY <2>3, <2>4, <2>10, <3>1, WatchSent DEF Served
    <3> QED BY <3>1, <3>2 DEF Served
  <2> QED BY <2>6, <2>8, <2>9, <2>10
<1>9. CASE ListenToNodes
  BY <1>5, <1>9 DEF ListenToNodes
<1> QED BY <1>6, <1>7, <1>8, <1>9 DEF Application, AskDescription, AskDevice, AskServer, RequestKinds

LEMMA NoneTaken ==
  ASSUME NEW S, NEW s \in Seq(S), s # <<>>, NEW M, Head(s) \notin M, NoneIn(Tail(s), M)
  PROVE  NoneIn(s, M)
<1>1. LastIs(s, M, M)
  BY DEF LastIs
<1> QED BY <1>1, LastTaken

LEMMA NoneJoined ==
  ASSUME NEW S, NEW s \in Seq(S), NEW t \in Seq(S), NEW M, NoneIn(s \o t, M)
  PROVE  NoneIn(s, M) /\ NoneIn(t, M)
<1>1. \A i \in 1..Len(t) : t[i] \in M => t[i] \in M
  OBVIOUS
<1> QED BY <1>1, LastJoined

\* Signals and messages are added: what is to be told is still to be told.
LEMMA StillLeaving ==
  ASSUME Types, NEW n, NEW more \in Seq(Signals), strand' = strand \o more,
         down' = down \/ (\E w \in DownMessages : down' = Append(down, w)),
         ~Leaving(strand', down', n)
  PROVE  ~Leaving(strand, down, n)
<1>1. strand \in Seq(Signals) /\ down \in Seq(DownMessages)
  BY DEF Types, ChannelTypes
<1> DEFINE D == Departures(n)
           F == Farewells(n)
<1>2. NoneIn(strand', D) /\ NoneIn(down', F)
  BY DEF Leaving
<1> HIDE DEF D, F
<1>3. NoneIn(strand, D)
  BY <1>1, <1>2, NoneJoined
<1>4. NoneIn(down, F)
  <2>1. CASE down' = down
    BY <1>2, <2>1
  <2>2. ASSUME NEW w \in DownMessages, down' = Append(down, w) PROVE NoneIn(down, F)
    <3> DEFINE one == <<w>>
    <3>1. one \in Seq(DownMessages) /\ down' = down \o one
      BY <1>1, <2>2, AppendOne
    <3> HIDE DEF one
    <3> QED BY <1>1, <1>2, <3>1, NoneJoined
  <2> QED BY <2>1, <2>2
<1> QED BY <1>3, <1>4 DEF Leaving, D, F

\* A message is taken: flags that are set were set, or the client is told that the node has
\* gone.
LEMMA TakenWatch ==
  ASSUME Types, WatchInv, down # <<>>, down' = Tail(down),
         UNCHANGED <<socket, up, strand, registry, conn, since, watch>>,
         NEW n \in DOMAIN nodes', "variables" \in nodes'[n].flags, socket = "open",
         ~Leaving(strand', down', n), Head(down) \notin Farewells(n),
         n \in DOMAIN nodes /\ "variables" \in nodes[n].flags
  PROVE  Served(n)'
<1>1. down \in Seq(DownMessages)
  BY DEF Types, ChannelTypes
<1> DEFINE F == Farewells(n)
<1>2. NoneIn(Tail(down), F) /\ Head(down) \notin F
  BY DEF Leaving
<1> HIDE DEF F
<1>3. NoneIn(down, F)
  BY <1>1, <1>2, NoneTaken
<1>4. ~Leaving(strand, down, n)
  BY <1>3 DEF Leaving, F
<1>5. Served(n)
  BY <1>4 DEF WatchInv
<1> QED BY <1>5 DEF Served, Registered, Current

\* _nodes_changed_as_node_list: a node that is mentioned as gone is deleted, flags of others
\* are kept.
LEMMA ChangedWatch ==
  ASSUME Types, Unheard, SharedInv, WatchInv, OnNodesChanged PROVE WatchInv'
<1> DEFINE list == Head(down).changes
           new == [nodes |-> nodes', groups |-> groups']
<1>1. /\ UNCHANGED <<socket, heard, up, strand, registry, conn, since, watch>> /\ down # <<>> /\ down' = Tail(down)
  BY ReceiveFacts DEF OnNodesChanged, serverVars
<1>2. /\ Head(down).kind = "nodes" /\ list \in Seq(Entries)
      /\ heard # "no" => Shown(nodes, groups, list, Len(list), new)
  BY NodesChangedFacts
<1>3. heard = "no" => nodes' = nodes /\ DOMAIN nodes = {}
  BY DEF OnNodesChanged, Unheard
<1>4. heard # "no" => Keeps(nodes, nodes')
  <2> SUFFICES ASSUME heard # "no" PROVE Keeps(nodes, nodes')
    OBVIOUS
  <2>1. nodes' = AllUpdated(nodes, groups, list).nodes
    BY DEF OnNodesChanged
  <2>2. Tables(nodes, groups) /\ ReferencedBy(nodes, groups)
    BY DEF Types, ClientTypes, SharedInv
  <2> HIDE DEF list
  <2> QED BY <1>2, <2>1, <2>2, AllUpdatedValues
<1> SUFFICES ASSUME socket = "open", NEW n \in DOMAIN nodes', "variables" \in nodes'[n].flags,
                    ~Leaving(strand', down', n)
             PROVE  Served(n)'
  BY <1>1 DEF WatchInv
<1>5. heard # "no" /\ n \in DOMAIN nodes /\ "variables" \in nodes[n].flags
  BY <1>3, <1>4 DEF Keeps
<1>6. Head(down) \notin Farewells(n)
  <2> SUFFICES ASSUME Head(down) \in Farewells(n) PROVE FALSE
    OBVIOUS
  <2>1. PICK j \in 1..Len(list) : list[j].node = n /\ list[j].status = "disconnected"
    BY DEF Farewells
  <2> HIDE DEF list
  <2>2. Follows(nodes', groups', list[j])
    BY <1>2, <1>5, <2>1 DEF Shown
  <2> QED BY <2>1, <2>2 DEF Follows
<1> QED BY <1>1, <1>5, <1>6, TakenWatch

\* Other messages.
LEMMA NewsWatch ==
  ASSUME Types, WatchInv, OnAnswer \/ OnVariablesChanged \/ OnEventsDescriptionsChanged
  PROVE  WatchInv'
<1>1. PICK kinds \in {{"completed", "error", "description"}, {"variables"}, {"events"}} : Receive(kinds)
  BY DEF OnAnswer, OnVariablesChanged, OnEventsDescriptionsChanged
<1>2. down # <<>> /\ down' = Tail(down) /\ Head(down).kind \in kinds
  BY <1>1, ReceiveFacts
<1>3. UNCHANGED <<socket, up, strand, registry, conn, since, watch, nodes>>
  BY DEF OnAnswer, OnVariablesChanged, OnEventsDescriptionsChanged, serverVars
<1>4. \A n : Head(down) \notin Farewells(n)
  BY <1>1, <1>2 DEF Farewells
<1> SUFFICES ASSUME socket = "open", NEW n \in DOMAIN nodes', "variables" \in nodes'[n].flags,
                    ~Leaving(strand', down', n)
             PROVE  Served(n)'
  BY <1>3 DEF WatchInv
<1> QED BY <1>2, <1>3, <1>4, TakenWatch

\* do_node_changed: the client is told that a node has gone.
LEMMA StrandWatch ==
  ASSUME Types, WatchInv, RunStrand PROVE WatchInv'
<1> PICK g \in AllGroups : g \in GroupsOf(Head(strand)) /\ down' = Append(down, Written(Head(strand), g))
  BY StrandFacts
<1> DEFINE h == Head(strand)
           w == Written(h, g)
<1>1. /\ strand \in Seq(Signals) /\ down \in Seq(DownMessages) /\ strand # <<>> /\ h \in Signals
      /\ strand' = Tail(strand) /\ down' = Append(down, w)
      /\ UNCHANGED <<socket, nodes, up, registry, conn, since, watch>>
  BY StrandFacts DEF Types, ChannelTypes, clientVars, serverVars
<1>2. w \in DownMessages
  BY <1>1, WrittenFacts
<1> SUFFICES ASSUME socket = "open", NEW n \in DOMAIN nodes, "variables" \in nodes[n].flags,
                    ~Leaving(strand', down', n)
             PROVE  Served(n)'
  BY <1>1 DEF WatchInv
<1> DEFINE D == Departures(n)
           F == Farewells(n)
           one == <<w>>
<1>3. NoneIn(Tail(strand), D) /\ NoneIn(down', F)
  BY <1>1 DEF Leaving
<1>4. one \in Seq(DownMessages) /\ down' = down \o one /\ Len(one) = 1 /\ one[1] = w
  BY <1>1, <1>2, AppendOne
<1> HIDE DEF one, F
<1>5. NoneIn(down, F) /\ NoneIn(one, F)
  BY <1>1, <1>3, <1>4, NoneJoined
<1>6. w \notin F
  BY <1>4, <1>5 DEF NoneIn
<1>7. h \notin D
  <2> SUFFICES ASSUME h \in D PROVE w \in F
    BY <1>6
  <2> DEFINE e == [node |-> h.node, status |-> h.status, group |-> g]
  <2>1. h.kind = "nodes" /\ h.node = n /\ h.status = "disconnected"
    BY DEF Departures, About
  <2>2. w.kind = "nodes" /\ w.changes = <<e>>
    BY <1>1, <2>1, WrittenFacts
  <2>3. e.node = n /\ e.status = "disconnected"
    BY <2>1
  <2> HIDE DEF e, w
  <2>4. 1 \in 1..Len(w.changes) /\ w.changes[1] = e
    BY <2>2
  <2> QED BY <1>2, <2>2, <2>3, <2>4 DEF Farewells, F
<1> HIDE DEF D, h
<1>8. NoneIn(strand, D)
  BY <1>1, <1>3, <1>7, NoneTaken DEF h
<1>9. ~Leaving(strand, down, n)
  BY <1>5, <1>8 DEF Leaving, D, F
<1>10. Served(n)
  BY <1>9 DEF WatchInv
<1> QED BY <1>1, <1>10 DEF Served, Registered, Current

LEMMA SinceInductive ==
  /\ Init => SinceInv
  /\ Types /\ SinceInv /\ [Next]_vars => SinceInv'
<1>1. Init => SinceInv
  BY DEF Init, SinceInv
<1>2. ASSUME Types, SinceInv, [Next]_vars PROVE SinceInv'
  <2>1. conn \in [Nodes -> Nat] /\ since \in [Nodes -> Nat]
    BY <1>2 DEF Types, ServerTypes
  <2>2. CASE UNCHANGED <<conn, since>>
    BY <1>2, <2>2 DEF SinceInv
  <2>3. CASE ~UNCHANGED <<conn, since>>
    <3>1. PICK n \in Nodes, g \in Groups : Connect(n, g)
      BY <1>2, <2>3 DEF Next, vars, serverVars, Application, ListenToNodes, AskDescription, AskDevice,
           AskServer, Ask, SetOnVariablesChanged, WatchNode, WatchGroup, OnMessage, OnNodesChanged, OnAnswer,
           OnVariablesChanged, OnEventsDescriptionsChanged, OnClose, HandleRead, WatchNodeOrGroup,
           SendAsebaVMDescription, HandleServer, HandleDevice, RunStrand, AnswerLater, RefuseLater,
           DropLater, Environment, SetStatus, Disconnect, OwnVariablesChanged, AttachToEndpoint,
           SetSharedVariables, SetEventsTable
    <3>2. /\ conn' = [conn EXCEPT ![n] = @ + 1]
          /\ since' = since \/ since' = [since EXCEPT ![n] = conn[n] + 1]
      BY <3>1 DEF Connect
    <3>3. ASSUME NEW l \in Nodes PROVE since'[l] <= conn'[l]
      <4>1. since[l] <= conn[l] /\ since[l] \in Nat /\ conn[l] \in Nat
        BY <1>2, <2>1 DEF SinceInv
      <4>2. CASE l # n
        BY <2>1, <3>2, <4>1, <4>2
      <4>3. CASE l = n
        <5>1. conn'[n] = conn[n] + 1 /\ (since'[n] = since[n] \/ since'[n] = conn[n] + 1)
          BY <2>1, <3>2
        <5> QED BY <4>1, <4>3, <5>1
      <4> QED BY <4>2, <4>3
    <3> QED BY <3>3 DEF SinceInv
  <2> QED BY <2>2, <2>3
<1> QED BY <1>1, <1>2

\* Concatenation, as a relation.
Joins(s, t, v) == v = s \o t

LEMMA TwiceJoined ==
  ASSUME NEW S, NEW s \in Seq(S), NEW t \in Seq(S), NEW u \in Seq(S), NEW v, Joins(s, t, v),
         NEW w, Joins(v, u, w)
  PROVE  \E more \in Seq(S) : w = s \o more
<1> WITNESS t \o u \in Seq(S)
<1> QED BY DEF Joins

\* The registry changes: a node gets an object without a word only while it has one, and
\* otherwise only after the client is to be told that the one before has gone.
LEMMA EnvironmentWatch ==
  ASSUME Types, NodesInv, WatchInv, Environment PROVE WatchInv'
<1>0. /\ registry \in [Nodes -> Registrations] /\ conn \in [Nodes -> Nat] /\ strand \in Seq(Signals)
      /\ since \in [Nodes -> Nat]
  BY DEF Types, ServerTypes, ChannelTypes
<1>1. UNCHANGED <<socket, nodes, up, down, watch>>
  BY DEF Environment, SetStatus, Disconnect, OwnVariablesChanged, Connect, AttachToEndpoint,
         SetSharedVariables, SetEventsTable, clientVars
<1>2. \E more \in Seq(Signals) : strand' = strand \o more
  <2>1. ASSUME NEW m \in Signals, strand' = Append(strand, m) PROVE \E more \in Seq(Signals) : strand' = strand \o more
    BY <1>0, <2>1, AppendOne
  <2>2. ASSUME NEW n \in Nodes, NEW g \in Groups, Connect(n, g) PROVE \E more \in Seq(Signals) : strand' = strand \o more
    BY <2>1, <2>2, ChangedSignal DEF Connect
  <2>3. ASSUME NEW n \in Nodes, SetStatus(n) PROVE \E more \in Seq(Signals) : strand' = strand \o more
    <3> DEFINE s == IF registry[n].status = "busy" THEN "available" ELSE "busy"
    <3>1. strand' = Append(strand, Changed(n, s)) /\ s \in {"available", "busy", "disconnected"}
      BY <2>3 DEF SetStatus
    <3> HIDE DEF s
    <3> QED BY <2>1, <3>1, ChangedSignal
  <2>4. ASSUME NEW n \in Nodes, Disconnect(n) PROVE \E more \in Seq(Signals) : strand' = strand \o more
    BY <2>1, <2>4, ChangedSignal DEF Disconnect
  <2>5. ASSUME NEW n \in Nodes, NEW g \in Groups, AttachToEndpoint(n, g)
        PROVE  \E more \in Seq(Signals) : strand' = strand \o more
    <3> DEFINE m == Changed(n, registry[n].status)
    <3>1. m \in Signals
      <4>1. n \in Registered
        BY <2>5 DEF AttachToEndpoint
      <4> QED BY <4>1, RegisteredFacts, ChangedSignal
    <3>2. PICK more \in Seq(Notices) : strand' = (strand \o <<m>>) \o more
      BY <2>5, AttachTypes
    <3> HIDE DEF m
    <3> DEFINE one == <<m>>
    <3>3. one \in Seq(Signals) /\ more \in Seq(Signals)
      BY <3>1, <3>2, NoticesSilent
    <3> DEFINE first == strand \o one
    <3>4. Joins(first, more, strand') /\ Joins(strand, one, first)
      BY <3>2 DEF Joins
    <3> HIDE DEF one, first
    <3>5. strand \in Seq(Signals)
      BY <1>0
    <3> QED BY <3>3, <3>4, <3>5, TwiceJoined
  <2>6. ASSUME \/ \E n \in Nodes : OwnVariablesChanged(n)
               \/ \E g \in Groups : SetSharedVariables(g) \/ SetEventsTable(g)
        PROVE  \E more \in Seq(Signals) : strand' = strand \o more
    <3>1. PICK more \in Seq(Notices) : strand' = strand \o more
      BY <2>6, OwnTypes, SharedTypes
    <3> QED BY <3>1, NoticesSilent
  <2> QED BY <2>2, <2>3, <2>4, <2>5, <2>6 DEF Environment
<1> SUFFICES ASSUME socket = "open", NEW n \in DOMAIN nodes, "variables" \in nodes[n].flags,
                    ~Leaving(strand', down', n)
             PROVE  Served(n)'
  BY <1>1 DEF WatchInv
<1>3. ~Leaving(strand, down, n)
  BY <1>1, <1>2, StillLeaving
<1>4. Served(n) /\ n \in Registered /\ n \in Nodes
  BY <1>3, GoneIsLeaving DEF WatchInv, Registered
<1>5. since'[n] = since[n] /\ (conn'[n] = conn[n] \/ conn'[n] = conn[n] + 1)
  <2>1. CASE conn' = conn /\ since' = since
    BY <2>1
  <2>2. CASE ~(conn' = conn /\ since' = since)
    <3>1. PICK l \in Nodes, g \in Groups : Connect(l, g)
      BY <2>2 DEF Environment, SetStatus, Disconnect, OwnVariablesChanged, AttachToEndpoint,
                  SetSharedVariables, SetEventsTable
    <3>2. /\ conn' = [conn EXCEPT ![l] = @ + 1]
          /\ since' = IF l \in Registered THEN since ELSE [since EXCEPT ![l] = conn[l] + 1]
      BY <3>1 DEF Connect
    <3>3. CASE l = n
      BY <1>0, <1>4, <3>2, <3>3
    <3>4. CASE l # n
      BY <1>0, <1>4, <3>2, <3>4
    <3> QED BY <3>3, <3>4
  <2> QED BY <2>1, <2>2
<1>6. Current(n) => Current(n)'
  <2> DEFINE o == watch.own[n]
             a == since[n]
             b == conn[n]
  <2>1. o \in Nat /\ a \in Nat /\ b \in Nat
    BY <1>0, <1>4 DEF Types, ServerTypes
  <2>2. watch'.own[n] = o /\ since'[n] = a /\ (conn'[n] = b \/ conn'[n] = b + 1)
    BY <1>1, <1>5
  <2> HIDE DEF o, a, b
  <2>3. o \in a..b => o \in a..(b + 1)
    BY <2>1
  <2>4. Current(n) <=> o \in a..b
    BY DEF Current, o, a, b
  <2>5. Current(n)' <=> o \in a..conn'[n]
    BY <2>2 DEF Current
  <2> QED BY <2>2, <2>3, <2>4, <2>5
<1> QED BY <1>1, <1>4, <1>6 DEF Served

\* The first request is handled, and the session does with its connection to the node's
\* variables what the request says.
LEMMA WatchTaken ==
  ASSUME Types, NEW n \in Nodes, Served(n), up # <<>>, up' = Tail(up), UNCHANGED <<registry, conn, since>>, SinceInv,
         Head(up) \notin Watches(n) => watch'.own[n] = watch.own[n],
         Head(up) \in Watches(n) \cap Wanting /\ n \in Registered => watch'.own[n] = conn[n]
  PROVE  Served(n)'
<1>1. up \in Seq(RequestMessages)
  BY DEF Types, ChannelTypes
<1> DEFINE W == Watches(n)
           G == Wanting
<1>2. /\ LastIs(up, W, G) /\ (NoneIn(up, W) => (n \in Registered => Current(n)))
      /\ (Head(up) \notin W => (Current(n) => Current(n)'))
      /\ (Head(up) \in W \cap G /\ n \in Registered => Current(n)')
  <2>1. Head(up) \notin W => (Current(n) => Current(n)')
    BY DEF Current
  <2>2. watch'.own[n] = conn[n] => Current(n)'
    <3>1. since[n] \in Nat /\ conn[n] \in Nat /\ since[n] <= conn[n]
      BY DEF SinceInv, Types, ServerTypes
    <3>2. conn[n] \in since[n]..conn[n]
      BY <3>1
    <3> QED BY <3>2 DEF Current
  <2> QED BY <2>1, <2>2 DEF Served
<1>3. (/\ LastIs(up', W, G) /\ (NoneIn(up', W) => (n \in Registered => Current(n)')))
      => Served(n)'
  BY DEF Served, Registered
<1> HIDE DEF W, G
<1>4. /\ LastIs(Tail(up), W, G)
      /\ Head(up) \notin W /\ NoneIn(Tail(up), W) => NoneIn(up, W)
      /\ Head(up) \in W /\ NoneIn(Tail(up), W) => Head(up) \in G
  BY <1>1, <1>2, LastTaken
<1> QED BY <1>2, <1>3, <1>4

\* watch_node_or_group: the connection is made anew, to the object that stands for the node.
LEMMA OwnWatched ==
  ASSUME Types, WatchNodeOrGroup, NEW n \in Nodes
  PROVE  /\ Head(up) \notin Watches(n) => watch'.own[n] = watch.own[n]
         /\ Head(up) \in Watches(n) \cap Wanting /\ n \in Registered => watch'.own[n] = conn[n]
<1> DEFINE r == Head(up)
<1>1. /\ r \in RequestMessages /\ r.kind = "watch" /\ watch.own \in [Nodes -> Nat]
  BY HandleFacts DEF WatchNodeOrGroup, Types, ServerTypes
<1>2. r \in Watches(n) <=> r.target = n
  BY <1>1 DEF Watches
<1>3. CASE ServerGroup(r.target) = {}
  <2>1. watch' = watch
    BY <1>3 DEF WatchNodeOrGroup
  <2>2. r.target = n => n \notin Registered
    BY <1>3 DEF ServerGroup
  <2> QED BY <1>2, <2>1, <2>2
<1>4. CASE ServerGroup(r.target) # {}
  <2>1. watch'.own = IF r.target \in Nodes
                     THEN [watch.own EXCEPT ![r.target] = OwnWatch(r.target, r.flags)]
                     ELSE watch.own
    BY <1>4 DEF WatchNodeOrGroup
  <2>2. r.target # n => watch'.own[n] = watch.own[n]
    BY <1>1, <2>1
  <2>3. r.target = n => watch'.own[n] = OwnWatch(n, r.flags)
    BY <1>1, <2>1
  <2> QED BY <1>2, <2>2, <2>3 DEF OwnWatch, Wanting
<1> QED BY <1>3, <1>4

\* The session handles a request, or answers one it has kept.
LEMMA ReadWatch ==
  ASSUME Types, SinceInv, WatchInv, HandleRead \/ (\E r \in later : AnswerLater(r) \/ RefuseLater(r) \/ DropLater(r)) PROVE WatchInv'
<1>1. /\ UNCHANGED <<clientVars, registry, conn, since>>
      /\ down' = down \/ \E w \in Answers : down' = Append(down, w)
      /\ \E more \in Seq(Notices) : strand' = strand \o more
  BY ReadPosts
<1>2. /\ down' = down \/ \E w \in DownMessages : down' = Append(down, w)
      /\ \E more \in Seq(Signals) : strand' = strand \o more
  BY <1>1, NoticesSilent DEF DownMessages
<1> SUFFICES ASSUME socket = "open", NEW n \in DOMAIN nodes, "variables" \in nodes[n].flags,
                    ~Leaving(strand', down', n)
             PROVE  Served(n)'
  BY <1>1 DEF WatchInv, clientVars
<1>3. Served(n) /\ n \in Nodes
  <2>1. ~Leaving(strand, down, n)
    BY <1>2, StillLeaving
  <2> QED BY <2>1 DEF WatchInv, Types, ClientTypes, Tables
<1>4. CASE WatchNodeOrGroup
  <2>1. up # <<>> /\ up' = Tail(up)
    BY <1>4, HandleFacts DEF WatchNodeOrGroup
  <2> QED BY <1>1, <1>3, <1>4, <2>1, OwnWatched, WatchTaken
<1>5. CASE SendAsebaVMDescription \/ HandleServer \/ HandleDevice
  <2>1. PICK kind \in {"describe", "server", "device"} : Handle(kind)
    BY <1>5 DEF SendAsebaVMDescription, HandleServer, HandleDevice
  <2>2. up # <<>> /\ up' = Tail(up) /\ Head(up).kind = kind
    BY <2>1, HandleFacts
  <2>3. Head(up) \notin Watches(n)
    BY <2>1, <2>2 DEF Watches
  <2>4. watch' = watch
    BY <1>5 DEF SendAsebaVMDescription, HandleServer, HandleDevice, serverVars
  <2> QED BY <1>1, <1>3, <2>2, <2>3, <2>4, WatchTaken
<1>6. CASE \E r \in later : AnswerLater(r) \/ RefuseLater(r) \/ DropLater(r)
  <2>1. up' = up /\ watch' = watch
    BY <1>6 DEF AnswerLater, RefuseLater, DropLater
  <2> QED BY <1>1, <1>3, <2>1 DEF Served, Registered, Current
<1> QED BY <1>4, <1>5, <1>6 DEF HandleRead

LEMMA WatchInductive ==
  Types /\ Unheard /\ NodesInv /\ SharedInv /\ SinceInv /\ WatchInv /\ [Next]_vars => WatchInv'
<1> SUFFICES ASSUME Types, Unheard, NodesInv, SharedInv, SinceInv, WatchInv, [Next]_vars PROVE WatchInv'
  OBVIOUS
<1>1. CASE UNCHANGED vars
  BY <1>1 DEF WatchInv, Served, Registered, Current, vars, clientVars, serverVars
<1>2. CASE OnClose
  BY <1>2 DEF OnClose, WatchInv
<1>3. CASE OnMessage
  BY <1>3, ChangedWatch, NewsWatch DEF OnMessage
<1>4. CASE HandleRead \/ \E r \in later : AnswerLater(r) \/ RefuseLater(r) \/ DropLater(r)
  BY <1>4, ReadWatch
<1> QED BY <1>1, <1>2, <1>3, <1>4, ApplicationWatch, StrandWatch, EnvironmentWatch DEF Next

\* Once all is delivered, a node whose onVariablesChanged is set is one whose variables the
\* session is connected to, and to those of an object that stands for the node since it came
\* last, never of one whose disconnection was announced: through requests that meet nodes
\* that have gone, come back, got another object and been deleted and made again by the client.
THEOREM WatchedIsServedAlways == Spec => []WatchedIsServed
<1>1. WatchInv => WatchedIsServed
  <2> SUFFICES ASSUME WatchInv, Quiet, NEW n \in DOMAIN nodes, n \in Registered,
                      "variables" \in nodes[n].flags
               PROVE  Current(n)
    BY DEF WatchedIsServed, Current
  <2>1. Len(strand) = 0 /\ Len(down) = 0 /\ Len(up) = 0 /\ socket = "open"
    BY DEF Quiet
  <2>2. ~Leaving(strand, down, n) /\ NoneIn(up, Watches(n))
    BY <2>1 DEF Leaving, NoneIn
  <2> QED BY <2>1, <2>2 DEF WatchInv, Served
<1>2. Spec => []SinceInv
  BY TypesInvariance, SinceInductive, PTL DEF Spec
<1>3. Spec => []WatchInv
  BY <1>2, TypesInvariance, NodesInvariance, SharedInvariance, WatchInit, WatchInductive, PTL DEF Spec
<1> QED BY <1>1, <1>3, PTL
=============================================================================
