------------------------ MODULE AsebaEndpointProofs ------------------------
(***************************************************************************)
(* The outgoing queue neither stalls nor writes two messages at once, for  *)
(* any number of calls of any size.  Neither fact is inductive alone: that *)
(* a completion finds exactly its own message in progress needs the one,   *)
(* that a call which finds messages waiting may leave them to the handler  *)
(* needs the other.                                                        *)
(***************************************************************************)
EXTENDS AsebaEndpoint, TLAPS

IInv ==
  /\ queue \in Seq(Entries)
  /\ writing \in {0, 1}
  /\ upgrading \in BOOLEAN
  /\ OneWriteAtATime
  /\ NeverStalled

\* A call adds as many messages as it was given.
LEMMA InsertedLength ==
  ASSUME NEW b \in Batches
  PROVE  Inserted(b) \in Seq(Entries) /\ Len(Inserted(b)) = BatchSize[b]
<1>1. BatchSize[b] \in Nat
  BY BatchAssumption
<1>2. \A i \in 1..BatchSize[b] : Entry(b, BatchSize[b] + 1 - i, i = 1) \in Entries
  BY <1>1 DEF Entry, Entries
<1> QED
  BY <1>1, <1>2 DEF Inserted

LEMMA InitEstablishes == Init => IInv
<1>1. <<>> \in Seq(Entries)
  OBVIOUS
<1>2. Init => upgrading \in BOOLEAN
  BY Zenon DEF Init
<1> QED
  BY <1>1, <1>2 DEF Init, IInv, OneWriteAtATime, NeverStalled

\* A call starts a write exactly when none was in progress.
LEMMA WriteMessagesPreserves ==
  ASSUME IInv, NEW b \in Batches, WriteMessages(b)
  PROVE  IInv'
<1> USE DEF IInv, OneWriteAtATime, NeverStalled
<1>1. BatchSize[b] \in Nat
  BY BatchAssumption
<1>2. CASE BatchSize[b] = 0
  BY <1>2 DEF WriteMessages
<1>3. CASE BatchSize[b] # 0
  <2>1. queue' = queue \o Inserted(b) /\ upgrading' = upgrading
    BY <1>3 DEF WriteMessages, Queued
  <2>2. queue' \in Seq(Entries) /\ Len(queue') = Len(queue) + BatchSize[b]
    BY <2>1, InsertedLength
  <2>3. queue' # <<>>
    BY <1>1, <1>3, <2>2
  <2>4. Starts(queue', BatchSize[b]) <=> queue = <<>>
    BY <1>1, <2>2 DEF Starts
  <2>5. writing' = writing + (IF Starts(queue', BatchSize[b]) THEN WriteNext(queue') ELSE 0)
    BY <1>3 DEF WriteMessages
  <2> QED
    BY <2>1, <2>2, <2>3, <2>4, <2>5 DEF WriteNext
<1> QED
  BY <1>2, <1>3

\* A completion hands over to the next message, if there is one.
LEMMA HandleWritePreserves ==
  ASSUME IInv, HandleWrite
  PROVE  IInv'
<1>1. queue' \in Seq(Entries) /\ upgrading' = upgrading /\ writing = 1
  BY DEF HandleWrite, IInv
<1>2. writing' = writing - 1 + WriteNext(queue')
  BY DEF HandleWrite, Continue
<1> QED
  BY <1>1, <1>2 DEF IInv, OneWriteAtATime, NeverStalled, WriteNext

LEMMA NextPreserves == IInv /\ [Next]_vars => IInv'
<1> SUFFICES ASSUME IInv, [Next]_vars PROVE IInv'
  OBVIOUS
<1>1. CASE \E b \in Batches : WriteMessages(b)
  BY <1>1, WriteMessagesPreserves
<1>2. CASE HandleWrite
  BY <1>2, HandleWritePreserves
<1>3. CASE HandleWriteError
  BY <1>3 DEF HandleWriteError, IInv, OneWriteAtATime, NeverStalled
<1>4. CASE UpgradeFirmware
  BY <1>4 DEF UpgradeFirmware, IInv, OneWriteAtATime, NeverStalled
<1>5. CASE UNCHANGED vars
  BY <1>5 DEF vars, IInv, OneWriteAtATime, NeverStalled
<1> QED
  BY <1>1, <1>2, <1>3, <1>4, <1>5 DEF Next

THEOREM Invariance == Spec => []IInv
  BY InitEstablishes, NextPreserves, PTL DEF Spec

\* write_messages and handle_write never start a second write on the stream.
THEOREM OneWriteAtATimeAlways == Spec => []OneWriteAtATime
<1>1. IInv => OneWriteAtATime
  BY DEF IInv
<1> QED
  BY <1>1, Invariance, PTL

\* write_messages and handle_write never leave a message in the queue with no write
\* in progress, unless the firmware is being upgraded.
THEOREM NeverStalledAlways == Spec => []NeverStalled
<1>1. IInv => NeverStalled
  BY DEF IInv
<1> QED
  BY <1>1, Invariance, PTL

-----------------------------------------------------------------------------
(* Types, from the same invariant: that handle_write takes its message from *)
(* a queue that is not empty.                                               *)

LEMMA InitTypes == Init => TypeOK
<1>1. <<>> \in Seq(Entries) /\ <<>> \in Seq(Batches) /\ <<>> \in Seq(Batches \X (Nat \ {0}))
  OBVIOUS
<1>2. Init => upgrading \in BOOLEAN
  BY Zenon DEF Init
<1> QED
  BY <1>1, <1>2 DEF Init, TypeOK

LEMMA NextTypes == TypeOK /\ IInv /\ IInv' /\ [Next]_vars => TypeOK'
<1> SUFFICES ASSUME TypeOK, IInv, IInv', [Next]_vars PROVE TypeOK'
  OBVIOUS
<1>1. queue' \in Seq(Entries) /\ writing' \in Nat /\ upgrading' \in BOOLEAN
  BY DEF IInv
<1>2. CASE \E b \in Batches : WriteMessages(b)
  <2>1. PICK b \in Batches : WriteMessages(b)
    BY <1>2
  <2> QED
    BY <1>1, <2>1 DEF WriteMessages, TypeOK
<1>3. CASE HandleWrite
  <2>1. Head(queue) \in Entries
    BY <1>3 DEF HandleWrite, IInv
  <2>2. Head(queue).batch \in Batches /\ Head(queue).part \in Nat \ {0}
    BY <2>1 DEF Entries
  <2>3. wire' \in Seq(Batches \X (Nat \ {0})) /\ called' \subseteq Batches
    BY <1>3, <2>2 DEF HandleWrite, TypeOK
  <2> QED
    BY <1>1, <1>3, <2>3 DEF HandleWrite, TypeOK
<1>4. CASE HandleWriteError
  <2>1. \A i \in DOMAIN queue : queue[i].batch \in Batches
    <3>1. \A i \in DOMAIN queue : queue[i] \in Entries
      BY DEF IInv
    <3>2. \A e \in Entries : e.batch \in Batches
      BY DEF Entries
    <3> QED
      BY <3>1, <3>2
  <2> QED
    BY <1>1, <1>4, <2>1 DEF HandleWriteError, TypeOK
<1>5. CASE UpgradeFirmware
  BY <1>1, <1>5 DEF UpgradeFirmware, TypeOK
<1>6. CASE UNCHANGED vars
  BY <1>1, <1>6 DEF vars, TypeOK
<1> QED
  BY <1>2, <1>3, <1>4, <1>5, <1>6 DEF Next

\* The state of the endpoint keeps its types: above all, every message written is one of
\* a call, and a write always has a message at the front of the queue to belong to.
THEOREM TypeOKAlways == Spec => []TypeOK
  BY InitTypes, NextTypes, Invariance, PTL DEF Spec
-----------------------------------------------------------------------------
(* The order of the calls.  What is on the wire, and whose callback was called, *)
(* is of no later call than what is queued; the queue itself is in order.       *)

\* A call is made once, and only calls that were made are queued, written or called back.
CallsOnce ==
  /\ \A i, j \in 1..Len(calls) : calls[i] = calls[j] => i = j
  /\ \A i \in 1..Len(queue) : \E k \in 1..Len(calls) : calls[k] = queue[i].batch
  /\ \A i \in 1..Len(wire) : \E k \in 1..Len(calls) : calls[k] = wire[i][1]
  /\ \A b \in called : \E k \in 1..Len(calls) : calls[k] = b

InOrder ==
  /\ \A i, j \in 1..Len(queue) : i < j => Turn(queue[i].batch) <= Turn(queue[j].batch)
  /\ \A i, j \in 1..Len(wire) : i < j => Turn(wire[i][1]) <= Turn(wire[j][1])
  /\ \A i \in 1..Len(wire), j \in 1..Len(queue) : Turn(wire[i][1]) <= Turn(queue[j].batch)
  /\ \A b \in called, j \in 1..Len(queue) : Turn(b) <= Turn(queue[j].batch)

OrderInv == CallsOnce /\ InOrder

\* The turn of a call is its position.
LEMMA TurnOf ==
  ASSUME TypeOK, CallsOnce, NEW b, NEW k \in 1..Len(calls), calls[k] = b
  PROVE  Turn(b) = k /\ Turn(b) \in 1..Len(calls)
<1>1. DOMAIN calls = 1..Len(calls)
  BY DEF TypeOK
<1>2. Turn(b) \in DOMAIN calls /\ calls[Turn(b)] = b
  BY <1>1 DEF Turn
<1> QED
  BY <1>1, <1>2 DEF CallsOnce

LEMMA OrderInit == Init => OrderInv
<1> SUFFICES ASSUME Init PROVE OrderInv
  OBVIOUS
<1>1. Len(queue) = 0 /\ Len(wire) = 0 /\ Len(calls) = 0 /\ called = {}
  BY DEF Init
<1> QED
  BY <1>1 DEF OrderInv, CallsOnce, InOrder

\* A new call takes the last turn, its messages the end of the queue.
LEMMA CallInOrder ==
  ASSUME TypeOK, TypeOK', OrderInv, NEW b \in Batches, WriteMessages(b)
  PROVE  OrderInv'
<1>1. /\ calls' = Append(calls, b) /\ b \notin Range(calls) /\ UNCHANGED <<wire, called>>
      /\ calls \in Seq(Batches) /\ queue \in Seq(Entries) /\ BatchSize[b] \in Nat
      /\ Len(calls) \in Nat /\ Len(queue) \in Nat
  BY BatchAssumption DEF WriteMessages, TypeOK
<1> DEFINE last == Len(calls) + 1
<1>2. /\ Len(calls') = last /\ last \in 1..Len(calls') /\ calls'[last] = b
      /\ \A i \in 1..Len(calls) : i \in 1..Len(calls') /\ calls'[i] = calls[i] /\ calls[i] # b
      /\ \A i \in 1..Len(calls') : i \in 1..Len(calls) \/ i = last
  <2>1. \A i \in 1..Len(calls) : calls[i] # b
    BY <1>1 DEF Range
  <2> QED
    BY <1>1, <2>1
<1>3. /\ Len(queue') \in Nat
      /\ \A j \in 1..Len(queue') : \/ j \in 1..Len(queue) /\ queue'[j] = queue[j]
                                   \/ j > Len(queue) /\ queue'[j].batch = b
  <2>1. CASE BatchSize[b] = 0
    BY <1>1, <2>1 DEF WriteMessages
  <2>2. CASE BatchSize[b] # 0
    <3> DEFINE new == Inserted(b)
    <3>1. new \in Seq(Entries) /\ Len(new) = BatchSize[b] /\ queue' = queue \o new
      BY <2>2, InsertedLength DEF WriteMessages, Queued
    <3>2. \A i \in 1..BatchSize[b] : new[i].batch = b
      BY DEF Inserted, Entry
    <3> HIDE DEF new
    <3>3. /\ Len(queue') \in Nat
          /\ \A j \in 1..Len(queue') :
               \/ j \in 1..Len(queue) /\ queue'[j] = queue[j]
               \/ j > Len(queue) /\ j - Len(queue) \in 1..Len(new) /\ queue'[j] = new[j - Len(queue)]
      BY <1>1, <3>1
    <3> QED
      BY <3>1, <3>2, <3>3
  <2> QED
    BY <2>1, <2>2
<1>4. CallsOnce'
  <2>1. \A i, j \in 1..Len(calls') : calls'[i] = calls'[j] => i = j
    BY <1>2 DEF OrderInv, CallsOnce
  <2>2. \A j \in 1..Len(queue') : \E k \in 1..Len(calls') : calls'[k] = queue'[j].batch
    BY <1>2, <1>3 DEF OrderInv, CallsOnce
  <2>3. \A i \in 1..Len(wire) : \E k \in 1..Len(calls') : calls'[k] = wire[i][1]
    BY <1>2 DEF OrderInv, CallsOnce
  <2>4. \A c \in called : \E k \in 1..Len(calls') : calls'[k] = c
    BY <1>2 DEF OrderInv, CallsOnce
  <2> QED
    BY <1>1, <2>1, <2>2, <2>3, <2>4 DEF CallsOnce
<1>5. ASSUME NEW c, \E k \in 1..Len(calls) : calls[k] = c
      PROVE  Turn(c)' = Turn(c) /\ Turn(c) \in 1..Len(calls) /\ Turn(c) <= last
  <2>1. PICK k \in 1..Len(calls) : calls[k] = c
    BY <1>5
  <2>2. Turn(c) = k
    BY <2>1, TurnOf DEF OrderInv
  <2>3. k \in 1..Len(calls') /\ calls'[k] = c
    BY <1>2, <2>1
  <2>4. DOMAIN calls' = 1..Len(calls')
    BY DEF TypeOK
  <2>5. Turn(c)' \in DOMAIN calls' /\ calls'[Turn(c)'] = c
    BY <2>3, <2>4 DEF Turn
  <2>6. Turn(c)' = k
    BY <1>4, <2>3, <2>4, <2>5 DEF CallsOnce
  <2> QED
    BY <1>1, <2>1, <2>2, <2>6
<1>6. Turn(b)' = last
  <2>1. DOMAIN calls' = 1..Len(calls')
    BY DEF TypeOK
  <2>2. Turn(b)' \in DOMAIN calls' /\ calls'[Turn(b)'] = b
    BY <1>2, <2>1 DEF Turn
  <2> QED
    BY <1>2, <1>4, <2>1, <2>2 DEF CallsOnce
<1>7. ASSUME NEW j \in 1..Len(queue') PROVE
        \/ j \in 1..Len(queue) /\ Turn(queue[j].batch)' = Turn(queue[j].batch) /\ queue'[j] = queue[j]
           /\ Turn(queue[j].batch) <= last
        \/ j > Len(queue) /\ queue'[j].batch = b
  BY <1>3, <1>5 DEF OrderInv, CallsOnce
<1>8. InOrder'
  <2> DEFINE T(c) == CHOOSE i \in DOMAIN calls' : calls'[i] = c
  <2>1. \A c : (\E k \in 1..Len(calls) : calls[k] = c) =>
          T(c) = Turn(c) /\ Turn(c) \in 1..Len(calls) /\ T(c) <= last
    BY <1>5 DEF Turn
  <2>2. T(b) = last
    BY <1>6 DEF Turn
  <2>t. \A c : Turn(c)' = T(c)
    BY DEF Turn
  <2> HIDE DEF T
  <2>3. \A j \in 1..Len(queue) : T(queue[j].batch) = Turn(queue[j].batch) /\ T(queue[j].batch) <= last
    BY <2>1 DEF OrderInv, CallsOnce
  <2>4. \A i \in 1..Len(wire) : T(wire[i][1]) = Turn(wire[i][1]) /\ T(wire[i][1]) <= last
    BY <2>1 DEF OrderInv, CallsOnce
  <2>5. \A c \in called : T(c) = Turn(c) /\ T(c) <= last
    BY <2>1 DEF OrderInv, CallsOnce
  <2>6. ASSUME NEW i \in 1..Len(queue'), NEW j \in 1..Len(queue'), i < j
        PROVE  T(queue'[i].batch) <= T(queue'[j].batch)
    <3>1. CASE j \in 1..Len(queue) /\ queue'[j] = queue[j]
      <4>1. i \in 1..Len(queue) /\ queue'[i] = queue[i]
        BY <1>1, <1>3, <2>6, <3>1
      <4> QED
        BY <2>3, <2>6, <3>1, <4>1 DEF OrderInv, InOrder
    <3>2. CASE queue'[j].batch = b
      <4>1. T(queue'[i].batch) <= last
        BY <1>1, <1>3, <2>2, <2>3
      <4> QED
        BY <2>2, <3>2, <4>1
    <3> QED
      BY <1>3, <3>1, <3>2
  <2>7. \A i, j \in 1..Len(wire) : i < j => T(wire[i][1]) <= T(wire[j][1])
    BY <2>4 DEF OrderInv, InOrder
  <2>8. \A i \in 1..Len(wire), j \in 1..Len(queue') : T(wire[i][1]) <= T(queue'[j].batch)
    BY <1>3, <2>2, <2>3, <2>4 DEF OrderInv, InOrder
  <2>9. \A c \in called, j \in 1..Len(queue') : T(c) <= T(queue'[j].batch)
    BY <1>3, <2>2, <2>3, <2>5 DEF OrderInv, InOrder
  <2> QED
    BY <1>1, <2>t, <2>6, <2>7, <2>8, <2>9 DEF InOrder
<1> QED
  BY <1>4, <1>8 DEF OrderInv

\* handle_write moves the front of the queue to the end of the wire.
LEMMA WriteInOrder ==
  ASSUME TypeOK, OrderInv, HandleWrite PROVE OrderInv'
<1> DEFINE h == Head(queue)
           m == <<h.batch, h.part>>
<1>1. /\ queue \in Seq(Entries) /\ queue # <<>> /\ queue' = Tail(queue) /\ wire' = Append(wire, m)
      /\ calls' = calls /\ called' \subseteq called \cup {h.batch}
      /\ wire \in Seq(Batches \X (Nat \ {0}))
  BY DEF HandleWrite, TypeOK
<1>2. /\ Len(queue) \in Nat /\ 1 \in 1..Len(queue) /\ h = queue[1]
      /\ \A i \in 1..Len(queue') : i + 1 \in 1..Len(queue) /\ queue'[i] = queue[i + 1] /\ i + 1 > 1
  BY <1>1
<1>3. m[1] = h.batch /\ m \in Batches \X (Nat \ {0})
  <2>1. h \in Entries
    BY <1>1
  <2> QED
    BY <2>1 DEF Entries
<1> HIDE DEF m, h
<1>4. /\ Len(wire) \in Nat /\ Len(wire') = Len(wire) + 1 /\ wire'[Len(wire) + 1] = m
      /\ \A i \in 1..Len(wire) : wire'[i] = wire[i]
  BY <1>1, <1>3
<1>5. ASSUME NEW i \in 1..Len(wire')
      PROVE  (i \in 1..Len(wire) /\ wire'[i] = wire[i]) \/ (i = Len(wire) + 1 /\ wire'[i][1] = h.batch)
  BY <1>3, <1>4
<1>6. CallsOnce'
  <2>1. \E k \in 1..Len(calls) : calls[k] = h.batch
    BY <1>2 DEF OrderInv, CallsOnce
  <2>2. \A i \in 1..Len(queue') : \E k \in 1..Len(calls) : calls[k] = queue'[i].batch
    <3>1. \A i \in 1..Len(queue) : \E k \in 1..Len(calls) : calls[k] = queue[i].batch
      BY DEF OrderInv, CallsOnce
    <3> SUFFICES ASSUME NEW i \in 1..Len(queue')
                 PROVE  \E k \in 1..Len(calls) : calls[k] = queue'[i].batch
      OBVIOUS
    <3>2. i + 1 \in 1..Len(queue) /\ queue'[i] = queue[i + 1]
      BY <1>2
    <3> QED BY <3>1, <3>2
  <2>3. \A i \in 1..Len(wire') : \E k \in 1..Len(calls) : calls[k] = wire'[i][1]
    BY <1>5, <2>1 DEF OrderInv, CallsOnce
  <2>4. \A c \in called' : \E k \in 1..Len(calls) : calls[k] = c
    BY <1>1, <2>1 DEF OrderInv, CallsOnce
  <2>5. \A i, j \in 1..Len(calls) : calls[i] = calls[j] => i = j
    BY DEF OrderInv, CallsOnce
  <2> QED
    BY <1>1, <2>2, <2>3, <2>4, <2>5 DEF CallsOnce
<1>7. \A c : Turn(c)' = Turn(c)
  BY <1>1 DEF Turn
<1>8. /\ \A j \in 1..Len(queue') : Turn(h.batch) <= Turn(queue'[j].batch)
      /\ \A i \in 1..Len(wire) : Turn(wire[i][1]) <= Turn(h.batch)
      /\ \A c \in called : Turn(c) <= Turn(h.batch)
  BY <1>2 DEF OrderInv, InOrder
<1>9. \A i, j \in 1..Len(queue') : i < j => Turn(queue'[i].batch) <= Turn(queue'[j].batch)
  <2> SUFFICES ASSUME NEW i \in 1..Len(queue'), NEW j \in 1..Len(queue'), i < j
               PROVE  Turn(queue'[i].batch) <= Turn(queue'[j].batch)
    OBVIOUS
  <2>1. i + 1 < j + 1
    OBVIOUS
  <2> QED
    BY <1>2, <2>1 DEF OrderInv, InOrder
<1>10. \A i, j \in 1..Len(wire') : i < j => Turn(wire'[i][1]) <= Turn(wire'[j][1])
  <2> SUFFICES ASSUME NEW i \in 1..Len(wire'), NEW j \in 1..Len(wire'), i < j
               PROVE  Turn(wire'[i][1]) <= Turn(wire'[j][1])
    OBVIOUS
  <2>1. i \in 1..Len(wire) /\ wire'[i] = wire[i]
    BY <1>4
  <2> QED
    BY <1>5, <1>8, <2>1 DEF OrderInv, InOrder
<1>11. \A i \in 1..Len(wire'), j \in 1..Len(queue') : Turn(wire'[i][1]) <= Turn(queue'[j].batch)
  BY <1>2, <1>5, <1>8 DEF OrderInv, InOrder
<1>12. \A c \in called', j \in 1..Len(queue') : Turn(c) <= Turn(queue'[j].batch)
  BY <1>1, <1>2, <1>8 DEF OrderInv, InOrder
<1>13. InOrder'
  BY <1>7, <1>9, <1>10, <1>11, <1>12 DEF InOrder
<1> QED
  BY <1>6, <1>13 DEF OrderInv

LEMMA OrderInductive == TypeOK /\ TypeOK' /\ OrderInv /\ [Next]_vars => OrderInv'
<1> SUFFICES ASSUME TypeOK, TypeOK', OrderInv, [Next]_vars PROVE OrderInv'
  OBVIOUS
<1>1. ASSUME UNCHANGED <<calls, wire, called>>, queue' = queue \/ queue' = <<>> PROVE OrderInv'
  <2>1. \A c : Turn(c)' = Turn(c)
    BY <1>1 DEF Turn
  <2>2. CASE queue' = queue
    BY <1>1, <2>1, <2>2 DEF OrderInv, CallsOnce, InOrder
  <2>3. CASE queue' = <<>>
    <3>1. Len(queue') = 0
      BY <2>3
    <3> QED
      BY <1>1, <2>1, <3>1 DEF OrderInv, CallsOnce, InOrder
  <2> QED
    BY <1>1, <2>2, <2>3
<1>2. CASE HandleWriteError
  BY <1>1, <1>2 DEF HandleWriteError
<1>3. CASE UpgradeFirmware
  BY <1>1, <1>3 DEF UpgradeFirmware
<1>4. CASE UNCHANGED vars
  BY <1>1, <1>4 DEF vars
<1> QED
  BY <1>2, <1>3, <1>4, CallInOrder, WriteInOrder DEF Next

\* For any number of calls of any size, completions and errors: messages of two calls are
\* neither mixed nor reordered on the wire, and when a callback is called nothing of an
\* earlier call is left in the queue.
THEOREM BatchesInOrderAlways == Spec => []BatchesInOrder
<1>1. TypeOK /\ OrderInv => BatchesInOrder
  <2> SUFFICES ASSUME TypeOK, OrderInv PROVE BatchesInOrder
    OBVIOUS
  <2>1. DOMAIN wire = 1..Len(wire) /\ DOMAIN queue = 1..Len(queue)
    BY DEF TypeOK
  <2> QED
    BY <2>1 DEF OrderInv, InOrder, BatchesInOrder
<1>2. Spec => []OrderInv
  BY OrderInit, OrderInductive, TypeOKAlways, PTL DEF Spec
<1> QED
  BY <1>1, <1>2, TypeOKAlways, PTL
=============================================================================
