-------------------------- MODULE AppSessionProofs --------------------------
(***************************************************************************)
(* For any number of status changes, requests and pings: one write at a    *)
(* time, and the reply to the handshake is the first thing an accepted     *)
(* client hears; one that is refused hears of changes at most.             *)
(***************************************************************************)
EXTENDS AppSession, TLAPS

USE SessionAssumption DEF SessionAssumption

\* Before the handshake nothing is queued to be written, and nothing was heard.
LEMMA InitInv == Init => IInv
<1> SUFFICES ASSUME Init PROVE IInv
  OBVIOUS
<1>1. TypeOK
  <2>1. <<>> \in Seq(Tags)
    OBVIOUS
  <2>2. out \in [queue : Seq(Tags), writing : 0..1]
    BY <2>1 DEF Init
  <2>3. used \in [changes : 0..MaxChanges, requests : 0..MaxRequests, pings : 0..MaxPings]
    BY DEF Init
  <2> QED
    BY <2>1, <2>2, <2>3 DEF Init, TypeOK
<1>2. <<>> \in Seq({"changed"})
  OBVIOUS
<1> QED
  BY <1>1, <1>2 DEF Init, IInv, HandshakeFirst, Accepted

\* What write_message does to the queue: the message is last, and a write is started only
\* if it is also first.
LEMMA WrittenFacts ==
  ASSUME NEW o \in [queue : Seq(Tags), writing : 0..1], NEW v \in 0..1, NEW tag \in Tags,
         o.writing = 1 => o.queue # <<>>
  PROVE  /\ Written(o, v, tag) \in [queue : Seq(Tags), writing : 0..1]
         /\ Written(o, v, tag).queue # <<>>
         /\ o.queue # <<>> => /\ Head(Written(o, v, tag).queue) = Head(o.queue)
                              /\ Written(o, v, tag).writing = o.writing
         /\ o.queue = <<>> => /\ Head(Written(o, v, tag).queue) = tag
                              /\ Written(o, v, tag).writing = v
<1>1. o.queue \in Seq(Tags) /\ o.writing \in 0..1
  OBVIOUS
<1> DEFINE s == Append(o.queue, tag)
<1>2. /\ s \in Seq(Tags) /\ s # <<>>
      /\ o.queue # <<>> => Head(s) = Head(o.queue) /\ Len(o.queue) + 1 > 1
      /\ o.queue = <<>> => Head(s) = tag /\ ~(Len(o.queue) + 1 > 1)
  <2>1. s \in Seq(Tags) /\ Len(s) = Len(o.queue) + 1 /\ Len(o.queue) \in Nat
    BY <1>1
  <2>2. s # <<>> /\ Head(s) = s[1]
    BY <2>1
  <2>3. ASSUME o.queue # <<>> PROVE s[1] = o.queue[1] /\ Head(o.queue) = o.queue[1] /\ Len(o.queue) > 0
    BY <1>1, <2>3
  <2>4. ASSUME o.queue = <<>> PROVE s[1] = tag /\ Len(o.queue) = 0
    BY <1>1, <2>4
  <2> QED
    BY <2>1, <2>2, <2>3, <2>4
<1> HIDE DEF s
<1>w. Written(o, v, tag) = [queue |-> s,
         writing |-> IF Len(o.queue) + 1 > 1 \/ v = 0 THEN o.writing ELSE o.writing + 1]
  BY DEF Written, s
<1>3. CASE o.queue # <<>>
  BY <1>1, <1>2, <1>3, <1>w
<1>4. CASE o.queue = <<>>
  <2>1. o.writing = 0
    BY <1>1, <1>4
  <2> QED
    BY <1>1, <1>2, <1>4, <2>1, <1>w
<1> QED
  BY <1>3, <1>4

\* A change put behind changes leaves changes.
LEMMA ChangesStay ==
  ASSUME NEW o, o.queue \in Seq({"changed"}), NEW v
  PROVE  Written(o, v, "changed").queue \in Seq({"changed"})
BY DEF Written

\* Who has heard of changes only has heard nothing else.
LEMMA ChangesOnly ==
  ASSUME NEW r \in Seq({"changed"})
  PROVE  Range(r) \subseteq {"changed"}
BY DEF Range

\* What is used of a bound stays within it.
LEMMA UsedMoves ==
  ASSUME TypeOK,
         \/ used' = [used EXCEPT !.changes = @ + 1] /\ used.changes < MaxChanges
         \/ used' = [used EXCEPT !.requests = @ + 1] /\ used.requests < MaxRequests
         \/ used' = [used EXCEPT !.pings = @ + 1] /\ used.pings < MaxPings
  PROVE  used' \in [changes : 0..MaxChanges, requests : 0..MaxRequests, pings : 0..MaxPings]
<1>1. used \in [changes : 0..MaxChanges, requests : 0..MaxRequests, pings : 0..MaxPings]
  BY DEF TypeOK
<1>2. used.changes \in 0..MaxChanges /\ used.requests \in 0..MaxRequests /\ used.pings \in 0..MaxPings
  BY <1>1
<1>3. /\ used.changes < MaxChanges => used.changes + 1 \in 0..MaxChanges
      /\ used.requests < MaxRequests => used.requests + 1 \in 0..MaxRequests
      /\ used.pings < MaxPings => used.pings + 1 \in 0..MaxPings
  BY <1>2, SessionAssumption
<1> QED BY <1>1, <1>3

\* Every step of the session keeps the invariant.
LEMMA NextInv == IInv /\ [Next]_vars => IInv'
<1> SUFFICES ASSUME IInv, [Next]_vars PROVE IInv'
  OBVIOUS
<1>a. /\ out \in [queue : Seq(Tags), writing : 0..1] /\ version \in 0..1
      /\ out.writing = 1 => out.queue # <<>>
  BY DEF IInv, TypeOK
<1>b. ASSUME NEW tag \in Tags, out' = Written(out, version, tag)
      PROVE  /\ out' \in [queue : Seq(Tags), writing : 0..1] /\ out'.queue # <<>>
             /\ out.queue # <<>> => Head(out'.queue) = Head(out.queue) /\ out'.writing = out.writing
             /\ out.queue = <<>> => Head(out'.queue) = tag /\ out'.writing = version
  BY <1>a, <1>b, WrittenFacts, Zenon
<1>c. ASSUME NEW o \in [queue : Seq(Tags), writing : 0..1], o.queue # <<>>, NEW tag \in Tags
      PROVE  /\ Written(o, 1, tag) \in [queue : Seq(Tags), writing : 0..1]
             /\ Written(o, 1, tag).queue # <<>>
             /\ Head(Written(o, 1, tag).queue) = Head(o.queue)
             /\ Written(o, 1, tag).writing = o.writing
  <2>1. 1 \in 0..1
    OBVIOUS
  <2> QED BY <1>c, <2>1, WrittenFacts, Zenon
<1> USE DEF IInv, TypeOK, Accepted
<1>1. CASE HandleWrite
  <2>1. /\ out.queue # <<>> /\ Tail(out.queue) \in Seq(Tags) /\ Head(out.queue) \in Tags
        /\ out.writing = 1 /\ version = 1
    BY <1>1 DEF HandleWrite
  <2>2. /\ out' \in [queue : Seq(Tags), writing : 0..1]
        /\ out'.writing = 1 => out'.queue # <<>>
    BY <1>1, <2>1 DEF HandleWrite
  <2>3. /\ received' \in Seq(Tags)
        /\ client = "open" => received' # <<>>
    <3> DEFINE longer == Append(received, Head(out.queue))
    <3>1. longer \in Seq(Tags) /\ Len(longer) = Len(received) + 1 /\ Len(received) \in Nat
      BY <2>1
    <3>2. received' = IF client = "open" THEN longer ELSE received
      BY <1>1 DEF HandleWrite
    <3> HIDE DEF longer
    <3>3. longer # <<>>
      BY <3>1
    <3> QED
      BY <3>1, <3>2, <3>3
  <2>4. (~Accepted /\ (version = 1 \/ reading = "handshake"))'
           => out'.queue \in Seq({"changed"}) /\ received' \in Seq({"changed"})
    <3> SUFFICES ASSUME ~Accepted
                 PROVE  out'.queue \in Seq({"changed"}) /\ received' \in Seq({"changed"})
      BY <1>1 DEF HandleWrite
    <3>1. out.queue \in Seq({"changed"}) /\ received \in Seq({"changed"})
      BY <2>1
    <3>2. Tail(out.queue) \in Seq({"changed"}) /\ Head(out.queue) = "changed"
      BY <3>1, <2>1
    <3>3. Append(received, "changed") \in Seq({"changed"})
      BY <3>1
    <3> QED
      BY <1>1, <3>1, <3>2, <3>3 DEF HandleWrite
  <2>5. HandshakeFirst'
    <3>0. timer' = timer /\ version' = version
      BY <1>1 DEF HandleWrite
    <3>1. CASE Accepted /\ client = "open" /\ received = <<>>
      <4>1. received' = <<"handshake">>
        BY <1>1, <2>1, <3>1 DEF HandleWrite
      <4> QED
        BY <3>0, <3>1, <4>1 DEF HandshakeFirst
    <3>2. CASE Accepted /\ client = "open" /\ received # <<>>
      <4>1. received' = Append(received, Head(out.queue)) /\ received[1] = "handshake"
        BY <1>1, <3>2 DEF HandleWrite, HandshakeFirst
      <4>2. received'[1] = received[1]
        BY <4>1, <3>2, <2>1
      <4> QED
        BY <3>0, <3>2, <4>1, <4>2 DEF HandshakeFirst
    <3>3. CASE Accepted /\ client # "open"
      BY <1>1, <3>3 DEF HandleWrite, HandshakeFirst
    <3>4. CASE ~Accepted
      <4>1. received' \in Seq({"changed"})
        BY <2>1, <2>4, <3>0, <3>4
      <4> QED
        BY <3>0, <3>4, <4>1, ChangesOnly DEF HandshakeFirst
    <3> QED
      BY <3>1, <3>2, <3>3, <3>4
  <2>6. TypeOK'
    BY <1>1, <2>2, <2>3 DEF HandleWrite
  <2>7. UNCHANGED <<version, reading, timer, client>>
    BY <1>1 DEF HandleWrite
  <2>8. reading = "handshake" => version = 0
    OBVIOUS
  <2> HIDE DEF TypeOK, HandshakeFirst
  <2> QED BY <2>1, <2>2, <2>3, <2>4, <2>5, <2>6, <2>7, <2>8
<1>2. CASE NodeChanged
  <2>1. used' \in [changes : 0..MaxChanges, requests : 0..MaxRequests, pings : 0..MaxPings]
    <3>1. used' = [used EXCEPT !.changes = @ + 1] /\ used.changes < MaxChanges
      BY <1>2 DEF NodeChanged
    <3> QED BY <3>1, UsedMoves
  <2>2. posted' \in Nat /\ UNCHANGED <<version, out, reading, timer, client, received, early>>
    BY <1>2 DEF NodeChanged
  <2> HIDE DEF IInv, TypeOK
  <2>3. TypeOK'
    BY <2>1, <2>2 DEF IInv, TypeOK
  <2> QED BY <2>2, <2>3 DEF IInv, HandshakeFirst, Accepted
<1>3. CASE DoNodeChanged
  <2>1. out' = Written(out, version, "changed") /\ "changed" \in Tags
    BY <1>3 DEF DoNodeChanged, Tags
  <2>3. /\ out' \in [queue : Seq(Tags), writing : 0..1] /\ out'.queue # <<>>
        /\ out.queue # <<>> => Head(out'.queue) = Head(out.queue) /\ out'.writing = out.writing
        /\ out.queue = <<>> => Head(out'.queue) = "changed" /\ out'.writing = version
    BY <2>1, <1>b
  <2>4. out.queue \in Seq({"changed"}) => out'.queue \in Seq({"changed"})
    BY <2>1, ChangesStay
  <2>5. UNCHANGED <<version, reading, timer, client, received>>
    BY <1>3 DEF DoNodeChanged
  <2>6. TypeOK'
    BY <1>3, <2>3 DEF DoNodeChanged
  <2>7. HandshakeFirst'
    BY <2>5 DEF HandshakeFirst
  <2>8. version = 0 => out.writing = 0
    OBVIOUS
  <2>9. version \in 0..1
    OBVIOUS
  <2> HIDE DEF TypeOK, HandshakeFirst
  <2> QED BY <2>3, <2>4, <2>5, <2>6, <2>7, <2>8, <2>9
<1>4. CASE HandleHandshake
  <2> DEFINE reply == Written(out, 1, "handshake")
  <2>1. out' = Written(reply, 1, "changed") /\ "changed" \in Tags /\ "handshake" \in Tags
    BY <1>4 DEF HandleHandshake, Greeted, Tags
  <2>2. version = 0 /\ out.writing = 0 /\ received = <<>>
    BY <1>4 DEF HandleHandshake
  <2>3. /\ reply \in [queue : Seq(Tags), writing : 0..1] /\ reply.queue # <<>>
        /\ reply.writing = 1 => Head(reply.queue) = "handshake"
    BY <2>1, <2>2, WrittenFacts
  <2>4. /\ out' \in [queue : Seq(Tags), writing : 0..1] /\ out'.queue # <<>>
        /\ out'.writing = 1 => Head(out'.queue) = "handshake"
    <3> HIDE DEF reply
    <3> DEFINE greeted == Written(reply, 1, "changed")
    <3>1. /\ greeted \in [queue : Seq(Tags), writing : 0..1] /\ greeted.queue # <<>>
          /\ Head(greeted.queue) = Head(reply.queue) /\ greeted.writing = reply.writing
      <4>1. /\ reply \in [queue : Seq(Tags), writing : 0..1] /\ reply.queue # <<>>
            /\ "changed" \in Tags
        BY <2>1, <2>3
      <4> HIDE DEF IInv, TypeOK
      <4> QED
        BY <4>1, <1>c, Zenon
    <3>2. out' = greeted
      BY <2>1
    <3> HIDE DEF greeted
    <3> QED
      BY <2>3, <3>1, <3>2
  <2> QED
    BY <1>4, <2>2, <2>4 DEF HandleHandshake, HandshakeFirst
<1>5. CASE HandleIncompatible
  <2>1. out' = Written(out, version, "handshake") /\ "handshake" \in Tags
    BY <1>5 DEF HandleIncompatible, Tags
  <2>3. /\ out' \in [queue : Seq(Tags), writing : 0..1] /\ out'.queue # <<>>
        /\ out.queue # <<>> => Head(out'.queue) = Head(out.queue) /\ out'.writing = out.writing
        /\ out.queue = <<>> => Head(out'.queue) = "handshake" /\ out'.writing = version
    BY <2>1, <1>b
  <2> QED
    BY <1>5, <2>3 DEF HandleIncompatible, HandshakeFirst
<1>12. CASE HandleRefused
  BY <1>12 DEF HandleRefused, HandshakeFirst
<1>6. CASE HandleIntruder
  BY <1>6 DEF HandleIntruder, HandshakeFirst
<1>7. CASE HandleReadError
  BY <1>7 DEF HandleReadError, AfterError, HandshakeFirst
<1>8. CASE HandleRead
  <2>1. out' = Written(out, version, "answer") /\ "answer" \in Tags
    BY <1>8 DEF HandleRead, Tags
  <2>2. used' \in [changes : 0..MaxChanges, requests : 0..MaxRequests, pings : 0..MaxPings]
    <3>1. used' = [used EXCEPT !.requests = @ + 1] /\ used.requests < MaxRequests
      BY <1>8 DEF HandleRead
    <3> QED BY <3>1, UsedMoves
  <2>3. /\ out' \in [queue : Seq(Tags), writing : 0..1] /\ out'.queue # <<>>
        /\ out.queue # <<>> => Head(out'.queue) = Head(out.queue) /\ out'.writing = out.writing
        /\ out.queue = <<>> => Head(out'.queue) = "answer" /\ out'.writing = version
    BY <2>1, <1>b
  <2> QED
    BY <1>8, <2>3, <2>2 DEF HandleRead, HandshakeFirst
<1>9. CASE SendPing
  <2>1. out' = Written(out, version, "ping") /\ "ping" \in Tags
    BY <1>9 DEF SendPing, Tags
  <2>2. used' \in [changes : 0..MaxChanges, requests : 0..MaxRequests, pings : 0..MaxPings]
    <3>1. used' = [used EXCEPT !.pings = @ + 1] /\ used.pings < MaxPings
      BY <1>9 DEF SendPing
    <3> QED BY <3>1, UsedMoves
  <2>3. /\ out' \in [queue : Seq(Tags), writing : 0..1] /\ out'.queue # <<>>
        /\ out.queue # <<>> => Head(out'.queue) = Head(out.queue) /\ out'.writing = out.writing
        /\ out.queue = <<>> => Head(out'.queue) = "ping" /\ out'.writing = version
    BY <2>1, <1>b
  <2> QED
    BY <1>9, <2>3, <2>2 DEF SendPing, HandshakeFirst
<1>10. CASE CloseClient
  BY <1>10 DEF CloseClient, HandshakeFirst
<1>11. CASE UNCHANGED vars
  BY <1>11 DEF vars, HandshakeFirst
<1> QED
  BY <1>1, <1>2, <1>3, <1>4, <1>5, <1>6, <1>7, <1>8, <1>9, <1>10, <1>11, <1>12 DEF Next

\* The invariant holds in every reachable state.
THEOREM Invariance == Spec => []IInv
BY InitInv, NextInv, PTL DEF Spec

\* At most one write is in progress, and the queue and the counters keep their types, however
\* the handlers interleave.
THEOREM TypeOKAlways == Spec => []TypeOK
<1>1. IInv => TypeOK
  BY DEF IInv
<1> QED
  BY <1>1, Invariance, PTL

\* An accepted client hears the reply before everything else write_message was given, and
\* a refused one hears of changes at most, however the handlers interleave.
THEOREM HandshakeFirstAlways == Spec => []HandshakeFirst
<1>1. IInv => HandshakeFirst
  BY DEF IInv
<1> QED
  BY <1>1, Invariance, PTL
=============================================================================
