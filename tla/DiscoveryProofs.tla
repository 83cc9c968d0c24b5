--------------------------- MODULE DiscoveryProofs ---------------------------
(***************************************************************************)
(* A description taken for complete is the robot's, whatever the robot     *)
(* describes and in which order, and however many messages are lost, late  *)
(* or answered twice.                                                      *)
(***************************************************************************)
EXTENDS Discovery, FiniteSetTheorems, TLAPS

Types ==
  /\ fragmented \in BOOLEAN /\ begun \in BOOLEAN /\ head \in BOOLEAN
  /\ timer \in BOOLEAN /\ fired \in BOOLEAN /\ complete \in BOOLEAN
  /\ list \in [Kinds -> Seq(Fragments \cup {BLANK})]
  /\ counter \in [Kinds -> Nat]
  /\ requests \in Seq(Fragments \cup {HEAD, ALL, Len(Kind)})
  /\ answers \in Seq(Fragments \cup {HEAD})
  /\ lost \in 0..MaxLost

Count(k) == Cardinality(OfKind(k))

\* How many fragments are stored, which is the fragment asked for next.
Total == counter["variable"] + counter["function"] + counter["event"]

Below(k, n) == {f \in OfKind(k) : f < n}

\* The lists have a head's sizes, and their first entries, as many as are counted, are
\* fragments of their kind.
Filled ==
  /\ \A k \in Kinds : Len(list[k]) = IF head THEN Count(k) ELSE 0
  /\ \A k \in Kinds : counter[k] <= Len(list[k])
  /\ \A k \in Kinds : \A i \in 1..Len(list[k]) :
        IF i <= counter[k] THEN list[k][i] \in OfKind(k) ELSE list[k][i] = BLANK
  /\ complete => head /\ \A k \in Kinds : counter[k] = Len(list[k])

\* Asked one by one, the fragments below the next one are stored, each at its place.
Prefix ==
  fragmented =>
    /\ Total <= Len(Kind)
    /\ \A k \in Kinds : counter[k] = Cardinality(Below(k, Total))
    /\ \A k \in Kinds : \A i \in 1..counter[k] : list[k][i] < Total /\ Rank(list[k][i]) = i

\* No question or answer is about a fragment that comes after the next one, and from the
\* host to the robot and back all heads go before all fragments: a late head finds
\* nothing stored yet.
HeadsFirst ==
  fragmented =>
    /\ \A i \in DOMAIN requests : requests[i] = HEAD \/ (requests[i] \in 0..Total /\ head)
    /\ \A i \in DOMAIN answers : answers[i] = HEAD \/ (answers[i] \in 0..Total /\ head)
    /\ \A i \in DOMAIN requests : requests[i] = HEAD =>
          /\ Total = 0
          /\ \A j \in DOMAIN requests : j < i => requests[j] = HEAD
          /\ \A j \in DOMAIN answers : answers[j] = HEAD
    /\ \A i \in DOMAIN answers : answers[i] = HEAD =>
          /\ Total = 0
          /\ \A j \in DOMAIN answers : j < i => answers[j] = HEAD

\* Asked at once, everything is asked only once, and comes in order: some fragments may be
\* missing, but no order is ever changed.
Increasing ==
  ~fragmented =>
    /\ ~timer /\ ~fired
    /\ requests = <<>> \/ (requests = <<ALL>> /\ answers = <<>> /\ ~head)
    /\ ~begun => requests = <<>> /\ answers = <<>> /\ ~head
    /\ \A i \in DOMAIN answers : answers[i] = HEAD => ~head
    /\ \A i, j \in DOMAIN answers : i < j => answers[i] < answers[j]
    /\ \A i \in DOMAIN answers : \A k \in Kinds : \A j \in 1..counter[k] : list[k][j] < answers[i]
    /\ \A k \in Kinds : \A i, j \in 1..counter[k] : i < j => list[k][i] < list[k][j]

IInv == Types /\ Filled /\ Prefix /\ HeadsFirst /\ Increasing
-----------------------------------------------------------------------------
(* Counting fragments *)

LEMMA FragmentsCounted ==
  ASSUME NEW k \in Kinds
  PROVE  /\ Len(Kind) \in Nat
         /\ \A f \in Fragments : f \in Nat /\ f < Len(Kind) /\ Kind[f + 1] \in Kinds /\ f \in OfKind(Kind[f + 1])
         /\ OfKind(k) \subseteq Fragments
         /\ IsFiniteSet(OfKind(k)) /\ Count(k) \in Nat
<1>1. Len(Kind) \in Nat /\ Kind \in Seq(Kinds)
  BY DiscoveryAssumption
<1>2. IsFiniteSet(Fragments)
  <2>1. 0 \in Int /\ Len(Kind) - 1 \in Int
    BY <1>1
  <2> QED BY <2>1, FS_Interval DEF Fragments
<1>3. \A f \in Fragments : f \in Nat /\ f < Len(Kind) /\ Kind[f + 1] \in Kinds
  BY <1>1 DEF Fragments
<1>4. OfKind(k) \in SUBSET Fragments
  BY DEF OfKind
<1>5. IsFiniteSet(OfKind(k))
  BY <1>2, <1>4, FS_Subset
<1>6. Count(k) \in Nat
  BY <1>5, FS_CardinalityType DEF Count
<1> QED BY <1>1, <1>3, <1>4, <1>5, <1>6 DEF OfKind

\* How many fragments of a kind there are below another, and with it.
LEMMA OneMore ==
  ASSUME NEW n \in Fragments
  PROVE  /\ Cardinality(Below(Kind[n + 1], n)) \in Nat
         /\ Cardinality(Below(Kind[n + 1], n + 1)) = Cardinality(Below(Kind[n + 1], n)) + 1
         /\ Rank(n) = Cardinality(Below(Kind[n + 1], n)) + 1
         /\ Rank(n) <= Count(Kind[n + 1])
         /\ \A k \in Kinds : k # Kind[n + 1] => Below(k, n + 1) = Below(k, n)
<1> DEFINE k == Kind[n + 1]
           B == Below(k, n)
<1>1. k \in Kinds /\ n \in Nat /\ n \in OfKind(k) /\ IsFiniteSet(OfKind(k)) /\ Count(k) \in Nat
  <2>1. "event" \in Kinds
    BY DEF Kinds
  <2>2. k \in Kinds /\ n \in Nat /\ n \in OfKind(k)
    BY <2>1, FragmentsCounted
  <2> QED BY <2>2, FragmentsCounted
<1>2. \A f \in OfKind(k) : f \in Nat
  BY <1>1, FragmentsCounted
<1>3. B \in SUBSET OfKind(k) /\ n \notin B
  BY <1>1 DEF Below
<1>4. IsFiniteSet(B)
  BY <1>1, <1>3, FS_Subset
<1>5. Cardinality(B) \in Nat /\ Cardinality(B \cup {n}) = Cardinality(B) + 1
  BY <1>3, <1>4, FS_AddElement, FS_CardinalityType
<1>6. Below(k, n + 1) = B \cup {n}
  BY <1>1, <1>2 DEF Below
<1>7. {g \in OfKind(k) : g <= n} = B \cup {n}
  BY <1>1, <1>2 DEF Below
<1>8. Rank(n) = Cardinality(B) + 1
  BY <1>5, <1>7 DEF Rank
<1>9. Rank(n) <= Count(k)
  <2>1. B \cup {n} \in SUBSET OfKind(k)
    BY <1>1, <1>3
  <2> QED BY <1>1, <1>5, <1>8, <2>1, FS_Subset DEF Count
<1>10. ASSUME NEW j \in Kinds, j # k PROVE Below(j, n + 1) = Below(j, n)
  <2>1. n \notin OfKind(j)
    BY <1>10 DEF OfKind
  <2>2. \A f \in OfKind(j) : f \in Nat
    BY FragmentsCounted
  <2> QED BY <1>1, <2>1, <2>2 DEF Below
<1> QED BY <1>5, <1>6, <1>8, <1>9, <1>10

\* Fragments of a kind have different places, so the place determines the fragment.
LEMMA Ranked ==
  ASSUME NEW k \in Kinds, NEW f \in OfKind(k)
  PROVE  /\ Rank(f) \in 1..Count(k)
         /\ \A g \in OfKind(k) : Rank(g) = Rank(f) => g = f
         /\ Described(k)[Rank(f)] = f
<1> DEFINE Upto(g) == {h \in OfKind(k) : h <= g}
<1>1. IsFiniteSet(OfKind(k)) /\ Count(k) \in Nat /\ OfKind(k) \subseteq Fragments
  BY FragmentsCounted
<1>2. \A g \in OfKind(k) : Kind[g + 1] = k /\ g \in Nat /\ g \in Fragments
  BY <1>1, FragmentsCounted DEF OfKind
<1>3. \A g \in OfKind(k) : Rank(g) = Cardinality(Upto(g)) /\ IsFiniteSet(Upto(g)) /\ g \in Upto(g)
  <2> SUFFICES ASSUME NEW g \in OfKind(k)
               PROVE  Rank(g) = Cardinality(Upto(g)) /\ IsFiniteSet(Upto(g)) /\ g \in Upto(g)
    OBVIOUS
  <2>1. Upto(g) \in SUBSET OfKind(k)
    OBVIOUS
  <2>2. IsFiniteSet(Upto(g))
    BY <1>1, <2>1, FS_Subset
  <2>3. Rank(g) = Cardinality(Upto(g))
    BY <1>2 DEF Rank
  <2>4. g \in Upto(g)
    BY <1>2
  <2> QED BY <2>2, <2>3, <2>4
<1>4. ASSUME NEW g \in OfKind(k), NEW h \in OfKind(k), g < h PROVE Rank(g) # Rank(h)
  <2>1. Upto(g) \in SUBSET Upto(h) /\ h \notin Upto(g)
    BY <1>2, <1>4
  <2>2. Upto(g) # Upto(h)
    BY <1>3, <2>1
  <2> HIDE DEF Upto
  <2> QED BY <1>3, <2>1, <2>2, FS_Subset
<1>5. \A g \in OfKind(k) : Rank(g) = Rank(f) => g = f
  BY <1>2, <1>4
<1>6. Rank(f) \in 1..Count(k)
  <2>1. Rank(f) <= Count(k) /\ Rank(f) = Cardinality(Below(Kind[f + 1], f)) + 1
        /\ Cardinality(Below(Kind[f + 1], f)) \in Nat
    BY <1>2, OneMore
  <2> QED BY <1>1, <2>1
<1>7. Described(k)[Rank(f)] = CHOOSE g \in OfKind(k) : Rank(g) = Rank(f)
  BY <1>6 DEF Described, Count
<1> QED BY <1>5, <1>6, <1>7

\* A fragment below another is at a place that is below as well.
LEMMA RankedBelow ==
  ASSUME NEW k \in Kinds, NEW f \in OfKind(k), NEW n \in Nat, f < n
  PROVE  Rank(f) <= Cardinality(Below(k, n))
<1>1. IsFiniteSet(OfKind(k)) /\ OfKind(k) \subseteq Fragments /\ Kind[f + 1] = k
  BY FragmentsCounted DEF OfKind
<1>2. \A g \in OfKind(k) : g \in Nat
  BY <1>1, FragmentsCounted
<1> DEFINE U == {g \in OfKind(k) : g <= f}
<1>3. Rank(f) = Cardinality(U)
  BY <1>1 DEF Rank
<1>4. Below(k, n) \in SUBSET OfKind(k)
  BY DEF Below
<1>5. U \in SUBSET Below(k, n)
  BY <1>2 DEF Below
<1>6. IsFiniteSet(Below(k, n))
  BY <1>1, <1>4, FS_Subset
<1> HIDE DEF U
<1> QED BY <1>3, <1>5, <1>6, FS_Subset

\* As many fragments of a kind as there are, in increasing order, are each at its place.
LEMMA FullIsDescribed ==
  ASSUME NEW k \in Kinds, NEW s \in Seq(Fragments \cup {BLANK}), Len(s) = Count(k),
         \A i \in 1..Len(s) : s[i] \in OfKind(k),
         \A i, j \in 1..Len(s) : i < j => s[i] < s[j]
  PROVE  \A i \in 1..Len(s) : Rank(s[i]) = i
<1> DEFINE n == Len(s)
           K == OfKind(k)
<1>1. n \in Nat /\ IsFiniteSet(K) /\ Cardinality(K) = n /\ \A g \in K : g \in Nat /\ Kind[g + 1] = k
  BY FragmentsCounted DEF Count, OfKind
<1>2. \A i, j \in 1..n : s[i] = s[j] => i = j
  BY <1>1
<1>3. \A g \in K : \E i \in 1..n : s[i] = g
  <2> DEFINE m == [i \in 1..n |-> s[i]]
  <2>1. m \in Injection(1..n, K)
    BY <1>2 DEF Injection, IsInjective
  <2>2. Cardinality(1..n) = n
    BY <1>1, FS_Interval
  <2>3. m \in Surjection(1..n, K)
    BY <1>1, <2>1, <2>2, FS_Injection
  <2> QED BY <2>3 DEF Surjection
<1> SUFFICES ASSUME NEW i \in 1..n PROVE Rank(s[i]) = i
  OBVIOUS
<1> DEFINE T == {g \in K : g <= s[i]}
           m == [j \in 1..i |-> s[j]]
<1>4. i \in Nat /\ s[i] \in K /\ \A j \in 1..i : j \in 1..n
  BY <1>1
<1>5. \A j \in 1..i : s[j] \in T
  <2> SUFFICES ASSUME NEW j \in 1..i PROVE s[j] \in T
    OBVIOUS
  <2>1. j \in 1..n /\ s[j] \in K /\ (j = i \/ j < i)
    BY <1>4
  <2>2. s[j] <= s[i]
    BY <1>1, <1>4, <2>1
  <2> QED BY <2>1, <2>2
<1>6. \A g \in T : \E j \in 1..i : s[j] = g
  <2> SUFFICES ASSUME NEW g \in T PROVE \E j \in 1..i : s[j] = g
    OBVIOUS
  <2>1. PICK j \in 1..n : s[j] = g
    BY <1>3
  <2>2. ~ (i < j)
    <3> SUFFICES ASSUME i < j PROVE FALSE
      OBVIOUS
    <3>1. s[i] < s[j]
      OBVIOUS
    <3> QED BY <1>1, <1>4, <2>1, <3>1
  <2>3. j \in 1..i
    BY <1>1, <1>4, <2>2
  <2> QED BY <2>1, <2>3
<1>7. m \in Injection(1..i, T)
  BY <1>2, <1>4, <1>5 DEF Injection, IsInjective
<1>8. m \in Surjection(1..i, T)
  BY <1>5, <1>6 DEF Surjection
<1>9. ExistsBijection(1..i, T)
  BY <1>7, <1>8 DEF ExistsBijection, Bijection
<1>10. IsFiniteSet(1..i) /\ Cardinality(1..i) = i
  BY <1>4, FS_Interval
<1>11. Cardinality(T) = i
  BY <1>9, <1>10, FS_Bijection
<1> QED BY <1>1, <1>4, <1>11 DEF Rank
-----------------------------------------------------------------------------
(* Asking and answering *)

LEMMA Numbers ==
  /\ HEAD \notin Fragments /\ ALL \notin Fragments /\ BLANK \notin Fragments
  /\ HEAD # ALL /\ HEAD # Len(Kind) /\ HEAD \notin Nat /\ Len(Kind) \in Nat /\ Len(Kind) \notin Fragments
  /\ \A f \in Fragments : f \in Nat /\ HEAD < f /\ f < Len(Kind) /\ Kind[f + 1] \in Kinds
  /\ \A n \in Nat : n < Len(Kind) => n \in Fragments
  /\ "variable" \in Kinds /\ "event" \in Kinds /\ "function" \in Kinds
<1>1. Len(Kind) \in Nat /\ Kind \in Seq(Kinds)
  BY DiscoveryAssumption
<1>2. "variable" \in Kinds /\ "event" \in Kinds /\ "function" \in Kinds
  BY DEF Kinds
<1>3. \A f \in Fragments : Kind[f + 1] \in Kinds
  BY <1>1 DEF Fragments
<1> QED BY <1>1, <1>2, <1>3 DEF Fragments, HEAD, ALL, BLANK

LEMMA TotalNat == Types => Total \in Nat
<1> SUFFICES ASSUME Types PROVE Total \in Nat
  OBVIOUS
<1>1. counter["variable"] \in Nat /\ counter["function"] \in Nat /\ counter["event"] \in Nat
  BY DEF Types, Kinds
<1> QED BY <1>1 DEF Total

LEMMA TotalNatNext == Types' => (Total \in Nat)'
BY TotalNat, PTL

\* A channel takes one message, or has no room for it.
LEMMA SentOne ==
  ASSUME NEW S, NEW channel \in Seq(S), NEW m
  PROVE  Sent(channel, <<m>>) \in {channel, Append(channel, m)}
BY DEF Sent

\* The next question, as far as the stored fragments go.
LEMMA AskedNext ==
  ASSUME NEW h \in BOOLEAN, NEW c \in [Kinds -> Nat], NEW S, requests \in Seq(S),
         RequestNext(h, c)
  PROVE  requests' \in {requests, Append(requests, NextFragment(h, c))}
BY SentOne DEF RequestNext

\* The questions and answers on their way, when the host asks, or receives an answer.
LEMMA HostKeepsHeadsFirst ==
  ASSUME IInv, Types', Filled', fragmented', fragmented, head => head', Total <= Total',
         \/ requests' = requests
         \/ requests' = Append(requests, NextFragment(head', counter')),
         answers' = answers \/ (answers # <<>> /\ answers' = Tail(answers)),
         \A i \in DOMAIN requests : requests[i] = HEAD => Total' = 0,
         \A i \in DOMAIN answers' : answers'[i] = HEAD => Total' = 0
  PROVE  HeadsFirst'
<1> DEFINE m == NextFragment(head', counter')
           R == Fragments \cup {HEAD, ALL, Len(Kind)}
           A == Fragments \cup {HEAD}
<1>1. requests \in Seq(R) /\ answers \in Seq(A) /\ answers' \in Seq(A) /\ requests' \in Seq(R)
  BY DEF IInv, Types
<1>2. Total \in Nat /\ Total' \in Nat
  <2>1. Types => Total \in Nat
    BY TotalNat
  <2>2. Types' => Total' \in Nat
    BY TotalNatNext
  <2> QED BY <2>1, <2>2 DEF IInv
<1>3. HeadsFirst
  BY DEF IInv
<1>4. m = HEAD \/ (m \in 0..Total' /\ head')
  BY <1>2 DEF NextFragment, Total
<1>5. m = HEAD => ~head'
  BY <1>2, Numbers DEF NextFragment, Total
<1>6. ~head' => Total' = 0
  <2> SUFFICES ASSUME ~head' PROVE Total' = 0
    OBVIOUS
  <2>1. \A k \in Kinds : counter'[k] \in Nat /\ counter'[k] <= Len(list'[k]) /\ Len(list'[k]) = 0
    BY DEF Filled, Types
  <2> QED BY <2>1, Numbers DEF Total
<1> HIDE DEF m
<1>7. \A i \in DOMAIN answers' : \E j \in DOMAIN answers : j >= i /\ answers'[i] = answers[j]
         /\ \A p \in DOMAIN answers' : p < i => \E q \in DOMAIN answers : q < j /\ answers'[p] = answers[q]
  <2>1. CASE answers' = answers
    BY <1>1, <2>1
  <2>2. CASE answers # <<>> /\ answers' = Tail(answers)
    <3>1. \A i \in DOMAIN answers' : i + 1 \in DOMAIN answers /\ answers'[i] = answers[i + 1] /\ i \in Nat
      BY <1>1, <2>2
    <3> QED BY <3>1
  <2> QED BY <2>1, <2>2
<1>8. \A i \in DOMAIN requests' :
         \/ i \in DOMAIN requests /\ requests'[i] = requests[i]
         \/ i = Len(requests) + 1 /\ requests'[i] = m
  <2>1. requests' = requests \/ requests' = Append(requests, m)
    BY DEF m
  <2>2. CASE requests' = Append(requests, m)
    BY <1>1, <2>2
  <2> QED BY <2>1, <2>2
<1>9. \A i \in DOMAIN requests : requests[i] = HEAD \/ (requests[i] \in 0..Total' /\ head')
  BY <1>2, <1>3 DEF HeadsFirst
<1>10. \A i \in DOMAIN answers : answers[i] = HEAD \/ (answers[i] \in 0..Total' /\ head')
  BY <1>2, <1>3 DEF HeadsFirst
<1>11. \A i \in DOMAIN requests' : requests'[i] = HEAD \/ (requests'[i] \in 0..Total' /\ head')
  BY <1>4, <1>8, <1>9
<1>12. \A i \in DOMAIN answers' : answers'[i] = HEAD \/ (answers'[i] \in 0..Total' /\ head')
  BY <1>7, <1>10
<1>13. ASSUME NEW i \in DOMAIN answers', answers'[i] = HEAD, NEW p \in DOMAIN answers', p < i
       PROVE  answers'[p] = HEAD
  BY <1>3, <1>7, <1>13 DEF HeadsFirst
<1>14. ASSUME NEW i \in DOMAIN requests', requests'[i] = HEAD
       PROVE  /\ Total' = 0
              /\ \A j \in DOMAIN requests' : j < i => requests'[j] = HEAD
              /\ \A j \in DOMAIN answers' : answers'[j] = HEAD
  <2>1. CASE i \in DOMAIN requests /\ requests'[i] = requests[i]
    <3>1. \A j \in DOMAIN requests' : j < i => j \in DOMAIN requests /\ requests'[j] = requests[j]
      BY <1>1, <1>8, <2>1
    <3> QED BY <1>3, <1>7, <1>14, <2>1, <3>1 DEF HeadsFirst
  <2>2. CASE i = Len(requests) + 1 /\ requests'[i] = m
    <3>1. ~head'
      BY <1>5, <1>14, <2>2
    <3> QED BY <1>6, <1>11, <1>12, <3>1
  <2> QED BY <1>8, <2>1, <2>2
<1> QED BY <1>11, <1>12, <1>13, <1>14 DEF HeadsFirst

\* The questions and answers on their way, when the robot receives a question or it is lost.
LEMMA RobotKeepsHeadsFirst ==
  ASSUME IInv, fragmented, requests # <<>>, requests' = Tail(requests),
         answers' = answers \/ answers' = Append(answers, Head(requests)),
         UNCHANGED descVars
  PROVE  HeadsFirst'
<1> DEFINE m == Head(requests)
           R == Fragments \cup {HEAD, ALL, Len(Kind)}
           A == Fragments \cup {HEAD}
<1>1. requests \in Seq(R) /\ answers \in Seq(A)
  BY DEF IInv, Types
<1>2. HeadsFirst /\ Total' = Total /\ head' = head
  BY DEF IInv, descVars, Total
<1>3. 1 \in DOMAIN requests /\ m = requests[1]
  BY <1>1
<1>4. \A i \in DOMAIN requests' : i + 1 \in DOMAIN requests /\ requests'[i] = requests[i + 1] /\ i \in Nat /\ i >= 1
  BY <1>1
<1>5. \A i \in DOMAIN answers' :
         \/ i \in DOMAIN answers /\ answers'[i] = answers[i]
         \/ i = Len(answers) + 1 /\ answers'[i] = m
  BY <1>1
<1> HIDE DEF m
<1>6. m = HEAD \/ (m \in 0..Total /\ head)
  BY <1>2, <1>3 DEF HeadsFirst
<1>7. \A i \in DOMAIN requests' : requests'[i] = HEAD \/ (requests'[i] \in 0..Total /\ head)
  BY <1>2, <1>4 DEF HeadsFirst
<1>8. \A i \in DOMAIN answers' : answers'[i] = HEAD \/ (answers'[i] \in 0..Total /\ head)
  BY <1>2, <1>5, <1>6 DEF HeadsFirst
<1>9. m = HEAD => Total = 0 /\ \A j \in DOMAIN answers : answers[j] = HEAD
  BY <1>2, <1>3 DEF HeadsFirst
<1>10. ASSUME NEW i \in DOMAIN answers', answers'[i] = HEAD
       PROVE  Total = 0 /\ \A j \in DOMAIN answers' : j < i => answers'[j] = HEAD
  <2>1. \A j \in DOMAIN answers' : j < i => j \in DOMAIN answers /\ answers'[j] = answers[j]
    BY <1>1, <1>5, <1>10
  <2>2. CASE i \in DOMAIN answers /\ answers'[i] = answers[i]
    BY <1>2, <1>10, <2>1, <2>2 DEF HeadsFirst
  <2>3. CASE answers'[i] = m
    BY <1>9, <1>10, <2>1, <2>3
  <2> QED BY <1>5, <2>2, <2>3
<1>11. ASSUME NEW i \in DOMAIN requests', requests'[i] = HEAD
       PROVE  /\ Total = 0
              /\ \A j \in DOMAIN requests' : j < i => requests'[j] = HEAD
              /\ \A j \in DOMAIN answers' : answers'[j] = HEAD
  <2>1. i + 1 \in DOMAIN requests /\ requests[i + 1] = HEAD /\ 1 < i + 1
    BY <1>4, <1>11
  <2>2. /\ Total = 0
        /\ \A j \in DOMAIN requests : j < i + 1 => requests[j] = HEAD
        /\ \A j \in DOMAIN answers : answers[j] = HEAD
    BY <1>2, <2>1 DEF HeadsFirst
  <2>3. m = HEAD
    BY <1>3, <2>1, <2>2
  <2>4. \A j \in DOMAIN requests' : j < i => requests'[j] = HEAD
    BY <1>4, <2>2
  <2> QED BY <1>5, <2>2, <2>3, <2>4
<1> QED BY <1>2, <1>7, <1>8, <1>10, <1>11 DEF HeadsFirst
-----------------------------------------------------------------------------
(* Steps *)

LEMMA Initially == Init => IInv
<1> SUFFICES ASSUME Init PROVE IInv
  OBVIOUS
<1>1. Types
  <2>1. \A S : <<>> \in Seq(S)
    OBVIOUS
  <2>2. list \in [Kinds -> Seq(Fragments \cup {BLANK})] /\ counter \in [Kinds -> Nat]
    BY <2>1 DEF Init
  <2>3. lost \in 0..MaxLost
    BY DiscoveryAssumption DEF Init
  <2> QED BY <2>1, <2>2, <2>3 DEF Init, Types
<1>2. Filled
  BY DEF Init, Filled
<1>3. Total = 0
  BY DEF Init, Total, Kinds
<1>4. Prefix
  <2>1. \A k \in Kinds : Below(k, 0) = {}
    BY FragmentsCounted DEF Below
  <2>2. Total <= Len(Kind)
    BY <1>3, Numbers
  <2>3. Cardinality({}) = 0
    BY FS_EmptySet
  <2>4. \A k \in Kinds : counter[k] = 0
    BY DEF Init
  <2>5. \A k \in Kinds : counter[k] = Cardinality(Below(k, Total))
    BY <1>3, <2>1, <2>3, <2>4
  <2>6. \A k \in Kinds : \A i \in 1..counter[k] : FALSE
    BY <2>4
  <2> QED BY <2>2, <2>5, <2>6 DEF Prefix
<1>5. HeadsFirst /\ Increasing
  BY DEF Init, HeadsFirst, Increasing
<1> QED BY <1>1, <1>2, <1>4, <1>5 DEF IInv

LEMMA NextIsFragment ==
  ASSUME NEW h \in BOOLEAN, NEW c \in [Kinds -> Nat],
         c["variable"] + c["function"] + c["event"] <= Len(Kind)
  PROVE  NextFragment(h, c) \in Fragments \cup {HEAD, ALL, Len(Kind)}
<1> DEFINE n == c["variable"] + c["function"] + c["event"]
<1>1. c["variable"] \in Nat /\ c["function"] \in Nat /\ c["event"] \in Nat
  BY DEF Kinds
<1>2. n \in Nat
  BY <1>1
<1>3. NextFragment(h, c) = IF h THEN n ELSE HEAD
  BY DEF NextFragment
<1> HIDE DEF n
<1>4. n < Len(Kind) \/ n = Len(Kind)
  BY <1>2, Numbers DEF n
<1> QED BY <1>2, <1>3, <1>4, Numbers

\* The host asks, and keeps what it has.
LEMMA HostAsks ==
  ASSUME IInv, fragmented, UNCHANGED <<descVars, answers, lost>>,
         begun' \in BOOLEAN, timer' \in BOOLEAN, fired' \in BOOLEAN,
         requests' \in {requests, Append(requests, NextFragment(head, counter))}
  PROVE  IInv'
<1>1. Types /\ Prefix /\ HeadsFirst /\ Filled
  BY DEF IInv
<1>2. NextFragment(head, counter) \in Fragments \cup {HEAD, ALL, Len(Kind)}
  BY <1>1, NextIsFragment DEF Prefix, Types, Total
<1>3. Types'
  <2> DEFINE R == Fragments \cup {HEAD, ALL, Len(Kind)}
             m == NextFragment(head, counter)
  <2>1. requests' \in Seq(R)
    <3>1. requests \in Seq(R) /\ m \in R /\ (requests' = requests \/ requests' = Append(requests, m))
      BY <1>1, <1>2 DEF Types
    <3> HIDE DEF R, m
    <3> QED BY <3>1
  <2> QED BY <1>1, <2>1 DEF Types, descVars
<1>4. Filled' /\ Prefix' /\ Total' = Total /\ Total \in Nat
  BY <1>1, TotalNat DEF Filled, Prefix, Total, descVars
<1>5. HeadsFirst'
  <2>1. fragmented' /\ head' = head /\ counter' = counter
    BY DEF descVars
  <2>2. requests' = requests \/ requests' = Append(requests, NextFragment(head', counter'))
    BY <2>1
  <2>3. \A i \in DOMAIN requests : requests[i] = HEAD => Total' = 0
    BY <1>1, <1>4 DEF HeadsFirst
  <2>4. \A i \in DOMAIN answers' : answers'[i] = HEAD => Total' = 0
    BY <1>1, <1>4 DEF HeadsFirst
  <2>5. Total <= Total'
    BY <1>4
  <2> QED BY <1>3, <1>4, <2>1, <2>2, <2>3, <2>4, <2>5, HostKeepsHeadsFirst
<1>6. Increasing'
  BY DEF Increasing, descVars
<1> QED BY <1>3, <1>4, <1>5, <1>6 DEF IInv

LEMMA GetDescriptionStep ==
  ASSUME IInv, GetDescription PROVE IInv'
<1>1. Types /\ UNCHANGED <<descVars, fired, answers, lost>> /\ begun' = TRUE /\ ~begun
  BY DEF IInv, GetDescription
<1>2. requests \in Seq(Fragments \cup {HEAD, ALL, Len(Kind)})
  BY <1>1 DEF Types
<1>3. CASE fragmented
  <2>1. RequestNext(head, counter)
    BY <1>3 DEF GetDescription
  <2>2. requests' \in {requests, Append(requests, NextFragment(head, counter))} /\ timer' = TRUE
    BY <1>1, <1>2, <2>1, AskedNext DEF Types, RequestNext
  <2> QED BY <1>1, <1>3, <2>2, HostAsks DEF Types
<1>4. CASE ~fragmented
  <2>1. requests = <<>> /\ answers = <<>> /\ ~head /\ ~timer /\ ~fired
    BY <1>1, <1>4 DEF IInv, Increasing
  <2>2. requests' \in {<<>>, <<ALL>>} /\ timer' = timer
    BY <1>4, <2>1 DEF GetDescription, Sent
  <2>3. Types'
    <3>1. requests' \in Seq(Fragments \cup {HEAD, ALL, Len(Kind)})
      <4> DEFINE R == Fragments \cup {HEAD, ALL, Len(Kind)}
      <4>1. ALL \in R
        OBVIOUS
      <4> HIDE DEF R
      <4>2. <<>> \in Seq(R) /\ <<ALL>> \in Seq(R)
        BY <4>1
      <4>3. requests' \in Seq(R)
        BY <2>2, <4>2
      <4> QED BY <4>3 DEF R
    <3> QED BY <1>1, <2>2, <3>1 DEF Types, descVars
  <2>4. Filled' /\ Prefix' /\ HeadsFirst'
    BY <1>1, <1>4 DEF IInv, Filled, Prefix, HeadsFirst, Total, descVars
  <2>5. Increasing'
    BY <1>1, <1>4, <2>1, <2>2 DEF IInv, Increasing, descVars
  <2> QED BY <2>3, <2>4, <2>5 DEF IInv
<1> QED BY <1>3, <1>4

LEMMA TimerSteps ==
  ASSUME IInv, TimerExpires \/ ResendRequest PROVE IInv'
<1>1. Types /\ fragmented
  BY DEF IInv, Increasing, TimerExpires, ResendRequest
<1>2. requests \in Seq(Fragments \cup {HEAD, ALL, Len(Kind)})
  BY <1>1 DEF Types
<1>3. CASE TimerExpires
  BY <1>1, <1>3, HostAsks DEF TimerExpires, Types
<1>4. CASE ResendRequest
  <2>1. RequestNext(head, counter) /\ timer' = TRUE
    BY <1>4 DEF ResendRequest, Resent, RequestNext
  <2>2. requests' \in {requests, Append(requests, NextFragment(head, counter))}
    BY <1>1, <1>2, <2>1, AskedNext DEF Types
  <2> QED BY <1>1, <1>4, <2>1, <2>2, HostAsks DEF ResendRequest, Types
<1> QED BY <1>3, <1>4

LEMMA LoseRequestStep ==
  ASSUME IInv, LoseRequest PROVE IInv'
<1>1. Types /\ requests # <<>> /\ requests' = Tail(requests) /\ lost < MaxLost /\ lost' = lost + 1
      /\ UNCHANGED <<descVars, begun, timer, fired, answers>>
  BY DEF IInv, LoseRequest
<1>2. Types'
  <2>1. requests' \in Seq(Fragments \cup {HEAD, ALL, Len(Kind)})
    BY <1>1 DEF Types
  <2>2. lost' \in 0..MaxLost
    BY <1>1, DiscoveryAssumption DEF Types
  <2> QED BY <1>1, <2>1, <2>2 DEF Types, descVars
<1>3. Filled' /\ Prefix'
  BY <1>1 DEF IInv, Filled, Prefix, Total, descVars
<1>4. HeadsFirst'
  <2>1. CASE fragmented
    BY <1>1, <2>1, RobotKeepsHeadsFirst
  <2> QED BY <1>1, <2>1 DEF HeadsFirst, descVars
<1>5. Increasing'
  <2> SUFFICES ASSUME ~fragmented PROVE Increasing'
    BY <1>1 DEF Increasing, descVars
  <2>1. requests = <<ALL>> /\ begun
    BY <1>1 DEF IInv, Increasing
  <2>2. requests' = <<>>
    BY <1>1, <2>1
  <2> QED BY <1>1, <2>1, <2>2 DEF IInv, Increasing, descVars
<1> QED BY <1>2, <1>3, <1>4, <1>5 DEF IInv

LEMMA LoseAnswerStep ==
  ASSUME IInv, LoseAnswer PROVE IInv'
<1>1. Types /\ answers # <<>> /\ answers' = Tail(answers) /\ lost < MaxLost /\ lost' = lost + 1
      /\ UNCHANGED <<descVars, begun, timer, fired, requests>>
  BY DEF IInv, LoseAnswer
<1>2. Types'
  <2>1. answers' \in Seq(Fragments \cup {HEAD})
    BY <1>1 DEF Types
  <2>2. lost' \in 0..MaxLost
    BY <1>1, DiscoveryAssumption DEF Types
  <2> QED BY <1>1, <2>1, <2>2 DEF Types, descVars
<1>3. Filled' /\ Prefix' /\ Total' = Total
  BY <1>1 DEF IInv, Filled, Prefix, Total, descVars
<1>4. \A i \in DOMAIN answers' : i + 1 \in DOMAIN answers /\ answers'[i] = answers[i + 1] /\ i \in Nat
  BY <1>1 DEF Types
<1>5. HeadsFirst'
  <2> SUFFICES ASSUME fragmented PROVE HeadsFirst'
    BY <1>1 DEF HeadsFirst, descVars
  <2>1. \A i \in DOMAIN requests : requests[i] = HEAD => Total' = 0
    BY <1>3 DEF IInv, HeadsFirst
  <2>2. \A i \in DOMAIN answers' : answers'[i] = HEAD => Total' = 0
    BY <1>3, <1>4 DEF IInv, HeadsFirst
  <2>3. Total <= Total' /\ fragmented' /\ head' = head /\ requests' = requests
    BY <1>1, <1>3, TotalNat DEF descVars
  <2> QED BY <1>1, <1>2, <1>3, <2>1, <2>2, <2>3, HostKeepsHeadsFirst
<1>6. Increasing'
  <2> SUFFICES ASSUME ~fragmented PROVE Increasing'
    BY <1>1 DEF Increasing, descVars
  <2>1. Increasing /\ requests = <<>> /\ begun
    BY <1>1 DEF IInv, Increasing
  <2>2. \A i, j \in DOMAIN answers' : i < j => answers'[i] < answers'[j]
    BY <1>4, <2>1 DEF Increasing
  <2>3. \A i \in DOMAIN answers' : \A k \in Kinds : \A j \in 1..counter[k] : list[k][j] < answers'[i]
    BY <1>4, <2>1 DEF Increasing
  <2> QED BY <1>1, <1>4, <2>1, <2>2, <2>3 DEF Increasing, descVars
<1> QED BY <1>2, <1>3, <1>5, <1>6 DEF IInv
LEMMA RobotAnswersStep ==
  ASSUME IInv, RobotAnswers PROVE IInv'
<1> DEFINE m == Head(requests)
           R == Fragments \cup {HEAD, ALL, Len(Kind)}
           A == Fragments \cup {HEAD}
<1>1. Types /\ requests # <<>> /\ requests' = Tail(requests) /\ answers' = Sent(answers, Answer(m))
      /\ UNCHANGED <<descVars, begun, timer, fired, lost>>
  BY DEF IInv, RobotAnswers
<1>2. requests \in Seq(R) /\ answers \in Seq(A)
  BY <1>1 DEF Types
<1>3. m \in R /\ 1 \in DOMAIN requests /\ m = requests[1] /\ requests' \in Seq(R)
  BY <1>1, <1>2
<1>4. Filled' /\ Prefix' /\ Total' = Total /\ head' = head /\ fragmented' = fragmented
  BY <1>1 DEF IInv, Filled, Prefix, Total, descVars
<1>5. CASE fragmented
  <2>1. m = HEAD \/ m \in Nat
    BY <1>3, <1>5, TotalNat DEF IInv, HeadsFirst
  <2>2. m # ALL
    BY <2>1 DEF HEAD, ALL
  <2>3. \/ Answer(m) = <<m>> /\ m \in A
        \/ Answer(m) = <<>>
    BY <1>3, <2>2 DEF Answer
  <2>4. answers' = answers \/ (m \in A /\ answers' = Append(answers, m))
    <3>1. CASE Answer(m) = <<m>> /\ m \in A
      BY <1>1, <1>2, <3>1, SentOne
    <3>2. CASE Answer(m) = <<>>
      <4>1. answers \o <<>> = answers
        BY <1>2
      <4> QED BY <1>1, <3>2, <4>1 DEF Sent
    <3> QED BY <2>3, <3>1, <3>2
  <2>5. answers' \in Seq(A)
    <3> HIDE DEF A, m
    <3> QED BY <1>2, <2>4
  <2>6. Types'
    BY <1>1, <1>3, <2>5 DEF Types, descVars
  <2>7. HeadsFirst'
    BY <1>1, <1>5, <2>4, RobotKeepsHeadsFirst
  <2>8. Increasing'
    BY <1>4, <1>5 DEF Increasing
  <2> QED BY <1>4, <2>6, <2>7, <2>8 DEF IInv
<1>6. CASE ~fragmented
  <2> DEFINE q == [i \in 1..Len(Kind) |-> i - 1]
             s == <<HEAD>> \o q
  <2>1. requests = <<ALL>> /\ answers = <<>> /\ ~head /\ begun /\ ~timer /\ ~fired
    BY <1>1, <1>6 DEF IInv, Increasing
  <2>2. m = ALL /\ requests' = <<>>
    BY <1>1, <1>3, <2>1
  <2>3. q \in Seq(Fragments) /\ Len(q) = Len(Kind) /\ \A i \in 1..Len(Kind) : q[i] = i - 1
    BY Numbers DEF Fragments
  <2>4. HEAD \in A /\ \A i \in 1..Len(Kind) : q[i] \in A
    BY <2>3
  <2>5. /\ s \in Seq(A) /\ Len(s) = Len(Kind) + 1 /\ s[1] = HEAD
        /\ \A i \in 1..Len(s) : i > 1 => s[i] = q[i - 1] /\ i - 1 \in 1..Len(Kind)
    <3>1. q \in Seq(A)
      BY <2>3
    <3> HIDE DEF q, A
    <3> QED BY <2>3, <2>4, <3>1, Numbers
  <2>6. \A i \in 1..Len(s) : s[i] = i - 2
    BY <2>3, <2>5, Numbers DEF HEAD
  <2>7. Answer(m) = s
    <3>1. m = ALL /\ m # HEAD /\ m \notin Fragments
      BY <2>2, Numbers
    <3> HIDE DEF m
    <3> QED BY <3>1 DEF Answer
  <2> HIDE DEF q, s, m
  <2>8. answers' = <<>> \/ answers' = s
    <3>1. <<>> \o s = s
      BY <2>5
    <3> QED BY <1>1, <2>1, <2>7, <3>1 DEF Sent
  <2>9. Types'
    <3>1. answers' \in Seq(A)
      <4>1. <<>> \in Seq(A)
        OBVIOUS
      <4> HIDE DEF A
      <4> QED BY <2>5, <2>8, <4>1
    <3> QED BY <1>1, <1>3, <3>1 DEF Types, descVars
  <2>10. \A i, j \in DOMAIN answers' : i < j => answers'[i] < answers'[j]
    BY <2>5, <2>6, <2>8
  <2>11. \A k \in Kinds : counter'[k] = 0
    BY <1>1, <2>1 DEF IInv, Filled, Types, descVars
  <2>12. \A k \in Kinds : \A j \in 1..counter'[k] : FALSE
    BY <2>11
  <2>13. Increasing'
    BY <1>1, <1>4, <1>6, <2>1, <2>2, <2>10, <2>12 DEF Increasing
  <2>14. HeadsFirst'
    BY <1>4, <1>6 DEF HeadsFirst
  <2> QED BY <1>4, <2>9, <2>13, <2>14 DEF IInv
<1> QED BY <1>5, <1>6

\* A head only comes while nothing is stored.
LEMMA ReceiveHeadStep ==
  ASSUME IInv, ReceiveHead PROVE IInv'
<1> DEFINE A == Fragments \cup {HEAD}
<1>1. Types /\ answers # <<>> /\ Head(answers) = HEAD /\ answers' = Tail(answers) /\ head' = TRUE
      /\ list' = Announced /\ complete' = (complete \/ Ready(head', list', counter))
      /\ UNCHANGED <<fragmented, begun, counter, fired, lost>> /\ Proceed
  BY DEF IInv, ReceiveHead
<1>2. answers \in Seq(A) /\ 1 \in DOMAIN answers /\ answers[1] = HEAD /\ answers' \in Seq(A)
  BY <1>1 DEF Types
<1>3. \A i \in DOMAIN answers' : i + 1 \in DOMAIN answers /\ answers'[i] = answers[i + 1] /\ i \in Nat /\ 1 < i + 1
  BY <1>1, <1>2
<1>4. \A k \in Kinds : counter[k] = 0
  <2>1. CASE fragmented
    <3>1. Total = 0
      BY <1>2, <2>1 DEF IInv, HeadsFirst
    <3>2. counter["variable"] \in Nat /\ counter["function"] \in Nat /\ counter["event"] \in Nat
      BY <1>1 DEF Types, Kinds
    <3>3. counter["variable"] = 0 /\ counter["function"] = 0 /\ counter["event"] = 0
      BY <3>1, <3>2 DEF Total
    <3> QED BY <3>3 DEF Kinds
  <2>2. CASE ~fragmented
    <3>1. ~head
      BY <1>2, <2>2 DEF IInv, Increasing
    <3> QED BY <1>1, <3>1 DEF IInv, Filled, Types
  <2> QED BY <2>1, <2>2
<1>5. Total = 0 /\ Total' = 0
  BY <1>1, <1>4 DEF Total, Kinds
<1>6. \A k \in Kinds : \A i \in 1..counter'[k] : FALSE
  BY <1>1, <1>4
<1>7. \A k \in Kinds : list'[k] \in Seq(Fragments \cup {BLANK}) /\ Len(list'[k]) = Count(k)
         /\ \A i \in 1..Count(k) : list'[k][i] = BLANK
  <2> SUFFICES ASSUME NEW k \in Kinds
               PROVE  /\ list'[k] \in Seq(Fragments \cup {BLANK}) /\ Len(list'[k]) = Count(k)
                      /\ \A i \in 1..Count(k) : list'[k][i] = BLANK
    OBVIOUS
  <2>1. list'[k] = [i \in 1..Count(k) |-> BLANK] /\ Count(k) \in Nat
    BY <1>1, FragmentsCounted DEF Announced, Count
  <2> QED BY <2>1
<1>8. Filled'
  <2>1. \A k \in Kinds : Count(k) \in Nat
    BY FragmentsCounted
  <2>2. complete' => \A k \in Kinds : counter'[k] = Len(list'[k])
    <3>1. CASE complete
      <4>1. \A k \in Kinds : counter[k] = Count(k)
        BY <3>1 DEF IInv, Filled
      <4> QED BY <1>1, <1>7, <4>1
    <3>2. CASE Ready(head', list', counter)
      BY <1>1, <3>2 DEF Ready
    <3> QED BY <1>1, <3>1, <3>2
  <2>3. \A k \in Kinds : Len(list'[k]) = Count(k) /\ counter'[k] = 0 /\ counter'[k] <= Len(list'[k])
    BY <1>1, <1>4, <1>7, <2>1
  <2>4. \A k \in Kinds : \A i \in 1..Len(list'[k]) : ~ (i <= counter'[k]) /\ list'[k][i] = BLANK
    BY <1>7, <2>1, <2>3
  <2> QED BY <1>1, <2>2, <2>3, <2>4 DEF Filled
<1>9. Prefix'
  BY <1>1, <1>5, <1>6 DEF IInv, Prefix
<1>10. /\ requests' = requests \/ requests' = Append(requests, NextFragment(head', counter'))
       /\ timer' \in BOOLEAN
       /\ ~fragmented => requests' = requests /\ timer' = FALSE
  <2>1. CASE fragmented /\ ~Ready(head', list', counter')
    <3>1. RequestNext(head', counter') /\ timer' = TRUE
      BY <1>1, <2>1 DEF Proceed, RequestNext
    <3>2. requests' = Sent(requests, <<NextFragment(head', counter')>>)
      BY <3>1 DEF RequestNext
    <3>3. requests' \in {requests, Append(requests, NextFragment(head', counter'))}
      BY <1>1, <3>2, SentOne DEF Types
    <3> QED BY <2>1, <3>1, <3>3
  <2>2. CASE ~ (fragmented /\ ~Ready(head', list', counter'))
    BY <1>1, <2>2 DEF Proceed
  <2> QED BY <2>1, <2>2
<1>11. Types'
  <2>1. requests' \in Seq(Fragments \cup {HEAD, ALL, Len(Kind)})
    <3> DEFINE R == Fragments \cup {HEAD, ALL, Len(Kind)}
               m == NextFragment(head', counter')
    <3>1. m \in R
      <4>1. head' \in BOOLEAN /\ counter' \in [Kinds -> Nat]
        BY <1>1 DEF Types
      <4>2. counter'["variable"] + counter'["function"] + counter'["event"] <= Len(Kind)
        BY <1>5, Numbers DEF Total
      <4> QED BY <4>1, <4>2, NextIsFragment
    <3>2. requests \in Seq(R) /\ (requests' = requests \/ requests' = Append(requests, m))
      BY <1>1, <1>10 DEF Types
    <3> HIDE DEF R, m
    <3>3. requests' \in Seq(R)
      BY <3>1, <3>2
    <3> QED BY <3>3 DEF R
  <2>2. list' \in [Kinds -> Seq(Fragments \cup {BLANK})]
    <3>1. list' = [k \in Kinds |-> list'[k]]
      BY <1>1 DEF Announced
    <3> QED BY <1>7, <3>1
  <2>3. complete' \in BOOLEAN
    BY <1>1 DEF Types, Ready
  <2> QED BY <1>1, <1>2, <1>10, <2>1, <2>2, <2>3 DEF Types
<1>12. HeadsFirst'
  <2>1. CASE fragmented
    <3>1. fragmented' /\ (head => head') /\ Total <= Total'
      BY <1>1, <1>5, <2>1
    <3> QED BY <1>1, <1>5, <1>8, <1>10, <1>11, <2>1, <3>1, HostKeepsHeadsFirst
  <2> QED BY <1>1, <2>1 DEF HeadsFirst
<1>13. Increasing'
  <2> SUFFICES ASSUME ~fragmented PROVE Increasing'
    BY <1>1 DEF Increasing
  <2>1. Increasing /\ requests = <<>> /\ begun /\ ~fired
    BY <1>1 DEF IInv, Increasing
  <2>2. \A i, j \in DOMAIN answers' : i < j => answers'[i] < answers'[j]
    BY <1>3, <2>1 DEF Increasing
  <2>3. \A i \in DOMAIN answers' : answers'[i] # HEAD
    <3> SUFFICES ASSUME NEW i \in DOMAIN answers', answers'[i] = HEAD PROVE FALSE
      OBVIOUS
    <3>1. answers[1] < answers[i + 1]
      BY <1>2, <1>3, <2>1 DEF Increasing
    <3> QED BY <1>2, <1>3, <3>1 DEF HEAD
  <2> QED BY <1>1, <1>6, <1>10, <2>1, <2>2, <2>3 DEF Increasing
<1> QED BY <1>8, <1>9, <1>11, <1>12, <1>13 DEF IInv
\* A fragment stored when asked for one by one is the next one: an earlier one is found in its list.
LEMMA StoredIsNext ==
  ASSUME IInv, fragmented, NEW f \in Fragments, f <= Total,
         Stores(list[Kind[f + 1]], counter[Kind[f + 1]], f)
  PROVE  f = Total
<1> SUFFICES ASSUME f # Total PROVE FALSE
  OBVIOUS
<1> DEFINE k == Kind[f + 1]
<1>1. Types /\ Total \in Nat /\ Prefix /\ Filled
  BY TotalNat DEF IInv
<1>2. f \in Nat /\ k \in Kinds /\ f \in OfKind(k)
  BY Numbers DEF OfKind
<1>3. f < Total
  BY <1>1, <1>2
<1>4. Rank(f) <= counter[k] /\ Rank(f) \in 1..Count(k)
  BY <1>1, <1>2, <1>3, RankedBelow, Ranked DEF Prefix
<1>5. counter[k] \in Nat /\ counter[k] <= Len(list[k]) /\ list[k] \in Seq(Fragments \cup {BLANK})
  BY <1>1, <1>2 DEF Types, Filled
<1>6. Rank(f) \in 1..counter[k] /\ Rank(f) \in DOMAIN list[k]
  BY <1>4, <1>5
<1> DEFINE g == list[k][Rank(f)]
<1>7. g \in OfKind(k)
  BY <1>1, <1>2, <1>4, <1>5, <1>6 DEF Filled
<1>8. Rank(g) = Rank(f)
  BY <1>1, <1>2, <1>6 DEF Prefix
<1>9. g = f
  BY <1>2, <1>7, <1>8, Ranked
<1> QED BY <1>6, <1>9 DEF Stores

LEMMA ReceiveFragmentStep ==
  ASSUME IInv, ReceiveFragment PROVE IInv'
<1> DEFINE A == Fragments \cup {HEAD}
           f == Head(answers)
           k == Kind[f + 1]
           n == counter[k]
           stored == Stores(list[k], counter[k], f)
<1>1. Types /\ answers # <<>> /\ f # HEAD /\ answers' = Tail(answers)
      /\ complete' = (complete \/ Ready(head, list', counter'))
      /\ UNCHANGED <<fragmented, begun, head, fired, lost>> /\ Proceed
  BY DEF IInv, ReceiveFragment
<1>2. IF stored THEN list' = [list EXCEPT ![k][n + 1] = f] /\ counter' = [counter EXCEPT ![k] = n + 1]
      ELSE UNCHANGED <<list, counter>>
  BY DEF ReceiveFragment
<1>3. answers \in Seq(A) /\ 1 \in DOMAIN answers /\ answers[1] = f /\ answers' \in Seq(A)
  BY <1>1 DEF Types
<1>4. f \in Fragments
  BY <1>1, <1>3
<1>5. k \in Kinds /\ f \in Nat /\ f \in OfKind(k)
  BY <1>4, Numbers DEF OfKind
<1>6. \A i \in DOMAIN answers' : i + 1 \in DOMAIN answers /\ answers'[i] = answers[i + 1] /\ i \in Nat /\ 1 < i + 1
  BY <1>1, <1>3
<1>7. Total \in Nat
  BY <1>1, TotalNat
<1> HIDE DEF f, k
<1>8. \A j \in Kinds : counter[j] \in Nat /\ list[j] \in Seq(Fragments \cup {BLANK}) /\ counter[j] <= Len(list[j])
  BY <1>1 DEF IInv, Filled, Types
<1>9. ASSUME stored
      PROVE  /\ n + 1 \in 1..Len(list[k])
             /\ counter' \in [Kinds -> Nat] /\ list' \in [Kinds -> Seq(Fragments \cup {BLANK})]
             /\ counter'[k] = n + 1 /\ \A j \in Kinds : j # k => counter'[j] = counter[j] /\ list'[j] = list[j]
             /\ Len(list'[k]) = Len(list[k])
             /\ \A i \in 1..Len(list[k]) : list'[k][i] = IF i = n + 1 THEN f ELSE list[k][i]
  <2>1. n + 1 \in 1..Len(list[k])
    BY <1>5, <1>8, <1>9 DEF Stores
  <2>2. counter' \in [Kinds -> Nat] /\ counter'[k] = n + 1 /\ \A j \in Kinds : j # k => counter'[j] = counter[j]
    <3>1. n + 1 \in Nat /\ counter \in [Kinds -> Nat] /\ counter' = [counter EXCEPT ![k] = n + 1]
      BY <1>1, <1>2, <1>5, <1>8, <1>9 DEF Types
    <3> HIDE DEF n, stored
    <3> QED BY <1>5, <3>1
  <2> DEFINE l == [list[k] EXCEPT ![n + 1] = f]
  <2>3. list' = [list EXCEPT ![k] = l] /\ list \in [Kinds -> Seq(Fragments \cup {BLANK})]
    BY <1>1, <1>2, <1>9 DEF Types
  <2>4. /\ l \in Seq(Fragments \cup {BLANK}) /\ Len(l) = Len(list[k])
        /\ \A i \in 1..Len(list[k]) : l[i] = IF i = n + 1 THEN f ELSE list[k][i]
    BY <1>4, <1>5, <1>8, <2>1
  <2> HIDE DEF l
  <2>5. list' \in [Kinds -> Seq(Fragments \cup {BLANK})] /\ list'[k] = l /\ \A j \in Kinds : j # k => list'[j] = list[j]
    BY <1>5, <2>3, <2>4
  <2> QED BY <2>1, <2>2, <2>4, <2>5
<1>10. stored => ~complete /\ head
  <2> SUFFICES ASSUME stored PROVE ~complete /\ head
    OBVIOUS
  <2>1. n < Len(list[k])
    BY DEF Stores
  <2>2. ~complete
    BY <1>5, <1>8, <2>1 DEF IInv, Filled
  <2>3. head
    BY <1>5, <1>8, <2>1 DEF IInv, Filled
  <2> QED BY <2>2, <2>3
<1>11. Filled'
  <2>1. CASE ~stored
    <3>1. complete' => head' /\ \A j \in Kinds : counter'[j] = Len(list'[j])
      BY <1>1, <1>2, <2>1 DEF IInv, Filled, Ready
    <3> QED BY <1>1, <1>2, <2>1, <3>1 DEF IInv, Filled
  <2>2. CASE stored
    <3>1. ASSUME NEW j \in Kinds PROVE Len(list'[j]) = Len(list[j]) /\ counter'[j] <= Len(list'[j])
      <4>1. CASE j # k
        BY <1>8, <1>9, <2>2, <4>1
      <4>2. CASE j = k
        <5>1. n + 1 <= Len(list[k]) /\ counter'[k] = n + 1 /\ Len(list'[k]) = Len(list[k])
          BY <1>9, <2>2
        <5> QED BY <4>2, <5>1
      <4> QED BY <4>1, <4>2
    <3>2. \A j \in Kinds : Len(list'[j]) = IF head' THEN Count(j) ELSE 0
      BY <1>1, <3>1 DEF IInv, Filled
    <3>3. ASSUME NEW j \in Kinds, NEW i \in 1..Len(list'[j])
          PROVE  IF i <= counter'[j] THEN list'[j][i] \in OfKind(j) ELSE list'[j][i] = BLANK
      <4>1. IF i <= counter[j] THEN list[j][i] \in OfKind(j) ELSE list[j][i] = BLANK
        BY <3>1, <3>3 DEF IInv, Filled
      <4>2. CASE j # k
        BY <1>9, <2>2, <4>1, <4>2
      <4>3. CASE j = k
        <5>1. i \in 1..Len(list[k]) /\ counter'[k] = n + 1 /\ n \in Nat
          BY <1>5, <1>8, <1>9, <2>2, <3>1, <3>3, <4>3
        <5>2. list'[k][i] = IF i = n + 1 THEN f ELSE list[k][i]
          BY <1>9, <2>2, <5>1
        <5> QED BY <1>5, <4>1, <4>3, <5>1, <5>2
      <4> QED BY <4>2, <4>3
    <3>4. complete' => head' /\ \A j \in Kinds : counter'[j] = Len(list'[j])
      BY <1>1, <1>10, <2>2 DEF Ready
    <3> QED BY <3>1, <3>2, <3>3, <3>4 DEF Filled
  <2> QED BY <2>1, <2>2
<1>12. stored => Total' = Total + 1
  <2> SUFFICES ASSUME stored PROVE Total' = Total + 1
    OBVIOUS
  <2>1. counter["variable"] \in Nat /\ counter["function"] \in Nat /\ counter["event"] \in Nat
    BY <1>8, Numbers
  <2>2. counter'[k] = counter[k] + 1 /\ \A j \in Kinds : j # k => counter'[j] = counter[j]
    BY <1>9
  <2>3. k = "variable" \/ k = "function" \/ k = "event"
    BY <1>5 DEF Kinds
  <2> DEFINE a == counter["variable"]
             b == counter["function"]
             c == counter["event"]
             d == counter'["variable"]
             e == counter'["function"]
             g == counter'["event"]
  <2>4. Total = a + b + c /\ Total' = d + e + g /\ a \in Nat /\ b \in Nat /\ c \in Nat
    BY <2>1, Zenon DEF Total
  <2>5. \/ d = a + 1 /\ e = b /\ g = c
        \/ d = a /\ e = b + 1 /\ g = c
        \/ d = a /\ e = b /\ g = c + 1
    BY <2>2, <2>3 DEF Kinds
  <2> HIDE DEF a, b, c, d, e, g
  <2> QED BY <2>4, <2>5
<1>13. ~stored => Total' = Total
  BY <1>2 DEF Total
<1>14. fragmented => f <= Total /\ head
  BY <1>1, <1>3, <1>7 DEF IInv, HeadsFirst
<1>15. Prefix'
  <2> SUFFICES ASSUME fragmented PROVE Prefix'
    BY <1>1 DEF Prefix
  <2>1. CASE ~stored
    BY <1>2, <1>13, <2>1 DEF IInv, Prefix
  <2>2. CASE stored
    <3>1. f = Total
      BY <1>4, <1>14, <2>2, StoredIsNext DEF k
    <3>2. Total' <= Len(Kind)
      BY <1>4, <1>7, <1>12, <2>2, <3>1, Numbers
    <3>3. /\ Cardinality(Below(k, f + 1)) = Cardinality(Below(k, f)) + 1
          /\ Rank(f) = Cardinality(Below(k, f)) + 1
          /\ \A j \in Kinds : j # k => Below(j, f + 1) = Below(j, f)
      BY <1>4, OneMore DEF k
    <3>4. \A j \in Kinds : counter[j] = Cardinality(Below(j, f))
      BY <3>1 DEF IInv, Prefix
    <3>5. \A j \in Kinds : counter'[j] = Cardinality(Below(j, Total'))
      <4> SUFFICES ASSUME NEW j \in Kinds PROVE counter'[j] = Cardinality(Below(j, Total'))
        OBVIOUS
      <4>1. Total' = f + 1
        BY <1>12, <2>2, <3>1
      <4>2. CASE j = k
        <5>1. counter'[k] = counter[k] + 1 /\ counter[k] = Cardinality(Below(k, f))
          BY <1>5, <1>9, <2>2, <3>4
        <5> QED BY <3>3, <4>1, <4>2, <5>1
      <4>3. CASE j # k
        <5>1. counter'[j] = counter[j] /\ counter[j] = Cardinality(Below(j, f))
          BY <1>9, <2>2, <3>4, <4>3
        <5>2. Below(j, f + 1) = Below(j, f)
          BY <3>3, <4>3
        <5> QED BY <4>1, <5>1, <5>2
      <4> QED BY <4>2, <4>3
    <3>6. ASSUME NEW j \in Kinds, NEW i \in 1..counter'[j]
          PROVE  list'[j][i] < Total' /\ Rank(list'[j][i]) = i
      <4>1. i \in 1..counter[j] => list[j][i] < Total /\ Rank(list[j][i]) = i /\ list[j][i] \in Nat
        <5> SUFFICES ASSUME i \in 1..counter[j]
                     PROVE  list[j][i] < Total /\ Rank(list[j][i]) = i /\ list[j][i] \in Nat
          OBVIOUS
        <5>1. list[j][i] \in OfKind(j)
          BY <1>8 DEF IInv, Filled
        <5>2. list[j][i] \in Nat
          BY <5>1, Numbers DEF OfKind
        <5> QED BY <5>2 DEF IInv, Prefix
      <4>2. CASE j # k
        BY <1>7, <1>9, <1>12, <2>2, <3>6, <4>1, <4>2
      <4>3. CASE j = k /\ i # n + 1
        <5>1. i \in 1..counter[j] /\ i \in 1..Len(list[k])
          BY <1>5, <1>8, <1>9, <2>2, <3>6, <4>3
        <5>2. list'[j][i] = list[j][i]
          BY <1>9, <2>2, <4>3, <5>1
        <5> QED BY <1>7, <1>12, <2>2, <4>1, <5>1, <5>2
      <4>4. CASE j = k /\ i = n + 1
        <5>1. list'[j][i] = f
          BY <1>9, <2>2, <4>4
        <5> QED BY <1>5, <1>7, <1>12, <2>2, <3>1, <3>3, <3>4, <4>4, <5>1
      <4> QED BY <4>2, <4>3, <4>4
    <3> QED BY <3>2, <3>5, <3>6 DEF Prefix
  <2> QED BY <2>1, <2>2
<1>16. /\ requests' = requests \/ requests' = Append(requests, NextFragment(head', counter'))
       /\ timer' \in BOOLEAN
       /\ ~fragmented => requests' = requests /\ timer' = FALSE
  <2>1. CASE fragmented /\ ~Ready(head', list', counter')
    <3>1. RequestNext(head', counter') /\ timer' = TRUE
      BY <1>1, <2>1 DEF Proceed, RequestNext
    <3>2. requests' = Sent(requests, <<NextFragment(head', counter')>>)
      BY <3>1 DEF RequestNext
    <3>3. requests' \in {requests, Append(requests, NextFragment(head', counter'))}
      BY <1>1, <3>2, SentOne DEF Types
    <3> QED BY <2>1, <3>1, <3>3
  <2>2. CASE ~ (fragmented /\ ~Ready(head', list', counter'))
    BY <1>1, <2>2 DEF Proceed
  <2> QED BY <2>1, <2>2
<1>17. list' \in [Kinds -> Seq(Fragments \cup {BLANK})] /\ counter' \in [Kinds -> Nat]
  BY <1>1, <1>2, <1>9 DEF Types
<1>18. Types'
  <2>1. requests' \in Seq(Fragments \cup {HEAD, ALL, Len(Kind)})
    <3> DEFINE R == Fragments \cup {HEAD, ALL, Len(Kind)}
               m == NextFragment(head', counter')
    <3>1. requests \in Seq(R) /\ (requests' = requests \/ requests' = Append(requests, m))
      BY <1>1, <1>16 DEF Types
    <3>2. fragmented => m \in R
      <4> SUFFICES ASSUME fragmented PROVE m \in R
        OBVIOUS
      <4>1. head' \in BOOLEAN
        BY <1>1 DEF Types
      <4>2. counter'["variable"] + counter'["function"] + counter'["event"] <= Len(Kind)
        BY <1>1, <1>15 DEF Prefix, Total
      <4> QED BY <1>17, <4>1, <4>2, NextIsFragment
    <3> HIDE DEF R, m
    <3>3. requests' \in Seq(R)
      BY <1>16, <3>1, <3>2
    <3> QED BY <3>3 DEF R
  <2>2. complete' \in BOOLEAN
    BY <1>1 DEF Types, Ready
  <2> QED BY <1>1, <1>3, <1>16, <1>17, <2>1, <2>2 DEF Types
<1>19. HeadsFirst'
  <2> SUFFICES ASSUME fragmented PROVE HeadsFirst'
    BY <1>1 DEF HeadsFirst
  <2>1. \A i \in DOMAIN answers : answers[i] # HEAD
    <3> SUFFICES ASSUME NEW i \in DOMAIN answers, answers[i] = HEAD PROVE FALSE
      OBVIOUS
    <3>1. i = 1 \/ 1 < i
      BY <1>3
    <3> QED BY <1>1, <1>3, <3>1 DEF IInv, HeadsFirst
  <2>2. \A i \in DOMAIN requests : requests[i] # HEAD
    BY <1>3, <2>1 DEF IInv, HeadsFirst
  <2>3. \A i \in DOMAIN answers' : answers'[i] # HEAD
    BY <1>6, <2>1
  <2>4. fragmented' /\ (head => head') /\ Total <= Total'
    BY <1>1, <1>7, <1>12, <1>13
  <2> QED BY <1>1, <1>11, <1>16, <1>18, <2>2, <2>3, <2>4, HostKeepsHeadsFirst
<1>20. Increasing'
  <2> SUFFICES ASSUME ~fragmented PROVE Increasing'
    BY <1>1 DEF Increasing
  <2>1. Increasing /\ requests = <<>> /\ begun /\ ~fired
    BY <1>1 DEF IInv, Increasing
  <2>2. \A i, j \in DOMAIN answers' : i < j => answers'[i] < answers'[j]
    BY <1>6, <2>1 DEF Increasing
  <2>3. \A i \in DOMAIN answers' : f < answers'[i]
    BY <1>3, <1>6, <2>1 DEF Increasing
  <2>4. \A j \in Kinds : \A i \in 1..counter[j] : list[j][i] < f
    BY <1>3, <2>1 DEF Increasing
  <2>5. \A j \in Kinds : \A i \in 1..counter'[j] :
           \/ i \in 1..counter[j] /\ list'[j][i] = list[j][i]
           \/ stored /\ j = k /\ i = n + 1 /\ list'[j][i] = f
    <3> SUFFICES ASSUME NEW j \in Kinds, NEW i \in 1..counter'[j]
                 PROVE  \/ i \in 1..counter[j] /\ list'[j][i] = list[j][i]
                        \/ stored /\ j = k /\ i = n + 1 /\ list'[j][i] = f
      OBVIOUS
    <3>1. CASE ~stored
      BY <1>2, <3>1
    <3>2. CASE stored /\ j # k
      BY <1>9, <3>2
    <3>3. CASE stored /\ j = k
      <4>1. i \in 1..(n + 1) /\ i \in 1..Len(list[k]) /\ n \in Nat
        BY <1>5, <1>8, <1>9, <3>3
      <4>2. list'[k][i] = IF i = n + 1 THEN f ELSE list[k][i]
        BY <1>9, <3>3, <4>1
      <4> QED BY <3>3, <4>1, <4>2
    <3> QED BY <3>1, <3>2, <3>3
  <2> HIDE DEF stored, n
  <2>6. \A i \in DOMAIN answers' : \A j \in Kinds : \A p \in 1..counter'[j] : list'[j][p] < answers'[i]
    <3>1. \A i \in DOMAIN answers' : \A j \in Kinds : \A p \in 1..counter[j] : list[j][p] < answers'[i]
      BY <1>6, <2>1 DEF Increasing
    <3> QED BY <2>3, <2>5, <3>1
  <2>7. ASSUME NEW j \in Kinds, NEW p \in 1..counter'[j], NEW q \in 1..counter'[j], p < q
        PROVE  list'[j][p] < list'[j][q]
    <3>1. CASE p \in 1..counter[j] /\ q \in 1..counter[j] /\ list'[j][p] = list[j][p] /\ list'[j][q] = list[j][q]
      BY <2>1, <2>7, <3>1 DEF Increasing
    <3>2. CASE p \in 1..counter[j] /\ list'[j][p] = list[j][p] /\ list'[j][q] = f
      BY <2>4, <3>2
    <3>3. CASE j = k /\ p = n + 1
      BY <1>5, <1>8, <2>5, <2>7, <3>3 DEF n
    <3> QED BY <2>5, <3>1, <3>2, <3>3
  <2> QED BY <1>1, <1>16, <2>1, <2>2, <2>3, <2>6, <2>7, <1>5, <1>6, <1>3 DEF Increasing
<1> QED BY <1>11, <1>15, <1>18, <1>19, <1>20 DEF IInv
-----------------------------------------------------------------------------
LEMMA Inductive == IInv /\ [Next]_vars => IInv'
<1> SUFFICES ASSUME IInv, [Next]_vars PROVE IInv'
  OBVIOUS
<1>1. CASE UNCHANGED vars
  BY <1>1 DEF vars, descVars, IInv, Types, Filled, Prefix, HeadsFirst, Increasing, Total
<1>2. CASE Next
  BY <1>2, GetDescriptionStep, RobotAnswersStep, LoseRequestStep, LoseAnswerStep, ReceiveHeadStep,
     ReceiveFragmentStep, TimerSteps DEF Next
<1> QED BY <1>1, <1>2

\* Every reachable state of a description, its questions and its answers satisfies the
\* inductive invariant.
THEOREM Invariance == Spec => []IInv
BY Initially, Inductive, PTL DEF Spec

\* The counters of handle_description_messages never pass the ends of the lists, and no
\* question is asked beyond the one after the last fragment.
THEOREM TypeOKAlways == Spec => []TypeOK
<1>1. IInv => TypeOK
  <2> SUFFICES ASSUME IInv PROVE TypeOK
    OBVIOUS
  <2>1. Types /\ Filled
    BY DEF IInv
  <2>2. \A k \in Kinds : counter[k] \in 0..Len(list[k])
    BY <2>1 DEF Types, Filled
  <2>3. \A k \in Kinds : \A i \in DOMAIN list[k] : list[k][i] \in Fragments \cup {BLANK}
    BY <2>1 DEF Types
  <2>4. \A i \in DOMAIN requests : requests[i] \in Fragments \cup {HEAD, ALL, Len(Kind)}
    BY <2>1 DEF Types
  <2>5. \A i \in DOMAIN answers : answers[i] \in Fragments \cup {HEAD}
    BY <2>1 DEF Types
  <2> QED BY <2>1, <2>2, <2>3, <2>4, <2>5 DEF Types, TypeOK
<1> QED BY Invariance, <1>1, PTL

\* Where the fragments are asked for one by one, what safe_description_update stored is a
\* prefix of each list of the robot, however questions are repeated and answers lost or late.
THEOREM StoredInOrderAlways == Spec => []StoredInOrder
<1>1. IInv => StoredInOrder
  <2> SUFFICES ASSUME IInv, fragmented, NEW k \in Kinds, NEW i \in DOMAIN list[k]
               PROVE  list[k][i] = IF i <= counter[k] THEN Described(k)[i] ELSE BLANK
    BY DEF StoredInOrder
  <2>1. i \in 1..Len(list[k]) /\ counter[k] \in Nat
    BY DEF IInv, Types
  <2>2. CASE i <= counter[k]
    <3>1. list[k][i] \in OfKind(k) /\ Rank(list[k][i]) = i
      BY <2>1, <2>2 DEF IInv, Filled, Prefix
    <3> QED BY <2>2, <3>1, Ranked
  <2>3. CASE ~ (i <= counter[k])
    BY <2>1, <2>3 DEF IInv, Filled
  <2> QED BY <2>2, <2>3
<1> QED BY Invariance, <1>1, PTL

\* The description that on_description_received is called with is the robot's: every variable,
\* event and function at its place, from robots asked fragment by fragment and from those
\* asked at once, for every description and any number of lost, late or repeated messages.
THEOREM DescriptionIntactAlways == Spec => []DescriptionIntact
<1>1. IInv => DescriptionIntact
  <2> SUFFICES ASSUME IInv, complete, NEW k \in Kinds PROVE list[k] = Described(k)
    BY DEF DescriptionIntact
  <2> DEFINE s == list[k]
  <2>1. /\ s \in Seq(Fragments \cup {BLANK}) /\ Len(s) = Count(k) /\ counter[k] = Len(s)
        /\ Count(k) \in Nat
    BY FragmentsCounted DEF IInv, Types, Filled
  <2>2. \A i \in 1..Len(s) : s[i] \in OfKind(k)
    BY <2>1 DEF IInv, Filled
  <2>3. \A i \in 1..Len(s) : Rank(s[i]) = i
    <3>1. CASE fragmented
      BY <2>1, <3>1 DEF IInv, Prefix
    <3>2. CASE ~fragmented
      <4>1. \A i, j \in 1..Len(s) : i < j => s[i] < s[j]
        BY <2>1, <3>2 DEF IInv, Increasing
      <4> HIDE DEF s
      <4> QED BY <2>1, <2>2, <4>1, FullIsDescribed
    <3> QED BY <3>1, <3>2
  <2>4. \A i \in 1..Len(s) : s[i] = Described(k)[i]
    BY <2>2, <2>3, Ranked
  <2>5. Described(k) = [i \in 1..Count(k) |-> Described(k)[i]]
    BY DEF Described, Count
  <2>6. s = [i \in 1..Len(s) |-> s[i]]
    BY <2>1
  <2> HIDE DEF s
  <2>7. s = Described(k)
    BY <2>1, <2>4, <2>5, <2>6
  <2> QED BY <2>7 DEF s
<1> QED BY Invariance, <1>1, PTL
=============================================================================
