----------------------------- MODULE Discovery -----------------------------
(***************************************************************************)
(* How the Thymio Device Manager learns what a robot can do: it asks for   *)
(* the head of the description, which announces how many variables, events *)
(* and functions there are, then for one fragment after the other          *)
(* (aseba_node.cpp), and the virtual machine answers (vm-buffer.c).  The   *)
(* wireless key may drop messages; a timer repeats the last question,      *)
(* whether its answer was lost or is merely late.  Neither direction       *)
(* reorders messages.                                                      *)
(***************************************************************************)
EXTENDS Integers, Sequences, FiniteSets

Kinds == {"variable", "event", "function"}

CONSTANTS
  Kind,         \* the kind of each fragment, in the order the robot sends them
  MaxLost,      \* bound on the messages lost
  MaxInFlight   \* bound on the messages on their way in each direction

ASSUME DiscoveryAssumption ==
  /\ Kind \in Seq(Kinds)
  /\ MaxLost \in Nat /\ MaxInFlight \in Nat \ {0}

\* Fragments are numbered from 0, as the robot counts them; what stands for the head of
\* the description, for all of it, and for an entry not filled yet are no fragments.
Fragments == 0..(Len(Kind) - 1)
HEAD == -1
ALL == -2
BLANK == -3

\* The fragments of a kind, which the head counts.
OfKind(k) == {f \in Fragments : Kind[f + 1] = k}

VARIABLES
  fragmented, \* m_protocol_version >= 8: fragments are asked for one by one
  begun,      \* get_description was called
  head,       \* m_description has a name and a protocol version
  list,       \* namedVariables, localEvents and nativeFunctions of m_description
  counter,    \* m_description_message_counter
  timer,      \* m_resend_timer is armed
  fired,      \* the handler of an expired timer is queued
  complete,   \* on_description_received was called
  requests,   \* GetNodeDescription and GetNodeDescriptionFragment on their way
  answers,    \* the robot's messages on their way
  lost        \* number of messages lost

descVars == <<fragmented, head, list, counter, complete>>
vars == <<descVars, begun, timer, fired, requests, answers, lost>>

\* A message that finds the channel full is lost.
Sent(channel, messages) ==
  IF Len(channel) + Len(messages) <= MaxInFlight THEN channel \o messages ELSE channel

-----------------------------------------------------------------------------
(* The robot *)

\* AsebaSendDescriptionFragment
Answer(f) ==
  CASE f = HEAD -> <<HEAD>>
    [] f = ALL -> <<HEAD>> \o [i \in 1..Len(Kind) |-> i - 1]
    [] f \in Fragments -> <<f>>
    [] OTHER -> <<>>

RobotAnswers ==
  /\ requests # <<>>
  /\ requests' = Tail(requests)
  /\ answers' = Sent(answers, Answer(Head(requests)))
  /\ UNCHANGED <<descVars, begun, timer, fired, lost>>

LoseRequest ==
  /\ requests # <<>> /\ lost < MaxLost
  /\ requests' = Tail(requests)
  /\ lost' = lost + 1
  /\ UNCHANGED <<descVars, begun, timer, fired, answers>>

LoseAnswer ==
  /\ answers # <<>> /\ lost < MaxLost
  /\ answers' = Tail(answers)
  /\ lost' = lost + 1
  /\ UNCHANGED <<descVars, begun, timer, fired, requests>>

-----------------------------------------------------------------------------
(* The host *)

\* The lists a head makes: one blank entry for each fragment announced.
Announced == [k \in Kinds |-> [i \in 1..Cardinality(OfKind(k)) |-> BLANK]]

\* Mutant: a fragment received twice is stored twice.
StoresTwice(l, c, f) == c < Len(l)

\* Mutant: the room left is not looked at.
StoresWithoutRoom(l, c, f) == \A i \in DOMAIN l : l[i] # f

\* safe_description_update stores a fragment if there is room and it is not there yet.
Stores(l, c, f) == c < Len(l) /\ \A i \in DOMAIN l : l[i] # f

\* Mutant: the functions are not waited for.
ReadyWithoutFunctions(h, l, c) == h /\ \A k \in Kinds \ {"function"} : c[k] = Len(l[k])

Ready(h, l, c) == h /\ \A k \in Kinds : c[k] = Len(l[k])

NextFragment(h, c) == IF h THEN c["variable"] + c["function"] + c["event"] ELSE HEAD

\* request_next_description_fragment
RequestNext(h, c) ==
  /\ requests' = Sent(requests, <<NextFragment(h, c)>>)
  /\ timer' = TRUE

GetDescription ==
  /\ ~begun
  /\ begun' = TRUE
  /\ IF fragmented THEN RequestNext(head, counter)
     ELSE requests' = Sent(requests, <<ALL>>) /\ UNCHANGED timer
  /\ UNCHANGED <<descVars, fired, answers, lost>>

\* handle_description_messages, after the message was applied.  Cancelling the timer does
\* not recall a handler that is queued.  Once the description is complete the timer is
\* request_device_info's.
Proceed ==
  IF fragmented /\ ~Ready(head', list', counter') THEN RequestNext(head', counter')
  ELSE timer' = FALSE /\ UNCHANGED requests

\* A head replaces the lists, and leaves the counters: it had better come first.
ReceiveHead ==
  /\ answers # <<>> /\ Head(answers) = HEAD
  /\ answers' = Tail(answers)
  /\ head' = TRUE
  /\ list' = Announced
  /\ complete' = (complete \/ Ready(head', list', counter))
  /\ UNCHANGED <<fragmented, begun, counter, fired, lost>>
  /\ Proceed

ReceiveFragment ==
  /\ answers # <<>> /\ Head(answers) # HEAD
  /\ answers' = Tail(answers)
  /\ LET f == Head(answers)
         k == Kind[f + 1]
     IN  IF Stores(list[k], counter[k], f)
         THEN /\ list' = [list EXCEPT ![k][counter[k] + 1] = f]
              /\ counter' = [counter EXCEPT ![k] = @ + 1]
         ELSE UNCHANGED <<list, counter>>
  /\ complete' = (complete \/ Ready(head, list', counter'))
  /\ UNCHANGED <<fragmented, begun, head, fired, lost>>
  /\ Proceed

TimerExpires ==
  /\ timer /\ ~fired
  /\ timer' = FALSE
  /\ fired' = TRUE
  /\ UNCHANGED <<descVars, begun, requests, answers, lost>>

\* Mutant: the handler does not ask again.
ResentNot(h, c) == UNCHANGED <<requests, timer>>

Resent(h, c) == RequestNext(h, c)

ResendRequest ==
  /\ fired
  /\ fired' = FALSE
  /\ Resent(head, counter)
  /\ UNCHANGED <<descVars, begun, answers, lost>>

-----------------------------------------------------------------------------
Init ==
  /\ fragmented \in BOOLEAN
  /\ begun = FALSE /\ head = FALSE /\ complete = FALSE /\ timer = FALSE /\ fired = FALSE
  /\ list = [k \in Kinds |-> <<>>]
  /\ counter = [k \in Kinds |-> 0]
  /\ requests = <<>> /\ answers = <<>> /\ lost = 0

Next ==
  \/ GetDescription
  \/ RobotAnswers \/ LoseRequest \/ LoseAnswer
  \/ ReceiveHead \/ ReceiveFragment
  \/ TimerExpires \/ ResendRequest

Spec == Init /\ [][Next]_vars

\* The robot answers what it receives, what is on its way arrives unless it is lost, a
\* timer expires, and what is queued is run.
FairSpec ==
  /\ Spec
  /\ WF_vars(GetDescription) /\ WF_vars(RobotAnswers)
  /\ WF_vars(ReceiveHead \/ ReceiveFragment)
  /\ WF_vars(TimerExpires) /\ WF_vars(ResendRequest)

-----------------------------------------------------------------------------
(* Properties *)

TypeOK ==
  /\ {fragmented, begun, head, timer, fired, complete} \subseteq BOOLEAN
  /\ \A k \in Kinds : \A i \in DOMAIN list[k] : list[k][i] \in Fragments \cup {BLANK}
  /\ \A k \in Kinds : counter[k] \in 0..Len(list[k])
  /\ \A i \in DOMAIN requests : requests[i] \in Fragments \cup {HEAD, ALL, Len(Kind)}
  /\ \A i \in DOMAIN answers : answers[i] \in Fragments \cup {HEAD}
  /\ lost \in 0..MaxLost

\* The place of a fragment among those of its kind, in the order the robot sends them.
Rank(f) == Cardinality({g \in OfKind(Kind[f + 1]) : g <= f})

\* The fragments of a kind, in the order the robot sends them.
Described(k) == [i \in 1..Cardinality(OfKind(k)) |-> CHOOSE f \in OfKind(k) : Rank(f) = i]

\* "retrigger a description fragment message in case it's dropped by the wireless key"
\* (aseba_node.cpp): however often questions are repeated and answers lost, late or
\* received twice, the description that on_description_received turns into the map of the
\* robot's memory has every fragment at its place.
DescriptionIntact == complete => \A k \in Kinds : list[k] = Described(k)

\* Where fragments are asked for one by one, what is stored is at any time a prefix of
\* what the robot has: nothing is skipped, shifted or stored twice on the way.
StoredInOrder ==
  fragmented => \A k \in Kinds : \A i \in DOMAIN list[k] :
     list[k][i] = IF i <= counter[k] THEN Described(k)[i] ELSE BLANK

\* Losses delay the description, they do not prevent it: the timer is armed whenever
\* nothing else would bring the next fragment.  An older robot is asked only once.
Completes == fragmented => <>complete
=============================================================================
