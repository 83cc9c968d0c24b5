---------------------------- MODULE ExclusiveUse ----------------------------
(***************************************************************************)
(* What the device manager promises of locks, whatever objects, ids,       *)
(* timers and posted calls are behind it: a robot that is present is       *)
(* driven by at most one session, which took it when nobody drove it, and  *)
(* which keeps it no longer than the robot and the session are there.      *)
(* NodeLock implements this specification.                                 *)
(***************************************************************************)
CONSTANTS Apps, Robots

VARIABLES
  present,  \* robots known by their persistent id
  open,     \* sessions
  drives    \* pairs of a session and a robot it may drive

vars == <<present, open, drives>>

\* A robot tells its persistent id for the first time: nobody drives it yet.
Appear(r) ==
  /\ r \notin present
  /\ present' = present \cup {r}
  /\ UNCHANGED <<open, drives>>

Vanish(r) ==
  /\ present' = present \ {r}
  /\ drives' = {d \in drives : d[2] # r}
  /\ UNCHANGED open

Open(a) ==
  /\ open' = open \cup {a}
  /\ UNCHANGED <<present, drives>>

Close(a) ==
  /\ open' = open \ {a}
  /\ drives' = {d \in drives : d[1] # a}
  /\ UNCHANGED present

Take(a, r) ==
  /\ a \in open /\ r \in present
  /\ ~\E d \in drives : d[2] = r
  /\ drives' = drives \cup {<<a, r>>}
  /\ UNCHANGED <<present, open>>

\* The session gives the robot back, or loses it: the robot comes back on another connection.
Lose(a, r) ==
  /\ drives' = drives \ {<<a, r>>}
  /\ UNCHANGED <<present, open>>

Init == present = {} /\ open = {} /\ drives = {}

Next ==
  \/ \E r \in Robots : Appear(r) \/ Vanish(r)
  \/ \E a \in Apps : Open(a) \/ Close(a)
  \/ \E a \in Apps, r \in Robots : Take(a, r) \/ Lose(a, r)

Spec == Init /\ [][Next]_vars
=============================================================================
