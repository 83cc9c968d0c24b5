----------------------------- MODULE MCNodeLock -----------------------------
(***************************************************************************)
(* Two node objects and two sessions.  In MCNodeLock.cfg the objects are a *)
(* robot and a simulated node; in MCNodeLockReplaced.cfg they stand, one   *)
(* after the other or at once, for the same robot.                         *)
(***************************************************************************)
EXTENDS NodeLock, TLC

CONSTANTS n1, n2, robot, a1, a2

MCUuid == [n \in Nodes |-> robot]

MCApps == Permutations({a1, a2})

\* Sound only where neither node is simulated.
MCAppsAndNodes == Permutations({a1, a2}) \cup Permutations({n1, n2})

\* What clients were told is only recorded: no step depends on it.
MCDriving == <<nodeVars, robotVars, open, locked, box>>
=============================================================================
