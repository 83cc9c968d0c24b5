--------------------------- MODULE MCNodeRequests ---------------------------
(* Two programs, the first of two messages, whose lines are at different addresses. *)
EXTENDS NodeRequests

CONSTANTS A, B

MCPrograms == {A, B}

MCParts == [p \in AllPrograms |-> IF p = A THEN 2 ELSE 1]

MCPcOf ==
  [p \in AllPrograms |->
     CASE p = A           -> <<5, 6>>
       [] p = B           -> <<6, NoPc>>
       [] p = StopProgram -> <<NoPc, 5>>
       [] OTHER           -> <<NoPc, NoPc>>]

\* The robot was stopped with room for one more breakpoint.
MCRobotsFound == {[mode |-> "Stopped", bps |-> <<5>>]}
=============================================================================
