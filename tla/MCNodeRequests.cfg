SPECIFICATION FairSpec
CONSTANTS
  A = A
  B = B
  Programs <- MCPrograms
  StopProgram = Halt
  NoProgram = Empty
  HasMotors = TRUE
  Parts <- MCParts
  Lines = {1, 2}
  PcOf <- MCPcOf
  MaxBreakpoints = 2
  RobotsFound <- MCRobotsFound
  MaxRequests = 3
  MaxSteps = 1
  MaxFaults = 1
  MaxBacklog = 0
INVARIANTS TypeOK AnsweredOnce BelievedIsSet RunsWholeProgram StateKnown
PROPERTY AllAnswered
