SPECIFICATION FairSpec
CONSTANTS
  BytecodeSize = 34
  VariablesSize = 4
  StackSize = 3
  MaxBreakpoints = 1
  StepsLimit = 12
  Payload = 17
  Programs <- MCOne
  LocalEvents = {65534}
  UserEvents = {0}
  ArgValues = {0, 1}
  SourceAddr = 1
  BreakpointPcs = {29}
  Spans <- MCSpans
  NativePops <- MCNativePops
  NativeArgs <- MCNativeArgs
  NativeValues = {1}
INVARIANTS TypeOK NoFault PausedIsReported IdleIsSettled HalfLoadedNeverRuns CodeIntact
PROPERTIES WhenOnRisingEdge RunsEnd
