SPECIFICATION Spec
CONSTANTS
  BytecodeSize = 24
  VariablesSize = 4
  StackSize = 3
  MaxBreakpoints = 1
  StepsLimit = 8
  Payload = 12
  Programs <- MCLarge
  LocalEvents = {65534}
  UserEvents = {0}
  ArgValues = {0, 1}
  SourceAddr = 1
  BreakpointPcs = {}
  Spans <- MCSpans
  NativePops <- MCNativePops
  NativeArgs <- MCNativeArgs
  NativeValues = {1}
INVARIANT CodeIntact
