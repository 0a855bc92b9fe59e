\* Three turns with Gemini, each calling one function.
CONSTANTS
  Backend = {"gemini"}
  Answer <- MCCalling
  Ask <- MCPlain
  Wide = {"w"}
  MaxText = 3
  MaxCalls = 2
  Instances = {"json"}
  MaxTurns = 3
  MaxAttempts = 3
  BaseBackoff = 1
  MaxBackoff = 4
  Asked = {0, 3, 9}
SPECIFICATION Spec
INVARIANT ToolResultsAlwaysNamed
CHECK_DEADLOCK FALSE
