\* Two turns with each dialect.
CONSTANTS
  Backend = {"openai", "anthropic", "gemini", "code_assist", "ollama", "chatgpt"}
  Answer <- MCAnswer
  Ask <- MCAsk
  Wide = {"w"}
  MaxText = 3
  MaxCalls = 2
  Instances = {"json"}
  MaxTurns = 2
  MaxAttempts = 3
  BaseBackoff = 1
  MaxBackoff = 4
  Asked = {0, 9}
SPECIFICATION Spec
INVARIANTS TypeOK StreamedIsWhole CutIsPrefix ShownIsTheAnswer JudgedBeforeShown AccountedOnce ToolResultsNamed
PROPERTIES CallEnds
CHECK_DEADLOCK FALSE
