SPECIFICATION Spec
CONSTANTS
  q1 = q1
  q2 = q2
  Procs = {q1, q2}
  Paths <- MCPaths
  Generators = {"key", "token", "ssh", "hash", "hex", "absent"}
  Plans <- MCPlans
  Scenes <- ReplayScenes
  LegacyPromptState <- MCLegacyPromptState
  Never = Never
  NoProc = NoProc
  NoFile = NoFile
  NoAnswer = NoAnswer
  NoCommand = NoCommand
  NoValidation = NoValidation
CHECK_DEADLOCK FALSE
INVARIANT CapabilitiesAreOneUse
