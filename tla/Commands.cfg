SPECIFICATION FairSpec
CONSTANTS
  q1 = q1
  q2 = q2
  Procs = {q1, q2}
  Paths <- MCPaths
  Generators = {"key", "token", "ssh", "hash", "hex", "absent"}
  Plans <- MCPlans
  Scenes <- MCScenes
  LegacyPromptState <- MCLegacyPromptState
  Never = Never
  NoProc = NoProc
  NoFile = NoFile
  NoAnswer = NoAnswer
  NoCommand = NoCommand
  NoValidation = NoValidation
INVARIANT OutputsFromOneRun
INVARIANT DependenciesFirst
INVARIANT PromptsWereUsed
INVARIANT DelegatedCreateIsBound
INVARIANT RekeyedIsCurrent
INVARIANT MigratedIsWhole
PROPERTY EveryCommandReturns
CHECK_DEADLOCK FALSE
