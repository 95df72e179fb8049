SPECIFICATION HSpec
CONSTANTS
  Procs = {q1, q2}
  pA = pA
  pB = pB
  fKey = fKey
  fKey2 = fKey2
  fTmpl = fTmpl
  uWeb = uWeb
  uDb = uDb
  lCompat = lCompat
  Plans <- MCPlans
  Files <- MCFiles
  Templates <- MCTemplates
  Tree <- MCTree
  Units <- MCUnits
  Actions <- MCActions
  LinkNames <- MCLinkNames
  Links <- MCLinks
  MaxGen = 2
  ExplicitGens = {1}
  Faults = {"stage", "link", "publish_sync", "mark", "switch", "unit", "clear", "kill"}
  NoProc = NoProc
  NoPlan = NoPlan
PROPERTY LiveTreeUntouched
PROPERTY ImplementsSecretView
PROPERTY SuccessMeansInstalled
PROPERTY AbortRestores
SYMMETRY MCSymmetry
