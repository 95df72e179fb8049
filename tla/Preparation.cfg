SPECIFICATION Spec
CONSTANTS
  q1 = q1
  q2 = q2
  Procs = {q1, q2}
  t1 = t1
  t2 = t2
  s1 = s1
  s2 = s2
  ka = ka
  kb = kb
  kx = kx
  Targets = {t1, t2}
  Secrets = {s1, s2}
  Versions = {"plain", "edited", "guarded"}
  Deployment <- MCDeployment
  Sources <- MCSources
  AdminKey = ka
  OtherKeys = {kb}
  Generations = {2}
  Expiries = {1000, 2}
  Never = 1000
  Scenes <- MCScenes
  Tool = "now"
  ToolSkew = 1
  SpecSkew = 1
  AdminLead = 1
  NoGeneration = NoGeneration
  NoRecord = NoRecord
INVARIANT ActivatedIsApproved
PROPERTY AllOrNothing
PROPERTY GcKeepsSelectable
