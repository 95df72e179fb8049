SPECIFICATION Spec
CONSTANTS
  Procs = {q1, q2}
  adm = adm
  rec = rec
  sig = sig
  sig2 = sig2
  k1 = k1
  k2 = k2
  g1 = g1
  g2 = g2
  t1 = t1
  t2 = t2
  s1 = s1
  s2 = s2
  m1 = m1
  a1 = a1
  gen1 = gen1
  gen2 = gen2
  Edits <- MCEdits
  TomlPlans <- MCTomlPlans
  NixPlans <- MCNixPlans
  Faults = {"io", "kill"}
  NoProc = NoProc
  NoEdit = NoEdit
  NoId = NoId
INVARIANT ProjectionsAgree
PROPERTY CommitsAreWellFormed
PROPERTY EditsSerialized
PROPERTY EditsKeepAuthority
SYMMETRY MCSymmetry
