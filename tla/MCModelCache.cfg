SPECIFICATION Spec
CONSTANTS
  Releases = {r1, r2}
  Models <- MCModels
  Threads = {t1, t2}
  Times = {1}
  MaxKills = 2
  MaxRefusals = 2
  Nobody = Nobody
SYMMETRY Symmetry
INVARIANTS
  OpensWholeModels
  FailsOnlyWhenRefused
