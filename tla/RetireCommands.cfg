SPECIFICATION Spec
CONSTANTS
  profile = profile
  plan = plan
  roles = roles
  old = old
  user = user
  Absent = Absent
  Nobody = Nobody
  Retirer = {r1, r2}
  File = {profile, plan, roles}
  Content = {old, user}
  Generated = {profile, plan}
  Batches <- FirstReconcile
  Tree = {t1, t2}
  UserEdits <- OneEdit
  Faults = {"io", "kill"}

PROPERTIES
  OnlyRacedEditsAreDeleted FailedRetireRestores OnlyLateFilesAreOrphaned
SYMMETRY RetirersAlike
CHECK_DEADLOCK FALSE
