SPECIFICATION Spec
CONSTANTS
  a1 = a1
  a2 = a2
  plan = plan
  meta = meta
  old = old
  new1 = new1
  new2 = new2
  user = user
  Absent = Absent
  Unbound = Unbound
  Nobody = Nobody
  Applier = {a1}
  New <- OneApplier
  File = {plan, meta}
  Content = {old, new1}
  Batches <- BothFiles
  TreeScope = {plan}
  Careless = FALSE
  UserEdits <- NoEdits
  Faults = {"io", "tmp"}

PROPERTY FailedBatchIsUndone
