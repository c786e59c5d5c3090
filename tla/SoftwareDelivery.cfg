SPECIFICATION Spec
CONSTANTS
  v1 = v1
  v2 = v2
  draft = draft
  a1 = a1
  a2 = a2
  c1 = c1
  c2 = c2
  w1 = w1
  w2 = w2
  e = e
  rows = rows
  None = None
  Unresolved = Unresolved
  Process = {p1, p2}
  Plan = {v1, v2, draft}
  Declared = {v1, v2}
  PlanApproval = {a1, a2}
  PlanOf <- VersionApproved
  Standing = {a1, a2}
  EvidenceOf <- OneEvidence
  Evidence = {e}
  Contract = {c1, c2}
  ContractOf <- VersionContract
  Row = {rows}
  RowsOf <- SameRows
  Work = {w1, w2}
  ContractFor <- WorkContract
  Appended = {e, w1, w2}

INVARIANTS ApprovedIsDelivered DeliveredIsApproved
PROPERTIES ApprovedUntilReconciled SubmissionsSatisfyDoctor ReconcileSettles
SYMMETRY Interchangeable
