SPECIFICATION Spec
CONSTANTS
  v1 = v1
  v2 = v2
  draft = draft
  a1 = a1
  a2 = a2
  b = b
  x = x
  y = y
  f1 = f1
  f2 = f2
  c = c
  e1 = e1
  e2 = e2
  w1 = w1
  w2 = w2
  u1 = u1
  u2 = u2
  r1 = r1
  r2 = r2
  None = None
  Process = {p1, p2}
  Plan = {v1, v2, draft}
  Declared = {v1, v2}
  PlanApproval = {a1, a2}
  PlanOf <- VersionApproved
  Standing = {a1, a2}
  EvidenceOf <- PlanEvidence
  Brief = {b}
  BriefOf <- OneBrief
  Variant = {x, y}
  VariantsOf <- VersionVariants
  Selected <- VersionSelects
  Finding = {f1, f2}
  FindingOf <- VersionFinding
  Passed = {f1, f2}
  Check = {c}
  ChecksOf <- OneCheck
  Evidence = {e1, e2}
  Supports <- EvidenceSupports
  Brought = {{e1}}
  Approval = {w1, w2, u1, u2}
  BriefFor <- ApprovalBrief
  ReviewFor <- ApprovalReview
  Release = {r1, r2}
  ReleaseFor <- ReleaseApproval

INVARIANTS RecordsAgree ApprovedBriefIsValid
PROPERTIES ApprovalIsFinal ReconcileSettles HarmlessReconcile ReleasableUntilReconciled RecordRefined
SYMMETRY Interchangeable
