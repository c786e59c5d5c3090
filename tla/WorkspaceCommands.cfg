SPECIFICATION Spec
CONSTANTS
  Absent = Absent
  Nobody = Nobody
  Process = {p1, p2}
  Tree = {s1, s2}
  Time = {t1, t2}
  Role = {r1}
  MaxHistory = 2
  MaxSteps = 6

INVARIANTS TypeOK RegistryTruth AcceptedRoleIsRecorded
PROPERTIES ApprovedIsNeverRetired DerivationIsSerial ReconcileSettles
           RoleChangesAreReported PhasesRefined
SYMMETRY Alike
CHECK_DEADLOCK FALSE
