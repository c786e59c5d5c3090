SPECIFICATION Spec
CONSTANTS
  Task = {t1, t2}
  Artifact = {x}
  Actor = {user, role}
  Users = {user}
  Nothing = Nothing
  Targets <- WorkStates
  MaxTransitions = 4

INVARIANTS HistoryExplainsState ClashNeedsRevival
