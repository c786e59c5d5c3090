SPECIFICATION Spec
CONSTANTS
  evidence = evidence
  evaluations = evaluations
  ev = ev
  reg = reg
  reg2 = reg2
  con = con
  k1 = k1
  k2 = k2
  k3 = k3
  Process = {p1, p2}
  Event = {ev, reg, reg2, con}
  Ledgers <- TwoLedgers
  LedgerOf <- MCLedgerOf
  KeyOf <- MCKeyOf
  Evaluations = evaluations
  EvaluationOf <- OneEvaluation
  Consumed = {con}
  Calls <- MCCalls

PROPERTY HistoryOnlyGrows
