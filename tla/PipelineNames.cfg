SPECIFICATION Spec
CONSTANTS
  Executions = {e1, e2}
  Beside = {"run_backfill", "run_day", "batch_fetch"}
  MaxAttempts = 1
  Commits = 5
  MaxTrouble = 0
  e1 = e1  e2 = e2
CHECK_DEADLOCK FALSE
PROPERTY RefreshedTableIsLatest
