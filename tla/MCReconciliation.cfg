CONSTANTS
  Year = 2026
  TreatChristmasEveAsHoliday = FALSE
  SettlementGrace = 120
  AmountToleranceCents = 1
  AmountToleranceBasisPoints = 1
  DateToleranceBusinessDays = 2
  AutoResolveDateWithinBusinessDays = 1
  CriticalAmountDeltaCents = 1
  MaxGreedyPairs = 20
  None = None
  w1 = w1
  w2 = w2
  Workers = {w1, w2}
  Operators = {o1}
  Actions = {"WRITE_OFF", "CREATE_LEDGER_ADJUSTMENT", "CANCEL_LOCAL_RECORD", "ESCALATE_TO_PROVIDER"}
  FirstDay = 44
  LastDay = 44
  WindowStart <- FourHoursBack
  WindowEnd = 0
  Worlds <- MCWorlds
SYMMETRY WorkerSymmetry
SPECIFICATION Spec
INVARIANTS EveryItemAccounted OpenedOnce
PROPERTY RunsRespectWriteOff
CHECK_DEADLOCK FALSE
