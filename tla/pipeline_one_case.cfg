\* One case, stalls and crashes, two appeal requests.
SPECIFICATION Spec
CONSTANTS
  c1 = c1  c2 = c2  w1 = w1  w2 = w2  w3 = w3  r1 = r1  r2 = r2
  guilty = guilty  innocent = innocent
  NoCase = NoCase  NoWorker = NoWorker  NoRuling = NoRuling
  Cases <- OneCase
  Workers <- TwoWorkers
  Appellants <- TwoAppellants
  CodeOf <- DistinctCodes
  Rulings <- TwoRulings
  MAX_STAGE_ATTEMPTS = 3
  MaxStalls = 2
  MaxCrashes = 1
SYMMETRY Symmetric
\* All workers may be dead.
CHECK_DEADLOCK FALSE
INVARIANTS
  TypeOK
  LockAgreement
  FileMatchesStage
  EndingIsRight
  OverturnedWhenChanged
  OneAppealPerCase
  AttemptsBudget
PROPERTIES
  LateAnswerChangesNothing
  RecordIsFinal
