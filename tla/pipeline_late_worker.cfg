\* A worker whose lock was reaped brings its answer after another worker's.
SPECIFICATION Spec
CONSTANTS
  c1 = c1  c2 = c2  w1 = w1  w2 = w2  w3 = w3  r1 = r1  r2 = r2
  guilty = guilty  innocent = innocent
  NoCase = NoCase  NoWorker = NoWorker  NoRuling = NoRuling
  Cases <- OneCase
  Workers <- TwoWorkers
  Appellants <- OneAppellant
  CodeOf <- DistinctCodes
  Rulings <- TwoRulings
  MAX_STAGE_ATTEMPTS = 3
  MaxStalls = 1
  MaxCrashes = 0
CHECK_DEADLOCK FALSE
INVARIANT LateWorkerSurvives
