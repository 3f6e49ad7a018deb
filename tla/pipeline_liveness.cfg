\* One case, three workers two of which may die, no stalls, one appeal.
SPECIFICATION FairSpec
CONSTANTS
  c1 = c1  c2 = c2  w1 = w1  w2 = w2  w3 = w3  r1 = r1  r2 = r2
  guilty = guilty  innocent = innocent
  NoCase = NoCase  NoWorker = NoWorker  NoRuling = NoRuling
  Cases <- OneCase
  Workers <- ThreeWorkers
  Appellants <- OneAppellant
  CodeOf <- DistinctCodes
  Rulings <- TwoRulings
  MAX_STAGE_ATTEMPTS = 2
  MaxStalls = 0
  MaxCrashes = 2
PROPERTIES
  EveryTrialEnds
  DeadLocksAreReaped
  ImplementsFairLifecycle
