\* An appeal of a sentenced case while its retrial is open.
SPECIFICATION Spec
CONSTANTS
  c1 = c1  c2 = c2  w1 = w1  w2 = w2  w3 = w3  r1 = r1  r2 = r2
  guilty = guilty  innocent = innocent
  NoCase = NoCase  NoWorker = NoWorker  NoRuling = NoRuling
  Cases <- TwoCases
  Workers <- TwoWorkers
  Appellants <- OneAppellant
  CodeOf <- SameCode
  Rulings <- TwoRulings
  MAX_STAGE_ATTEMPTS = 1
  MaxStalls = 0
  MaxCrashes = 0
INVARIANT AppealIsAnswered
