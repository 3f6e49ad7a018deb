\* Two cases of one user's same code: a trial and a retrial, appeals of both.
SPECIFICATION Spec
CONSTANTS
  c1 = c1  c2 = c2  w1 = w1  w2 = w2  w3 = w3  r1 = r1  r2 = r2
  guilty = guilty  innocent = innocent
  NoCase = NoCase  NoWorker = NoWorker  NoRuling = NoRuling
  Cases <- TwoCases
  Workers <- TwoWorkers
  Appellants <- TwoAppellants
  CodeOf <- SameCode
  Rulings <- TwoRulings
  MAX_STAGE_ATTEMPTS = 1
  MaxStalls = 1
  MaxCrashes = 0
SYMMETRY Symmetric
\* The workers may all be dead.
CHECK_DEADLOCK FALSE
INVARIANTS
  OneActivePerCode
PROPERTIES
  ImplementsLifecycle
