\* Three submissions of two users, pasted and linked, two at a time, at the limits.
SPECIFICATION Spec
CONSTANTS
  q1 = q1  q2 = q2  q3 = q3  u1 = u1  u2 = u2  k1 = k1  k2 = k2  guilty = guilty
  NoCase = NoCase  NoAsk = NoAsk  NoRuling = NoRuling
  Requests <- ThreeRequests
  Users <- TwoUsers
  Codes <- TwoCodes
  Rulings <- OneRuling
  DAILY_CASE_LIMIT = 1
  FETCH_RATE_LIMIT = 1
  Asks <- MixedAsks
  MaxConcurrent = 2
SYMMETRY Symmetric
\* Every request may be answered and every case ended.
CHECK_DEADLOCK FALSE
INVARIANTS
  TypeOK
  AnswersAreTrue
  RetrialsFollow
  LimitBounds
