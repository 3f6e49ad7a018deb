\* A page with two requests under way at once.
SPECIFICATION FairSpec
CONSTANTS
  c = c  s1 = s1  s2 = s2  guilty = guilty
  Id = c
  NoRuling = NoRuling  NoDetail = NoDetail  NoAnswer = NoAnswer
  Lost = Lost  Unauthorized = Unauthorized  Refused = Refused
  Slots <- TwoSlots
  Rulings <- OneRuling
\* The page may be left and the case ended.
CHECK_DEADLOCK FALSE
INVARIANTS
  TypeOK
  SentenceHasJudgment
  TimersAreKept
  QuietPageIsRight
PROPERTY EndIsShown
