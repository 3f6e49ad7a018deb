\* One case read and ticked off by two requests at a time while it is tried and appealed.
SPECIFICATION Spec
CONSTANTS
  c1 = c1  q1 = q1  q2 = q2  t1 = t1  guilty = guilty
  NoRuling = NoRuling  NoRow = NoRow  NoRevision = NoRevision  NoSentence = NoSentence
  Cases <- OneCase
  Requests <- TwoRequests
  Rulings <- OneRuling
  Tasks <- OneTask
  Orders <- OrderedTwice
SYMMETRY Symmetric
INVARIANTS
  DetailIsCoherent
  ListIsCoherent
  ToggleIsCounted
  BoxesAgree
