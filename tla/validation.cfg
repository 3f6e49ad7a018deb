\* The trial ends: its last phase has no step.
SPECIFICATION Spec
CONSTANTS
  style = style
  danger = danger
  retired = retired
  Rules <- CatalogRules
  Default <- DefaultSeverity
  Typical <- TypicalEffort
  TotalLines = 2
  MAX_CHARGES = 2
  RawCharges <- Accusations
  RawPleas <- Replies
  RawVerdicts <- Decisions
  RawSentences <- Orders
  MaxItems <- Lengths
  Unanswered = Unanswered
CHECK_DEADLOCK FALSE
INVARIANTS
  ChargesAreSound
  DefenseSpeaks
  JudgmentIsComplete
  SentencesFit
PROPERTIES
  GravestKept
