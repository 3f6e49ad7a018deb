\* A page whose polls overlap may stop polling before the end.
SPECIFICATION Spec
CONSTANTS
  c = c  s1 = s1  s2 = s2  guilty = guilty
  Id = c
  NoRuling = NoRuling  NoDetail = NoDetail  NoAnswer = NoAnswer
  Lost = Lost  Unauthorized = Unauthorized  Refused = Refused
  Slots <- TwoSlots
  Rulings <- OneRuling
CHECK_DEADLOCK FALSE
INVARIANT PollsUntilTheEnd
