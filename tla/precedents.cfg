\* Three cases look each other's verdicts up while they are judged and appealed.
SPECIFICATION SpecInCourt
CONSTANTS
  old = old  new = new  other = other  r1 = r1  r2 = r2  py = py  js = js
  guilty = guilty  innocent = innocent
  NoRuling = NoRuling
  Cases <- ThreeCases
  Rulings <- TwoRulings
  Rules <- TwoRules
  Languages <- TwoLanguages
  LanguageOf <- Language
  CreatedAt <- Age
  ChargesOf <- File
  MAX_PRECEDENTS_PER_CHARGE = 2
  MAX_PRECEDENTS_PER_CASE = 3
  Workers = 2
\* Every case may have ended.
CHECK_DEADLOCK FALSE
INVARIANTS
  BudgetKept
  NothingBetterLeftOut
  OverturnedLately
  PrecedentsAgree
