CONSTANTS
  Opening = {o1}
  None = None
  Stranger = Stranger
  Blank = Blank
  Life = 2
  Refresh = 1
  Margin = 1
  Kept = 0
  Losses = 1
  Faults = TRUE
  Prompt = FALSE
SPECIFICATION FairSpec
INVARIANTS
  Inductive
  TakenBack
PROPERTIES
  LoanEndsWithClaude
