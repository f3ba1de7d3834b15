CONSTANTS
  Opening = {o1, o2}
  None = None
  Stranger = Stranger
  Blank = Blank
  Life = 5
  Refresh = 1
  Margin = 3
  Kept = 4
  Losses = 2
  Faults = FALSE
  Prompt = TRUE
SPECIFICATION Spec
INVARIANTS
  OpeningsKeepApart
  NeverRunsOut
SYMMETRY Interchangeable
