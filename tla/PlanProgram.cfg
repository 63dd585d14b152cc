SPECIFICATION ProgramSpec
CONSTANTS
  Baseline <- MCBaseline
  Lines <- MCLines
  MaxLines = 2
INVARIANTS
  AcceptedIsBuilt
  RefusalWasAnnounced
