SPECIFICATION KernelSpec
CONSTANTS
  Word = 512
  Rows = {0, 1, 2, 3, 32}
  Columns = {0, 8, 16, 32}
  Spans <- MCSpans
  MaxSlices = 2
  Channels = 3
  Kernel = 4
  Places = {0, 1, 2, 3, 4, 5, 6}
  MaxCalls = 6
  Count = 5
  Top = 3
  Levels = {1, 2, 3}
  Floor = 0
INVARIANTS
  ViewsReadTheirElements
  OutputsSpareTheWeights
  OutputsSeeTheRecentInputs
  PicksAreRanked
