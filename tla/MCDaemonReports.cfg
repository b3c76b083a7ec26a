SPECIFICATION Spec
CONSTANTS
  j1 = j1
  j2 = j2
  Jobs = {j1, j2}
  Handlers = {h1, h2}
  Reports <- MCReports
  MaxTime = 3
SYMMETRY Symmetry
INVARIANTS
  HeadIsNewest
  LatestResultWins
  OneReceiptPerReport
PROPERTIES
  ImplementsLedger
