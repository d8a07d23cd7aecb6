SPECIFICATION Spec
CONSTANTS
  p = p
  q = q
  Processes = {p, q}
  a = a
  b = b
  Datasets = {a, b}
  Seeds = {1, 2}
  MinShort = 2
  MinOracle = 1
  Budget = 2
  Arms = {1, 2}
  Exports <- MCExports
  BetaPriors <- MCBetaPriors
  Concentrations = {1}
  None = None
  Starts <- MCStarts
SYMMETRY Symmetric
INVARIANTS PairsAgree EstimatesAreSound PredictionsFollowBayes
CHECK_DEADLOCK FALSE
