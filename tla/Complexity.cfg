CONSTANTS
  Names = {n1, n2}
  Metrics = {cyclomatic, cognitive}
  Ceiling <- MCCeiling
  MaxValue = 2
  MaxFunctions = 2
SYMMETRY MCSymmetry
SPECIFICATION Spec
INVARIANTS TypeOK NoOffenderHidden PassMeansRecorded
