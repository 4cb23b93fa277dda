SPECIFICATION Spec
CONSTANTS
  RequestLines = {"rl"}
  MaxAny = 5
  MaxHeaders = 2
  MaxBody = 3
  Inputs <- MCInputs
INVARIANTS
  TypeOK
  ParsedAsWhole
