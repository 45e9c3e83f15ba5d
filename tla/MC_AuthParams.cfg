\* Every Authorization parameter string of at most 6 characters.
CONSTANTS
  Alphabet <- MCAlphabet
  MaxLen = 6
SPECIFICATION Spec
CHECK_DEADLOCK FALSE
INVARIANTS
  ParsedAsModelled
