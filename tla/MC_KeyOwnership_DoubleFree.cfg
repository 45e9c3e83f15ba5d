\* A moved PublicKey_OpenSSL and its source both free the key.
CONSTANTS
  o1 = o1
  o2 = o2
  o3 = o3
  Objects <- MCObjects
  MaxKeys = 3
SYMMETRY MCSymmetry
SPECIFICATION Spec
\* every object is destroyed at the end of its scope, and the program ends
CHECK_DEADLOCK FALSE
INVARIANTS
  FreedAtMostOnce
