\* Every method of KeyPair_OpenSSL, every OpenSSL call failing or not.
CONSTANTS
  MaxQueue = 2
  MaxPush = 2
  NameSizes <- MCNameSizes
SPECIFICATION Spec
INVARIANTS
  TypeOK
  CleanCallReleasesAll
