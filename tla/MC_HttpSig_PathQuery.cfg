\* Paths that may hold a "?": is the request target still bound by the signature?
CONSTANTS
  Verbs <- MCVerbs
  Lower <- MCLower
  PathChars <- MCPathChars
  Paths <- MCPathsWithQueryMark
  Queries <- MCQueries
  Bodies <- MCBodies
  Sha256 <- MCSha256
  PlainNames <- MCPlainNames
  PlainValues <- MCPlainValues
  ClientRequests <- MCClientRequests
  SignLists <- MCSignLists
  AttackLists <- MCAttackLists
  RequiredHeaders <- MCRequiredHeaders
  MaxTamper = 2
  MaxSign = 2
  NoReq = NoReq
  Absent = Absent
SPECIFICATION Spec
INVARIANTS
  Authenticity
