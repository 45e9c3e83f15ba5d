\* Re-signing a request that already carries an Authorization header.
CONSTANTS
  Verbs <- MCVerbs
  Lower <- MCLower
  PathChars <- MCPathChars
  Paths <- MCPaths
  Queries <- MCQueries
  Bodies <- MCBodies
  Sha256 <- MCSha256
  PlainNames <- MCPlainNames
  PlainValues <- MCPlainValues
  ClientRequests <- MCClientRequestsResigned
  SignLists <- MCSignListsWithAuth
  AttackLists <- MCAttackLists
  RequiredHeaders <- MCRequiredHeaders
  MaxTamper = 2
  MaxSign = 2
  NoReq = NoReq
  Absent = Absent
SPECIFICATION Spec
INVARIANTS
  Completeness
