\* Signing and verification against an attacker who edits requests in flight.
CONSTANTS
  Verbs <- MCVerbs
  Lower <- MCLower
  PathChars <- MCPathChars
  Paths <- MCPaths
  Queries <- MCQueries
  Bodies <- MCBodies
  Sha256 <- MCSha256
  PlainNames <- MCPlainNames
  PlainValues <- MCPlainValues
  ClientRequests <- MCClientRequests
  SignLists <- MCSignLists
  AttackLists <- MCAttackLists
  RequiredHeaders <- MCRequiredHeaders
  MaxTamper = 2
  MaxSign = 2
  NoReq = NoReq
  Absent = Absent
SPECIFICATION Spec
INVARIANTS
  TypeOK
  Authenticity
  Completeness
