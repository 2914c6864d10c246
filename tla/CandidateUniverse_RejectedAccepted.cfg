SPECIFICATION UniverseSpec
CONSTANTS
  ao = ao
  ooo = ooo
  plant = plant
  bare = bare
  i1 = i1
  p1 = p1
  p2 = p2
  record = record
  q1 = q1
  q2 = q2
  None = None
  Spellings <- MCNames
  Bare <- MCBare
  Within <- MCWithin
  NamedType <- MCNamedType
  Ids = {i1}
  Pages <- MCPages
  Records = {record}
  LegalNames <- MCLegalNames
  SiteNames <- MCSiteNames
  Rules = {q1, q2}
  Required = {q1, q2}
  ProviderAnswers <- MCAnswers
  SmokeLimit = 2
  MaxTasks = 4
CHECK_DEADLOCK FALSE
INVARIANT RejectedIsNotAccepted
