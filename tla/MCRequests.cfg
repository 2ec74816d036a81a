SPECIFICATION QSpec
CONSTANTS
  Entries <- MCEntries
  Schemas <- MCSchemas
  NoSchema = NoSchema
  Sent <- MCSent
  NoRequest = NoRequest
  MaxTries = 2
INVARIANTS
  InspectedIsConverted
  WrittenIsValid
  VerdictIsRight
  PageRequestsFit
CHECK_DEADLOCK FALSE
