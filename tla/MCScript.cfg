CONSTANTS
  r1 = r1
  r2 = r2
  Nobody = Nobody
  Unsaid = Unsaid
  Project = "p"
  Requests <- MCRequests
  Mixes <- MCMixes
  Tables <- MCTables
  Procedures <- MCProcedures
  MaxInt <- MCMaxInt
  Program <- ParseTokens
  Limit <- MCMaxInt
  Source <- MCSource
  Spelling <- MCSpelling
  Quoted <- MCQuoted
  Ticked <- MCTicked
SPECIFICATION Spec
INVARIANTS TypeOK EndsAsMeant FailedLeavesNothing
PROPERTIES ScriptsEnd
