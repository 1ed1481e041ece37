CONSTANTS
  N = 4
  Aligned = FALSE
  CrashInElimination = FALSE
  Offers <- SomeOffers
  NoMetaFile = NoMetaFile
SPECIFICATION Spec
INVARIANTS TypeOK RowsLead DataMatchesFunctional DoneIffAllKnown DecodedWhenDone
  SentIsCombination
PROPERTIES PutChunkReturns ImplementsKnowledge
