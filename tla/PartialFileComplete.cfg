CONSTANTS
  N = 3
  Aligned = TRUE
  CrashInElimination = TRUE
  Offers <- AllOffers
  NoMetaFile = NoMetaFile
SPECIFICATION Spec
PROPERTIES CompleteMeansWhole
