CONSTANTS
  N = 3
  Aligned = FALSE
  CrashInElimination = TRUE
  Offers <- AllOffers
  NoMetaFile = NoMetaFile
SPECIFICATION Spec
PROPERTIES LoadedRowsAreOnDisk
