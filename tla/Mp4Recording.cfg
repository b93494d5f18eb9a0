\* Two films, cuts of power and removals, a failed write, stalls.
CONSTANTS
  FramesPerHour <- Hour
  ChunksPerHour <- Chunks
  GroupSize = 2
  FrameRoom = 2
  KeyRoom = 1
  ChunkRoom = 3
  GroupRoom = 1
  SkipLimit = 0
  Rate <- Rates
  RepairedRate <- RepairedRates
  MinParts <- PartsOfRate
  MaxFilms = 2
  MaxParts = 2
  MaxCuts = 2
  MaxErrors = 1
SPECIFICATION Spec
INVARIANTS
  TypeOK
  FilmsTrue
  SavedFramesRestored
  RecordsOfThisFilm
PROPERTIES
  SavedFilmsStay
  
CHECK_DEADLOCK FALSE
