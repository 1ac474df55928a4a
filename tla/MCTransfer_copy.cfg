SPECIFICATION FairSpec
CONSTANTS
  Chunk = {a, b}
  Damaged = Damaged
  NoFile = NoFile
  NoChunk = NoChunk
  MaxChunks = 3
INVARIANTS
  TypeOK
  InStep
PROPERTIES
  ImplementsCopy
  BothEnd
CHECK_DEADLOCK FALSE
