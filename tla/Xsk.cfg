SPECIFICATION FairSpec
CONSTANTS
  RingSize = 2
  Wrap = 4
  RxChunks = 2
  ChunkCount = 4
  BatchSize = 2
  KickBatch = 1
PROPERTIES
  ImplementsQueues QueuesMove
