\* The file grows at any time, by any number of bytes.
SPECIFICATION FairSpec
CONSTANTS
  Threads = {t1, t2}
  NoThread = NoThread
  LineLen = 2
  FlushEvery = 2
  Pages <- SomePages
  MaxFrames = 2
INVARIANTS
  IndexSound
  AnswersExact
PROPERTY
  CatchesUp
