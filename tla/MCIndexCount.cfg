\* The file grows at any time.
SPECIFICATION Spec
CONSTANTS
  Threads = {t1}
  NoThread = NoThread
  LineLen = 3
  FlushEvery = 2
  Pages <- SomePages
  MaxFrames = 2
INVARIANT
  CountTrue
