CONSTANTS
  LastPage = 2
  PageWords = 2
  Bits <- MCBits
  Boot = FALSE
  ReadsMayFail = FALSE
  Jobs <- PatternJobs
  FirstContents <- PatternContents
SPECIFICATION FairSpec
INVARIANTS TypeOK RegistersKept
PROPERTIES ImplementsUpdate Terminates
