CONSTANTS
  LastPage = 1
  PageWords = 1
  Bits <- MCBits
  Boot = TRUE
  ReadsMayFail = FALSE
  Jobs <- AllJobs
  FirstContents <- AllContents
SPECIFICATION Spec
PROPERTIES MatchingPagesUntouched
