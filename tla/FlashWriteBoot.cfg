CONSTANTS
  LastPage = 1
  PageWords = 1
  Bits <- MCBits
  Boot = TRUE
  ReadsMayFail = TRUE
  Jobs <- AllJobs
  FirstContents <- AllContents
SPECIFICATION Spec
INVARIANTS PagesElsewhereKept RangeWritten ReturnsOverlay
PROPERTIES WearMinimal
