CONSTANTS
  AppPages = 2
  BootPages = 1
  PageWords = 2
  Images <- MCImages
  Values = {"a", "c", "mA", "mB"}
  FF = "ff"
  Torn = "torn"
  BootCode = "boot"
  Window = 2
  MaxAddress = 12
SPECIFICATION FairSpec
INVARIANTS TypeOK RunsOnlyValid BootIntact StaysWhenAsked
PROPERTIES WindowEnds KeepsPromise
