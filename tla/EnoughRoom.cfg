SPECIFICATION Spec
CONSTANTS
  NumFrames = 10
  Byte = 32
  MinFree = 1
  PageArgs <- DefaultPages
  Addresses <- SomeAddresses
  Junk <- SomeJunk
  NULL = NULL
INVARIANT
  EnoughRoom
