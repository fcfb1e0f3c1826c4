SPECIFICATION Spec
CONSTANTS
  NumFrames = 10
  Byte = 32
  MinFree = 1
  PageArgs <- SomePages
  Addresses <- SomeAddresses
  Junk <- SomeJunk
  NULL = NULL
INVARIANTS
  OneToOne
  TranslationExact
  LoadFits
