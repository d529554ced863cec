SPECIFICATION Spec
CONSTANTS
  a = a
  b = b
  short = short
  x = x
  y = y
  None = None
  Ids = {a, b}
  ShortIds = {short}
  Dicts = {x, y}
  Bundles <- SomeBundles
  Frames <- SomeFrames
  MaxDictionaries = 3
  MaxDictionaryBytes = 4
  MaxDictsPerBundle = 2
INVARIANTS
  WithinLimits
  AsksOnce
  StoreInv
PROPERTIES
  DecodeLoadsOnlyNamed
  ImplementsDictionaryMap
