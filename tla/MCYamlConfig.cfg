CONSTANTS
  a = a
  b = b
  north = north
  south = south
  t1 = t1
  t2 = t2
  i1 = i1
  net = net
  port = port
  NoKey = NoKey
  Empty = Empty
  Bad = Bad
  Long = Long
  Unparsed = Unparsed
  Unknown = Unknown
  Limit <- MCLimit
  Vocabularies <- MCVocabularies
SPECIFICATION YamlSpec
CONSTRAINT MCBound
INVARIANTS
  YamlTypeOK
  ParsedAsMeant
  LoadedIsUsable
PROPERTY OnlyNewestChanges
CHECK_DEADLOCK FALSE
