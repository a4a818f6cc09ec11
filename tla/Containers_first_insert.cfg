SPECIFICATION AnySpec
CONSTANTS
  a = a
  b = b
  c = c
  a1 = a1
  a2 = a2
  b1 = b1
  c1 = c1
  Element <- Elements
  Key <- Keys
  KeyOf <- KeyOfs
  HashOf <- HashOfs
  Rank <- Ranks
  Transform <- Transforms
  Thread = {t1}
  Size = 4
  Nodes = 3
  Null = Null
  Tombstone = Tombstone
  Nothing = Nothing
  TreeValue <- TreeValues
  Early <- Earlies
  RankOf <- TreeRanks
  Most = 5
  Word = 16
  Kind = {"red_black_tree"}
CHECK_DEADLOCK FALSE
PROPERTY InsertReturns
