SPECIFICATION FairSpec
CONSTANTS
  a = a
  b = b
  c = c
  a1 = a1
  a2 = a2
  b1 = b1
  c1 = c1
  Element <- Elements
  Key <- Keys
  KeyOf <- KeyOfs
  HashOf <- HashOfs
  Rank <- Ranks
  Transform <- Transforms
  Thread = {t1}
  Size = 1
  Nodes = 1
  Null = Null
  Tombstone = Tombstone
  Nothing = Nothing
  TreeValue <- TreeValues
  Early <- Earlies
  RankOf <- TreeRanks
  Most = 5
  Word = 8
  Kind = {"priority_queue"}
CHECK_DEADLOCK FALSE
PROPERTY CallReturns
