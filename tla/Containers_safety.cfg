SPECIFICATION AnySpec
CONSTANTS
  a = a
  b = b
  c = c
  a1 = a1
  a2 = a2
  b1 = b1
  c1 = c1
  Element <- Elements
  Key <- Keys
  KeyOf <- KeyOfs
  HashOf <- HashOfs
  Rank <- Ranks
  Transform <- Transforms
  Thread = {t1}
  Size = 4
  Nodes = 3
  Null = Null
  Tombstone = Tombstone
  Nothing = Nothing
  TreeValue <- TreeValues
  Early <- Earlies
  RankOf <- TreeRanks
  Most = 5
  Word = 16
  Kind = {"hash_table", "priority_queue", "queue", "double_queue", "stack", "cache", "dict", "array", "set",
          "binary_tree", "avl_tree", "red_black_tree"}
CHECK_DEADLOCK FALSE
INVARIANTS
  TypeOK KeysFound HeapOrder Linked Sound HasRoom SetLaws RoundTrip TreesSound
PROPERTIES
  MapImplements SequenceImplements PriorityImplements LruImplements ArrayImplements 
