SPECIFICATION CollectionsSpec
CONSTANTS
  Nodes = {n1}
  Null = Null
  Items = {a, b}
  MaxCaches <- SomeCaches
  HashKeys = {k1}
  NoKey = NoKey
  Primes <- SomePrimes
  Hashes = {0, 2, 4}
  TreeKeys = {1, 2, 3, 4}
  Order = 3
  LikeWidth = 2
  MaxKeys = 10
PROPERTY AddRefusesExisting
CHECK_DEADLOCK FALSE
