SPECIFICATION CollectionsSpec
CONSTANTS
  Nodes = {n1, n2, n3, n4}
  Null = Null
  Items = {a, b}
  MaxCaches <- SomeCaches
  HashKeys = {k1, k2, k3, k4}
  NoKey = NoKey
  Primes <- SomePrimes
  Hashes = {0, 2, 4}
  TreeKeys = {1, 2, 3, 4}
  Order = 3
  LikeWidth = 2
  MaxKeys = 10
INVARIANTS ListSound TableSound TreeSound
PROPERTIES ListIsDeque TableIsKeySet TreeIsKeyBag
CHECK_DEADLOCK FALSE
