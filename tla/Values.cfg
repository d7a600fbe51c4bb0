SPECIFICATION OneSpec
CONSTANTS
  Null = Null
  Junk = Junk
  Items = {a, b}
  Maps = {m1, m2}
  Keys = {k1, k2}
  Values = {v1, v2}
  Given <- GivenTexts
  MostCharacters = 2
  Capacities = {0, 1, 2}
  MostItems = 3
  MostEntries = 3
INVARIANTS TextSound NumbersRight VectorSound
PROPERTIES  VectorIsSequence MapIsKeyStacks
CHECK_DEADLOCK FALSE
