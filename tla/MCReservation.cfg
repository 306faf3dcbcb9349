SPECIFICATION TasksFairSpec
CONSTANTS
  Tasks = {"a", "b"}
  Locations = {"x", "y"}
  Modulus = 3
  Increments = 2
  Interruptions = 4
INVARIANTS EqHonest
PROPERTIES NoLostUpdate AllMade
CHECK_DEADLOCK FALSE
