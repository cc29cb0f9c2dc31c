CONSTANTS
  MongoScrapes = {s1, s2}
  Health = Health
  Nil = Nil
  Handles = {h1, h2, h3, h4}
  MaxOutages = 1
  Collectors <- Order
SPECIFICATION MongoSpec
INVARIANTS
  UpIsTrue
CHECK_DEADLOCK FALSE
