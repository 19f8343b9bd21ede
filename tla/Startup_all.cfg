SPECIFICATION Spec
CONSTANTS
  promo = promo
  news = news
  free = free
  bonus = bonus
  Samples <- MCSamples
  Phrases <- MCPhrases
  Tables <- MCTables
  Deliveries <- MCDeliveries
  Bad = Bad
  Versions = {1, 2}
  MaxBackups = 1
  Jobs = {a, b}
  MaxInputs = 3
SYMMETRY MCSymmetry
INVARIANTS TypeOK UpgradeCanBeUndone PhrasesInEffect
PROPERTY ImportsAreExact
