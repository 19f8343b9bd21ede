SPECIFICATION Spec
CONSTANTS
  promo = promo
  news = news
  offer = offer
  buy = buy
  now = now
  Messages <- MCMessages
  Tokens <- MCTokens
  Has <- MCHas
  Presets <- MCPresets
  Asked <- MCAsked
  Jobs = {a, b}
  MayFail = {"read", "delete"}
  MaxCopies = 1
  MaxDamaged = 0
SYMMETRY MCSymmetry
INVARIANT ReadyWithSamples
