\* Up to three of five releases in every order, all on one page.
CONSTANTS
  dev = dev
  v1 = v1
  v1beta = v1beta
  v1beta2 = v1beta2
  v1beta10 = v1beta10
  here = here
  there = there
  Tags = {dev, v1, v1beta, v1beta2, v1beta10}
  Text <- TheText
  Rank <- TheRank
  Programs = {here, there}
  Built = {dev, v1beta2}
  PageSize = 3
  MaxReleases = 3
  None = None
SPECIFICATION Spec
SYMMETRY Symmetries
ACTION_CONSTRAINTS
  EarlyReleases
  FirstUpgrade
INVARIANTS
  TypeOK
  BetaIsHighest
PROPERTIES
  ExactNeverDowngrades
