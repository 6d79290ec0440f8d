\* The auto channel, with requests that may fail for any reason.
CONSTANTS
  dev = dev
  v1 = v1
  v1beta = v1beta
  v1beta2 = v1beta2
  v1beta10 = v1beta10
  here = here
  there = there
  Tags = {dev, v1, v1beta, v1beta2, v1beta10}
  Text <- TheText
  Rank <- TheRank
  Programs = {here}
  Built = {dev, v1beta2}
  PageSize = 3
  MaxReleases = 3
  None = None
SPECIFICATION Spec
PROPERTIES
  AutoPrefersStable
