\* Two matchers, one entry, both schemas: the slices are treated alike.
SPECIFICATION LiveSpec
CONSTANTS
  Matchers = {m1, m2}
  CEs = {ce1}
  SEs = {}
  FirstMayFail = TRUE
  Schemas = 2
INVARIANTS ActiveSideComplete LastMatcherProtected
PROPERTIES PurchaserProceeds
