SPECIFICATION Spec
CONSTANTS
  Nothing = Nothing
  Domain = "chat"
  Facts <- MCFacts
  Hops = TRUE
  MaxEntries = 4
  MaxFailures = 0
PROPERTY AppendsExtend
