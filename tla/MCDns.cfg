\* Two calls of ResolveHost over one shared cache.
SPECIFICATION DnsFairSpec
CONSTANTS
  Calls = {c1, c2}
  Keys = {blocked, other}
  blocked = blocked
  literal = literal
  Literals = {literal}
  Servers <- MCServers
  CommandLines <- MCCommandLines
  Answers = {"one4", "one6", "eight6", "doh6", "sys4", "sys6"}
  From <- MCFrom
  Family <- MCFamily
  Conforming <- MCConforming
  PerTry = 1
  Budget = 2
  posTTL = 2
  negTTL = 1
  maxSize = 1
  MaxTime = 3
  None = None
INVARIANTS BypassAsConfigured FamilyRespected WithinBudget
PROPERTIES ImplementsResolver CancelFreesWaiter
