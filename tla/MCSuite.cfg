SPECIFICATION SuiteSpec
CONSTANTS
  Graphs = {email, lj}
  Plan <- MCPlan
  MaxKills = 2
INVARIANTS OneWorker MeasuredTwiceAtMost
PROPERTIES DoneIsComplete SuiteEnds
