SPECIFICATION FairJobAgentSpec
CONSTANTS
  JobIds = {j1, j2}
  NoFile = NoFile
  Torn = Torn
  MaxTurns = 2
  MaxToolCalls = 3
  ToolConcurrency = 2
CHECK_DEADLOCK FALSE
INVARIANTS JobAgentTypeOK OutcomeMatchesStatus DoneShowsOutcome TornHasWriter CompletedIsQuiet
PROPERTIES OutcomeStays JobSettles
