SPECIFICATION MCSpec
CONSTANTS
  PartNames = {"usage"}
  c1 = c1
  c2 = c2
  c3 = c3
  c4 = c4
  None = None
  RunnerCalls <- Pairs
  Turns <- Pairs
  Sockets <- Pairs
  Requests = {"q1", "q2"}
  ToolUses <- Triples
  NeedsApproval <- Pairs
  Permits = 1
  Entries <- MCEntries
  LedgerLines = 3
  TailLines = 3
  MaxTears = 2
  MaxAdds = 3
  MaxRecords = 2
  RollsBack = {TRUE, FALSE}
  Migrations <- Pairs
  LegacyWriters <- Others
  Distributions = {"portable", "installed"}
  InstallCalls <- Pairs
  QuitCalls <- Others
  Seats = {"s1", "s2", "s3"}
  Roles = {"lead", "test"}
  Escalation = TRUE
  Threshold = 2
  Cooldown = 1
  MaxPerHour = 1
  Hour = 1
  EventLimit = 3
  Projects = {"p"}
  Calls <- Triples
  OpOf <- MCOpOf
  ProjectOf <- MCProjectOf
  Saved <- MCSaved
  LastInstant = 1
  Reconfigs <- Pairs
  Polls <- Third
  Pids = {"p1", "p2"}
  Launches <- Triples
  TerminalOf <- MCTerminalOf
  Explicit <- MCExplicit
  HealthLaunches <- OneTwo
  HealthWaiters <- Pairs
  OtherStarts = 1
  Terminals = {"a", "b", "c"}
  MaxStarts = 2
  MaxChunks = 2
  BufferParts = 2
  EventParts = 1
  MaxForwards = 1
  MaxClock = 1
  Agents = {"coordinator", "build", "test"}
  Coordinator = "coordinator"
  Plans <- MCPlans
  Handoffs = {"h"}
  CanvasTasks = 2
  MaxReports = 2
  MaxChanges = 1
  Mounts <- OneTwo
  MaxTasks = 2
  Keys = {"openai", "gemini"}
  Vals = {"inConfig", "inVault", "new"}
  OldPlain = "inConfig"
  OldVault = "inVault"
  Saves <- Pairs
  Loads <- Third
  Updates <- MCUpdates
  ConfigRestarts = 1
  Clear = "clear"
  Keep = "keep"
  Starts <- Pairs
  Cancels <- Third
  TurnCalls <- Pairs
  StartCalls <- Third
  StopCalls <- Fourth
  Models = {"m1", "m2"}
  Refreshes <- Triples
  MaxLines = 2
  MaxEvents = 1
  MaxRestarts = 1
INVARIANT PruningKeepsEvents
CHECK_DEADLOCK FALSE
