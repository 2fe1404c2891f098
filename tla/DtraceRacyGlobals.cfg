\* D globals read and written back by concurrent clauses on several CPUs.
CONSTANTS
  p1 = p1
  p2 = p2
  p3 = p3
  launchd = launchd
  dtrace = dtrace
  Launchd <- launchd
  DtracePid <- dtrace
  Pids <- MCPids
  PidOrder <- MCPidOrder
  Ignored <- MCIgnored
  InitDirs <- MCInitDirs
  InitFiles <- MCInitFiles
  RootCwd <- MCRootCwd
  ChdirArgs <- MCChdirArgs
  OpenArgs <- MCOpenArgs
  RenameArgs <- MCRenameArgs
  MaxSteps = 1
  Faults = {"racy_globals"}
SPECIFICATION Spec
CHECK_DEADLOCK FALSE
PROPERTIES GenTraceReturns
