\* macOS back-end, no faults: the helper and two descendants, probes
\* serialised, every child started before its parent exits.
CONSTANTS
  p1 = p1
  p2 = p2
  p3 = p3
  launchd = launchd
  dtrace = dtrace
  Launchd <- launchd
  DtracePid <- dtrace
  Pids <- MCPids
  PidOrder <- MCPidOrder
  Ignored <- MCIgnored
  InitDirs <- MCInitDirs
  InitFiles <- MCInitFiles
  RootCwd <- MCRootCwd
  ChdirArgs <- MCChdirArgs
  OpenArgs <- MCOpenArgs
  RenameArgs <- MCRenameArgs
  MaxSteps = 3
  Faults = {}
SPECIFICATION Spec
INVARIANTS TypeOK ParseNeverAborts
PROPERTIES GenTraceReturns ImplementsAccessLog
CHECK_DEADLOCK FALSE
