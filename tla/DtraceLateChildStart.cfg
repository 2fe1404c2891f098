\* proc:::start fires late: the parent may run before its child is seen.
CONSTANTS
  p1 = p1
  p2 = p2
  p3 = p3
  launchd = launchd
  dtrace = dtrace
  Launchd <- launchd
  DtracePid <- dtrace
  Pids <- MCPids
  PidOrder <- MCPidOrder
  Ignored <- MCIgnored
  InitDirs <- MCInitDirs
  InitFiles <- MCInitFiles
  RootCwd <- MCRootCwd
  ChdirArgs <- MCChdirArgs
  OpenArgs <- MCOpenArgs
  RenameArgs <- MCRenameArgs
  MaxSteps = 3
  Faults = {"late_child_start"}
SPECIFICATION Spec
CHECK_DEADLOCK FALSE
PROPERTIES ImplementsAccessLog
