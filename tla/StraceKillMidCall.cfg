\* A process killed while one of its syscalls is in progress.
CONSTANTS
  p1 = p1
  p2 = p2
  p3 = p3
  p4 = p4
  Pids <- MCPids
  PidOrder <- MCPidOrder
  Ignored <- MCIgnored
  NameStartsWith <- MCNameStartsWith
  InitDirs <- MCInitDirs
  InitFiles <- MCInitFiles
  RootCwd <- MCRootCwd
  CmdPath <- MCCmdPath
  ChdirArgs <- MCChdirArgs
  OpenArgs <- MCOpenArgs
  RenameArgs <- MCRenameArgs
  ExecArgs <- MCExecArgs
  UnlinkArgs <- MCUnlinkArgs
  ForkArgs <- MCForkArgs
  RmdirArgs <- MCRmdirArgs
  MaxSteps = 3
  Faults = {"kill_mid_call"}
SPECIFICATION Spec
INVARIANT AccessesReconstructed
CHECK_DEADLOCK FALSE
