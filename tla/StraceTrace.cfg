\* Linux back-end, no faults: several processes, interleaved lines,
\* unfinished/resumed stitching, clone, chdir, kill.
CONSTANTS
  p1 = p1
  p2 = p2
  p3 = p3
  p4 = p4
  Pids <- MCPids
  PidOrder <- MCPidOrder
  Ignored <- MCIgnored
  NameStartsWith <- MCNameStartsWith
  InitDirs <- MCInitDirs
  InitFiles <- MCInitFiles
  RootCwd <- MCRootCwd
  CmdPath <- MCCmdPath
  ChdirArgs <- MCChdirArgs
  OpenArgs <- MCOpenArgs
  RenameArgs <- MCRenameArgs
  ExecArgs <- MCExecArgs
  UnlinkArgs <- MCUnlinkArgs
  ForkArgs <- MCForkArgs
  RmdirArgs <- MCRmdirArgs
  MaxSteps = 3
  Faults = {}
SPECIFICATION Spec
INVARIANTS TypeOK ParseNeverAborts CwdReconstructed
PROPERTIES ImplementsAccessLog
CHECK_DEADLOCK FALSE
