\* Windows back-end with another process creating files during the trace.
\* The result holds its file too.
CONSTANTS
  t1 = t1
  t2 = t2
  t3 = t3
  us = us
  lmstart = lmstart
  lmstop = lmstop
  other = other
  nopid = nopid
  TreePids <- MCTreePids
  PidOrder <- MCPidOrder
  Us <- us
  LmStart <- lmstart
  LmStop <- lmstop
  Other <- other
  NoPid <- nopid
  Mounts <- MCMounts
  Ignored <- MCIgnored
  InitDirs <- MCInitDirs
  InitFiles <- MCInitFiles
  OpenArgs <- MCOpenArgs
  MaxSteps = 3
  Faults = {"other_process"}
SPECIFICATION Spec
PROPERTIES ImplementsAccessLog
CHECK_DEADLOCK FALSE
