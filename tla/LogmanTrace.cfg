\* Windows back-end: the command and two descendants, each process waiting
\* for its children, and an unrelated process creating files meanwhile.
CONSTANTS
  t1 = t1
  t2 = t2
  t3 = t3
  us = us
  lmstart = lmstart
  lmstop = lmstop
  other = other
  nopid = nopid
  TreePids <- MCTreePids
  PidOrder <- MCPidOrder
  Us <- us
  LmStart <- lmstart
  LmStop <- lmstop
  Other <- other
  NoPid <- nopid
  Mounts <- MCMounts
  Ignored <- MCIgnored
  InitDirs <- MCInitDirs
  InitFiles <- MCInitFiles
  OpenArgs <- MCOpenArgs
  MaxSteps = 3
  Faults = {"other_process"}
SPECIFICATION Spec
INVARIANTS TypeOK ProcessesReconstructed
PROPERTIES TracedAccessesReported
CHECK_DEADLOCK FALSE
