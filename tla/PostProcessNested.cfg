\* A directory traced in full whose subdirectory was traced in full too.
CONSTANTS
  Root <- MCRoot
  Trees <- MCTrees
  Excluded <- MCExcluded
  Spaced <- MCSpaced
  CwdDirs <- MCCwdDirs
  ProductDirs <- MCProductDirs
  ProcCwd <- MCProcCwd
  Flavor <- MCFlavor
  Spelling <- MCSpelling
SPECIFICATION Spec
INVARIANT MaximalCollapse
\* The program exits once the result is printed.
CHECK_DEADLOCK FALSE
