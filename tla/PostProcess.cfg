\* Every traced subset of two trees, three cwd_dir and two product_dir values.
CONSTANTS
  Root <- MCRoot
  Trees <- MCTrees
  Excluded <- MCExcluded
  Spaced <- MCSpaced
  CwdDirs <- MCCwdDirs
  ProductDirs <- MCProductDirs
  ProcCwd <- MCProcCwd
  Flavor <- MCFlavor
  Spelling <- MCSpelling
SPECIFICATION Spec
INVARIANTS TypeOK CollapsedDirsFullyAccessed InputsCovered RebasedPathsResolve
           PrintedValueReadsBack
\* The program exits once the result is printed.
CHECK_DEADLOCK FALSE
