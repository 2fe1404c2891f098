\* A traced file whose name holds a quote.
CONSTANTS
  Root <- MCRoot
  Trees <- MCQuoteTrees
  Excluded <- MCExcluded
  Spaced <- MCSpaced
  CwdDirs <- MCCwdDirs
  ProductDirs <- MCProductDirs
  ProcCwd <- MCProcCwd
  Flavor <- MCFlavor
  Spelling <- MCQuoteSpelling
SPECIFICATION Spec
INVARIANT PrintedValueReadsBack
\* The program exits once the result is printed.
CHECK_DEADLOCK FALSE
