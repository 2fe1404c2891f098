\* Three invocations in a row on every host flavour, each with any command
\* line and either value of --force, against a log left by an earlier run.
CONSTANTS
  Flavors <- MCFlavors
  Words <- MCWords
  PyScripts <- MCPyScripts
  MaxRuns = 3
SPECIFICATION Spec
INVARIANTS TypeOK 
\* The program exits after the last invocation.
CHECK_DEADLOCK FALSE
