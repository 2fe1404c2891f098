---------------------------- MODULE MCTraceInputs ----------------------------
EXTENDS TraceInputs

\* Three hosts with a tracer and one without.
MCFlavors == {"linux", "mac", "win", "solaris"}
MCMacOnly == {"mac"}
MCLinuxOnly == {"linux"}

\* The interpreter, a script, and a native program.
MCWords == {"python", "t.py", "prog"}
MCPyScripts == {"t.py"}

====
