------------------------------ MODULE AccessLog ------------------------------
(***************************************************************************)
(* What a tracer back-end of trace_inputs.py promises, whatever the        *)
(* platform: while the traced command runs, the paths its processes reach  *)
(* with a traced call accumulate; once, after the command has finished,    *)
(* parse_log() reports them split into existing files and the rest, less   *)
(* the blacklisted ones and the directories; and the report is eventually  *)
(* made.  Nothing is added to the trace after the report.                  *)
(*                                                                         *)
(* dirs and files are the file system, which the command and anything     *)
(* else may change at any time: they are free in every step.  The result   *)
(* is classified against the file system as it is when the report is      *)
(* made, which is what os.path.isfile() and os.path.isdir() in parse_log   *)
(* see.                                                                    *)
(***************************************************************************)
EXTENDS Paths

CONSTANTS
  IgnoredDirs  \* the blacklisted directories, as component sequences

VARIABLES
  touched,     \* normalised absolute paths the traced processes reached
  dirs,        \* existing directories
  files,       \* existing regular files
  result       \* [reported, existent, non_existent]

Excluded(t) == \E i \in IgnoredDirs : IsPrefix(i, t)

NoReport == [reported |-> FALSE, existent |-> {}, non_existent |-> {}]

\* The two sets of parse_log(), computed from the paths touched.
Classify(ts) ==
  [reported     |-> TRUE,
   existent     |-> {t \in ts : ~Excluded(t) /\ IsFile(t, dirs, files)},
   non_existent |-> {t \in ts : ~Excluded(t) /\ ~IsFile(t, dirs, files)
                                             /\ ~IsDir(t, dirs)}]

\* touched starts with what the command reached before the tracer first saw
\* it (strace's first line is the command's own execve), so it is free.
Init == result = NoReport

\* The command reaches more paths (and may change the file system).
Touch ==
  /\ ~result.reported
  /\ touched \subseteq touched'
  /\ UNCHANGED result

\* parse_log() returns.
Report ==
  /\ ~result.reported
  /\ result' = Classify(touched)
  /\ UNCHANGED touched

\* What may happen, without the promise that the report is made.
Safety == Init /\ [][Touch \/ Report]_<<touched, result>>

Spec == Safety /\ WF_<<touched, result>>(Report)

====
