----------------------------- MODULE TraceInputs -----------------------------
(***************************************************************************)
(* The orchestrator of tools/isolate/trace_inputs.py: main() and           *)
(* trace_inputs(), run several times in a row against the same log file.   *)
(* The log file is the only state that survives an invocation; what a      *)
(* tracer writes into it is abstracted to the command it traced and        *)
(* whether the tracer itself succeeded.  Parsing and post-processing are   *)
(* modelled in detail by StraceTrace and PostProcess; here they are one    *)
(* step that reads the log.                                                *)
(***************************************************************************)
EXTENDS Naturals, Sequences

CONSTANTS
  Flavors,     \* values of get_flavor(): "linux", "mac", "win" or another
  Words,       \* the file names a command line is made of, "python" included
  PyScripts,   \* the names of Words that end with ".py"
  MaxRuns      \* number of invocations explored

VARIABLES
  flavor,   \* get_flavor() of the host, fixed for all invocations
  logf,     \* the log file: NoLog or [cmd, tracer_ok]
  pc,       \* "idle", "gen_trace" or "parse": where the invocation is
  inv,      \* the current or last invocation: its command line, its
            \* force flag, whether the log existed, and the code the
            \* tracer's run ended with (dtrace's own code on "mac")
  parsed,   \* the log content the last invocation parsed, or NoLog
  ret,      \* how the last invocation ended: a return code or an exception
  runs      \* invocations started so far

vars == <<flavor, logf, pc, inv, parsed, ret, runs>>

NoLog == [cmd |-> <<>>, tracer_ok |-> FALSE]
NoInv == [args |-> <<>>, force |-> FALSE, had_log |-> FALSE, trc |-> "none"]

(***************************************************************************)
(* A word of a command line is a file name and the directory it is in:     *)
(* "" for a bare name as typed, "/cwd" once os.path.abspath() has made it  *)
(* absolute.  Exe is sys.executable.                                       *)
(***************************************************************************)
Bare(w) == [dir |-> "", base |-> w]
Exe == [dir |-> "/usr/bin", base |-> "python"]
AbsPath(word) == IF word.dir = "" THEN [word EXCEPT !.dir = "/cwd"] ELSE word
Word == [dir : {"", "/cwd", "/usr/bin"}, base : Words]

\* Command lines main() can receive: empty, or one or two bare words.
Cmds == {<<>>} \cup {<<Bare(w)>> : w \in Words}
          \cup {<<Bare(w), Bare(v)>> : w, v \in Words}

\* main(): args[0] = os.path.abspath(args[0]) when there is a command.
MainArgs(args) == IF args = <<>> THEN args ELSE [args EXCEPT ![1] = AbsPath(@)]

\* Child exit codes and tracer exit codes, success or one failure, written
\* as the strings a return code and an exception name are compared with.
Codes == {"0", "1"}

(***************************************************************************)
(* fix_python_path: a bare "python" is replaced by the running             *)
(* interpreter, a script gets the interpreter put in front of it.  out[0]  *)
(* of an empty command raises IndexError.                                  *)
(***************************************************************************)
FixPythonPath(cmd) ==
  IF cmd = <<>> THEN "IndexError"
  ELSE IF Head(cmd) = Bare("python") THEN <<Exe>> \o Tail(cmd)
  ELSE IF Head(cmd).base \in PyScripts THEN <<Exe>> \o cmd
  ELSE cmd

Init ==
  /\ flavor \in Flavors
  /\ logf \in {NoLog} \cup
               [cmd : {FixPythonPath(c) : c \in Cmds \ {<<>>}}, tracer_ok : {TRUE}]
  /\ pc = "idle"
  /\ inv = NoInv
  /\ parsed = NoLog
  /\ ret = "none"
  /\ runs = 0

Finish(r) ==
  /\ ret' = r
  /\ pc' = "idle"

(***************************************************************************)
(* main() and trace_inputs() up to the tracer.  main() refuses an empty    *)
(* command line only when a trace is needed (exit status 2 of             *)
(* parser.error) and makes args[0] absolute otherwise; trace_inputs()      *)
(* then calls fix_python_path, returns 1 on an unsupported platform and    *)
(* removes a log it is going to regenerate.                                *)
(***************************************************************************)
Main(args, force) ==
  /\ pc = "idle"
  /\ runs < MaxRuns
  /\ runs' = runs + 1
  /\ parsed' = NoLog
  /\ UNCHANGED flavor
  /\ inv' = [args |-> MainArgs(args), force |-> force, had_log |-> logf # NoLog,
             trc |-> "none"]
  /\ LET hasLog == logf # NoLog IN
     CASE args = <<>> /\ (~hasLog \/ force) ->
            Finish("2") /\ UNCHANGED logf
       [] FixPythonPath(MainArgs(args)) = "IndexError" ->
            Finish("IndexError") /\ UNCHANGED logf
       [] flavor \notin {"linux", "mac", "win"} ->
            Finish("1") /\ UNCHANGED logf
       [] ~hasLog \/ force ->
            /\ logf' = NoLog
            /\ pc' = "gen_trace"
            /\ UNCHANGED ret
       [] OTHER ->
            /\ pc' = "parse"
            /\ UNCHANGED <<logf, ret>>

\* The check of trace_inputs() on the code gen_trace returned.
AfterTrace(code) ==
  /\ inv' = [inv EXCEPT !.trc = code]
  /\ IF code # "0" /\ ~inv.force THEN Finish(code)
     ELSE pc' = "parse" /\ UNCHANGED ret

\* Mutant: child.returncode is read before communicate() has waited for
\* the child, so it is still None.
StraceGenTraceNoWait ==
  /\ pc = "gen_trace" /\ flavor = "linux"
  /\ logf' = [cmd |-> FixPythonPath(inv.args), tracer_ok |-> TRUE]
  /\ AfterTrace("None")
  /\ UNCHANGED <<flavor, parsed, runs>>

(***************************************************************************)
(* Strace.gen_trace: strace writes the log (also when the child fails) and *)
(* the returned code is the child's; a missing strace binary makes Popen   *)
(* raise before any log exists.                                            *)
(***************************************************************************)
StraceGenTrace ==
  /\ pc = "gen_trace" /\ flavor = "linux"
  /\ \/ \E rc \in Codes :
          /\ logf' = [cmd |-> FixPythonPath(inv.args), tracer_ok |-> TRUE]
          /\ AfterTrace(rc)
     \/ Finish("OSError") /\ UNCHANGED <<logf, inv>>
  /\ UNCHANGED <<flavor, parsed, runs>>

(***************************************************************************)
(* Dtrace.gen_trace: the child is the trace_child_process.py helper, so    *)
(* spawning it does not fail on a bad command.  A failed dtrace run       *)
(* removes the log; otherwise the log is sorted.  The code returned is     *)
(* dtrace's, or the child's when dtrace succeeded.                         *)
(***************************************************************************)
DtraceGenTrace ==
  /\ pc = "gen_trace" /\ flavor = "mac"
  /\ \E drc, crc \in Codes :
       /\ logf' = IF drc # "0" THEN NoLog
                  ELSE [cmd |-> FixPythonPath(inv.args), tracer_ok |-> TRUE]
       /\ AfterTrace(IF drc # "0" THEN drc ELSE crc)
  /\ UNCHANGED <<flavor, parsed, runs>>

LogmanGenTrace ==
  /\ pc = "gen_trace" /\ flavor = "win"
  /\ \/ \E rc \in Codes :
          /\ logf' = [cmd |-> FixPythonPath(inv.args), tracer_ok |-> TRUE]
          /\ AfterTrace(rc)
     \/ Finish("CalledProcessError") /\ UNCHANGED <<logf, inv>>
     \/ Finish("OSError") /\ UNCHANGED <<logf, inv>>
  /\ UNCHANGED <<flavor, parsed, runs>>

(***************************************************************************)
(* parse_log, relevant_files, extract_directories and the output: opening  *)
(* a missing log raises IOError; otherwise trace_inputs() returns 0 with   *)
(* the inputs the log describes.                                           *)
(***************************************************************************)
Parse ==
  /\ pc = "parse"
  /\ IF logf = NoLog
       THEN Finish("IOError") /\ UNCHANGED parsed
       ELSE Finish("0") /\ parsed' = logf
  /\ UNCHANGED <<flavor, logf, inv, runs>>

Next ==
  \/ \E args \in Cmds, force \in BOOLEAN : Main(args, force)
  \/ StraceGenTrace \/ DtraceGenTrace \/ LogmanGenTrace
  \/ Parse

Spec == Init /\ [][Next]_vars

-----------------------------------------------------------------------------

TypeOK ==
  /\ logf \in {NoLog} \cup [cmd : Seq(Word),
                            tracer_ok : BOOLEAN]
  /\ flavor \in Flavors
  /\ inv.trc \in {"none"} \cup Codes
  /\ pc \in {"idle", "gen_trace", "parse"}
  /\ parsed \in {NoLog} \cup [cmd : Seq(Word),
                              tracer_ok : BOOLEAN]
  /\ ret \in {"none", "2", "IndexError", "OSError", "CalledProcessError",
             "IOError"} \cup Codes
  /\ runs \in 0..MaxRuns

CommandOptionalWithLog ==
  pc = "idle" /\ inv.args = <<>> /\ inv.had_log /\ ~inv.force => ret = "0"

\* Spec section 4.E step 1: a command run through a bare interpreter name
\* is traced with the host's current interpreter (fix_python_path).
InterpreterResolved ==
  logf # NoLog /\ logf.cmd[1].base = "python" => logf.cmd[1] = Exe

\* Spec section 7: "DTrace non-zero exit -> delete the log and surface the
\* code"; an invocation whose dtrace failed ends with dtrace's code.
DtraceFailureSurfaced ==
  pc = "idle" /\ flavor = "mac" /\ inv.trc \notin {"none", "0"} =>
    ret = inv.trc

====
