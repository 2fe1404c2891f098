----------------------------- MODULE LogmanTrace -----------------------------
(***************************************************************************)
(* The Windows back-end of tools/isolate/trace_inputs.py end to end:       *)
(*                                                                         *)
(*  - LogmanTrace.gen_trace: "logman start" turns on the NT Kernel Logger, *)
(*    the command runs until the root process exits, "logman stop" turns  *)
(*    the logger off, tracerpt converts the ETW file to CSV;              *)
(*  - the kernel: it writes an event for every process start and end,     *)
(*    image load and file create of every process on the machine while   *)
(*    the logger is on, and the rundown (DCStart) of the processes alive  *)
(*    when it starts;                                                      *)
(*  - LogmanTrace.parse_log: on_csv_line for every row (LogmanContext).   *)
(*                                                                         *)
(* Processes: Us (the python process running trace_inputs), the two       *)
(* logman.exe processes, an unrelated process Other, and the command's    *)
(* tree, drawn from TreePids.  The file system holds DOS paths; the       *)
(* kernel logs a file's NT path, \Device\<Mounts[drive]>\rest.            *)
(*                                                                         *)
(* Faults:                                                                 *)
(*   "other_process"  Other creates files while the trace runs;           *)
(*   "outlive_root"   a process of the tree may exit before its children. *)
(* Without them the machine is quiet and every process waits for its      *)
(* children.                                                               *)
(***************************************************************************)
EXTENDS LogmanContext, Integers

CONSTANTS
  TreePids,     \* pids the command's processes may get
  PidOrder,     \* the order they are handed out; PidOrder[1] is the root
  Us, LmStart, LmStop, Other,
  Mounts,       \* drive letter -> NT device, what QueryDosDevice returns
  InitDirs,     \* existing directories (DOS component sequences)
  InitFiles,    \* existing regular files
  OpenArgs,     \* [path, create] a process may CreateFile()
  MaxSteps,     \* bound on the forks and file calls issued
  Faults        \* subset of {"other_process", "outlive_root"}

Root == PidOrder[1]

ASSUME PidOrder \in Seq(TreePids) /\ Len(PidOrder) = Cardinality(TreePids)
ASSUME Faults \subseteq {"other_process", "outlive_root"}

VARIABLES
  alive,     \* live processes of the command's tree
  used,      \* pids handed out so far
  parent,    \* pid -> the process that created it
  dirs,      \* existing directories
  files,     \* existing regular files
  steps,     \* forks and file calls issued so far
  session,   \* the NT Kernel Logger: "off", "on" or "stopped"
  log,       \* the events written while it was on, in order
  accessed,  \* ghost: paths the command's tree created, opened or deleted
  phase,     \* gen_trace and parse_log: "start", "run", "wait", "stop",
             \* "convert", "parse_log", "parse", "done" or "error"
  rest,      \* the rows of the CSV file
  pos,       \* the next row on_csv_line reads
  ctx        \* the LogmanTrace._Context record

kernelVars == <<alive, used, parent, dirs, files, steps>>
vars == <<kernelVars, session, log, accessed, phase, rest, pos, ctx>>

NoNt == [dev |-> "none", comps |-> <<>>]

\* The NT path the kernel reports for the DOS path t.
NtPath(t) == [dev |-> Mounts[t[1]], comps |-> Tail(t)]

Row(name, type, pid, child, ppid, pname, path, exp) ==
  [name |-> name, type |-> type, pid |-> pid, child |-> child, ppid |-> ppid,
   pname |-> pname, path |-> path, exp |-> exp]

\* The ghost exp of a row: the processes the parser should know once it
\* has read the row (the tracing process and the live tree).
Exp(tree) == {Us} \cup tree

ProcRow(type, pid, child, ppid, pname, tree) ==
  Row("Process", type, pid, child, ppid, pname, NoNt, Exp(tree))

ImageLoad(p, tree) == Row("Image", "Load", p, NoPid, NoPid, "", NoNt, Exp(tree))

FileRow(type, p, t, tree) ==
  Row("FileIo", type, p, NoPid, NoPid, "", NtPath(t), Exp(tree))

HeaderRow == Row(Header, "Type", NoPid, NoPid, NoPid, "", NoNt, {})

\* Events reach the log only while the logger is on.
Emit(rows) == log' = IF session = "on" THEN log \o rows ELSE log

NextPid == PidOrder[CHOOSE i \in 1..Len(PidOrder) :
                      /\ PidOrder[i] \notin used
                      /\ \A j \in 1..(i-1) : PidOrder[j] \in used]

\* CreateFile() succeeds on an existing file or directory, or creates a
\* file in an existing directory.
Opens(o) ==
  \/ o.path \in files \cup dirs
  \/ o.create /\ Front(o.path) \in dirs /\ o.path \notin dirs

-----------------------------------------------------------------------------
(* The command's processes and the rest of the machine.                    *)

\* CreateProcess(): Process_Start in the creator's context, then the
\* child's image load.
Fork(p) ==
  /\ p \in alive /\ steps < MaxSteps /\ used # TreePids
  /\ LET c == NextPid IN
     /\ alive' = alive \cup {c}
     /\ used' = used \cup {c}
     /\ parent' = [parent EXCEPT ![c] = p]
     /\ Emit(<<ProcRow("Start", p, c, p, "prog.exe", alive'),
               ImageLoad(c, alive')>>)
  /\ steps' = steps + 1
  /\ UNCHANGED <<dirs, files, session, accessed, phase, rest, pos, ctx>>

Open(p, o) ==
  /\ p \in alive /\ steps < MaxSteps /\ Opens(o)
  /\ files' = files \cup (IF o.create /\ o.path \notin dirs
                            THEN {o.path} ELSE {})
  /\ accessed' = accessed \cup {o.path}
  /\ steps' = steps + 1
  /\ Emit(<<FileRow("Create", p, o.path, alive)>>)
  /\ UNCHANGED <<alive, used, parent, dirs, session, phase, rest, pos, ctx>>

\* DeleteFile(): the file is opened for deletion, then removed.
Delete(p, o) ==
  /\ p \in alive /\ steps < MaxSteps /\ o.path \in files
  /\ files' = files \ {o.path}
  /\ accessed' = accessed \cup {o.path}
  /\ steps' = steps + 1
  /\ Emit(<<FileRow("Create", p, o.path, alive),
            FileRow("Delete", p, o.path, alive)>>)
  /\ UNCHANGED <<alive, used, parent, dirs, session, phase, rest, pos, ctx>>

Exit(p) ==
  /\ p \in alive
  /\ "outlive_root" \notin Faults =>
       \A c \in alive : parent[c] # p
  /\ alive' = alive \ {p}
  /\ Emit(<<ProcRow("End", p, NoPid, parent[p], "prog.exe", alive')>>)
  /\ UNCHANGED <<used, parent, dirs, files, steps, session, accessed,
                 phase, rest, pos, ctx>>

\* A process that is not part of the trace creates a file.
OtherOpen(o) ==
  /\ "other_process" \in Faults
  /\ steps < MaxSteps /\ Opens(o)
  /\ files' = files \cup (IF o.create /\ o.path \notin dirs
                            THEN {o.path} ELSE {})
  /\ steps' = steps + 1
  /\ Emit(<<FileRow("Create", Other, o.path, alive)>>)
  /\ UNCHANGED <<alive, used, parent, dirs, session, accessed, phase, rest,
                 pos, ctx>>

-----------------------------------------------------------------------------
(* LogmanTrace.gen_trace and LogmanTrace.parse_log.                        *)

(***************************************************************************)
(* 1. logman start: the logger is on and writes the rundown of the live   *)
(* processes (the first logman.exe, whose parent is Us, among them); then *)
(* that logman.exe exits.                                                  *)
(***************************************************************************)
LogmanStartCmd ==
  /\ phase = "start"
  /\ session' = "on"
  /\ log' = <<Row("EventTrace", "Header", NoPid, NoPid, NoPid, "", NoNt, {}),
              Row("Process", "DCStart", Us, Us, NoPid, "python.exe", NoNt, {}),
              ProcRow("DCStart", LmStart, LmStart, Us, Logman, {}),
              ProcRow("DCStart", Other, Other, NoPid, "other.exe", {}),
              ProcRow("End", LmStart, NoPid, Us, Logman, {})>>
  /\ phase' = "run"
  /\ UNCHANGED <<kernelVars, accessed, rest, pos, ctx>>

\* 2. subprocess.Popen(cmd): Us creates the root of the tree.
StartChild ==
  /\ phase = "run"
  /\ alive' = {Root}
  /\ used' = {Root}
  /\ parent' = [parent EXCEPT ![Root] = Us]
  /\ Emit(<<ProcRow("Start", Us, Root, Us, "prog.exe", {Root}),
            ImageLoad(Root, {Root})>>)
  /\ phase' = "wait"
  /\ UNCHANGED <<dirs, files, steps, session, accessed, rest, pos, ctx>>

\* child.communicate() returns when the root has exited.
ChildDone ==
  /\ phase = "wait"
  /\ Root \notin alive
  /\ phase' = "stop"
  /\ UNCHANGED <<kernelVars, session, log, accessed, rest, pos, ctx>>

\* 3. logman stop: Us creates the second logman.exe, the logger writes its
\* closing rundown and stops.
LogmanStopCmd ==
  /\ phase = "stop"
  /\ log' = log \o <<ProcRow("Start", Us, LmStop, Us, Logman, alive),
                     ProcRow("DCEnd", Us, Us, NoPid, "python.exe", alive),
                     Row("SystemConfig", "CPU", NoPid, NoPid, NoPid, "", NoNt,
                         Exp(alive))>>
  /\ session' = "stopped"
  /\ phase' = "convert"
  /\ UNCHANGED <<kernelVars, accessed, rest, pos, ctx>>

\* 4. tracerpt -of CSV: the header row, then one row per event.
Convert ==
  /\ phase = "convert"
  /\ rest' = <<HeaderRow>> \o log
  /\ phase' = "parse_log"
  /\ UNCHANGED <<kernelVars, session, log, accessed, pos, ctx>>

\* parse_log: the first two bytes select the csv format; _Context builds
\* its DosDriveMap.
ParseBegin ==
  /\ phase = "parse_log"
  /\ ctx' = IF DuplicateDevice(Mounts)
              THEN Fail(InitContext(<<>>), "AssertionError")
              ELSE InitContext(DosDriveMap(Mounts))
  /\ pos' = 1
  /\ phase' = "parse"
  /\ UNCHANGED <<kernelVars, session, log, accessed, rest>>

\* on_csv_line for the next row.
ParseLine ==
  /\ phase = "parse" /\ ctx.err = NoErr /\ pos <= Len(rest)
  /\ ctx' = OnCsvLine(ctx, rest[pos], dirs, files)
  /\ pos' = pos + 1
  /\ UNCHANGED <<kernelVars, session, log, accessed, phase, rest>>

\* The loop ends at the last row or with an exception; realpath() leaves
\* the paths as they are (no symbolic links, no ".." in ETW paths).
ParseDone ==
  /\ phase = "parse"
  /\ pos > Len(rest) \/ ctx.err # NoErr
  /\ phase' = IF ctx.err = NoErr THEN "done" ELSE "error"
  /\ UNCHANGED <<kernelVars, session, log, accessed, rest, pos, ctx>>

-----------------------------------------------------------------------------

Init ==
  /\ alive = {}
  /\ used = {}
  /\ parent = [p \in TreePids |-> Us]
  /\ dirs = InitDirs
  /\ files = InitFiles
  /\ steps = 0
  /\ session = "off"
  /\ log = <<>>
  /\ accessed = {}
  /\ phase = "start"
  /\ rest = <<>>
  /\ pos = 1
  /\ ctx = InitContext(<<>>)

Next ==
  \/ \E p \in TreePids :
       \/ Fork(p) \/ Exit(p)
       \/ \E o \in OpenArgs : Open(p, o) \/ Delete(p, o)
  \/ \E o \in OpenArgs : OtherOpen(o)
  \/ LogmanStartCmd \/ StartChild \/ ChildDone \/ LogmanStopCmd \/ Convert
  \/ ParseBegin \/ ParseLine \/ ParseDone

\* The tool's own steps are never blocked once enabled; the command ends
\* (trace_inputs waits for it).  Forks and file calls are not fair.
Fairness ==
  /\ WF_vars(LogmanStartCmd) /\ WF_vars(StartChild) /\ WF_vars(ChildDone)
  /\ WF_vars(LogmanStopCmd) /\ WF_vars(Convert) /\ WF_vars(ParseBegin)
  /\ WF_vars(ParseLine) /\ WF_vars(ParseDone)
  /\ \A p \in TreePids : WF_vars(Exit(p))

Spec == Init /\ [][Next]_vars /\ Fairness

-----------------------------------------------------------------------------

DosPaths == {t \in Seq(STRING) : t # <<>> /\ t[1] \in DOMAIN Mounts}

TypeOK ==
  /\ alive \subseteq used /\ used \subseteq TreePids
  /\ session \in {"off", "on", "stopped"}
  /\ pos \in 1..(Len(rest) + 1)
  /\ ctx.processes \subseteq TreePids \cup {Us, LmStart, LmStop, Other}
  /\ \A t \in ctx.files \cup ctx.non_existent : t # <<>> /\ t[1] \in DOMAIN Mounts
  /\ ctx.err \in {NoErr, "AssertionError"}

(***************************************************************************)
(* handle_Process_DCStart, _Start and _End rebuild the process tree: after *)
(* every row, self._processes is the tracing process and the live         *)
(* processes of the command's tree, once the first logman.exe has been    *)
(* seen.  This is the set spec section 4.C says the parser filters file   *)
(* events by.                                                              *)
(***************************************************************************)
ProcessesReconstructed ==
  phase = "parse" /\ ctx.err = NoErr /\ pos > 1 =>
    ctx.processes = rest[pos - 1].exp

(***************************************************************************)
(* The back-end implements AccessLog: parse_log reports, once and          *)
(* eventually, exactly the files and non-existent paths the command's      *)
(* tree created, opened or deleted, less the blacklisted paths and the     *)
(* directories.                                                            *)
(***************************************************************************)
Ideal == INSTANCE AccessLog
         WITH IgnoredDirs <- Ignored,
              touched <- accessed,
              result <- [reported |-> phase = "done",
                         existent |-> IF phase = "done" THEN ctx.files ELSE {},
                         non_existent |->
                           IF phase = "done" THEN ctx.non_existent ELSE {}]

ImplementsAccessLog == Ideal!Spec

(***************************************************************************)
(* Nothing the command's tree touched is lost, whatever else runs on the  *)
(* machine: parse_log eventually returns, and every path the tree         *)
(* created, opened or deleted, less the blacklisted ones and the          *)
(* directories, is in one of its two sets.  Which set depends on when     *)
(* os.path.isfile() ran, since other processes change the file system     *)
(* meanwhile; ImplementsAccessLog adds that nothing else is in them.      *)
(***************************************************************************)
TracedAccessesReported ==
  <>(/\ phase = "done"
     /\ \A t \in accessed :
          ~Ideal!Excluded(t) /\ ~IsDir(t, dirs) =>
            t \in ctx.files \cup ctx.non_existent)

====
