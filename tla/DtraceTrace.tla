----------------------------- MODULE DtraceTrace -----------------------------
(***************************************************************************)
(* The macOS back-end of tools/isolate/trace_inputs.py end to end:         *)
(*                                                                         *)
(*  - the traced program: the helper child trace_child_process.py, blocked *)
(*    on stdin until released, then processes that fork, chdir, open,     *)
(*    rename and exit over a small file system (the environment);          *)
(*  - the D script of Dtrace.code() and Dtrace.D_CODE: the BEGIN clause,   *)
(*    proc:::start, the two proc:::exit clauses and the return probes of   *)
(*    open*, rename and chdir, with the global variables logindex and      *)
(*    current_processes and the array trackedpid;                          *)
(*  - Dtrace.gen_trace: wait for the dtrace_BEGIN line, release the        *)
(*    helper, wait for it and for dtrace, then _sort_log;                  *)
(*  - Dtrace.parse_log: on_line for every sorted line (DtraceContext).     *)
(*                                                                         *)
(* A probe clause runs in the context of the process that fired it.        *)
(* D global variables are shared by all CPUs without any locking: a clause *)
(* reads logindex and current_processes, and writes them back later.  A    *)
(* clause is entered by the step that fires its probe and its body runs    *)
(* in a later step (Commit), so the effects of other processes' calls can  *)
(* come in between.  When "racy_globals" is in Faults the body uses the    *)
(* globals as read on entry, so other clauses can run between its read and *)
(* its write; otherwise it reads and writes them at once.                  *)
(*                                                                         *)
(* proc:::start fires in the child when it first runs.  When              *)
(* "late_child_start" is in Faults the parent may go on (chdir, exit, ...) *)
(* before that; otherwise the child is scheduled first.                    *)
(***************************************************************************)
EXTENDS DtraceContext, Integers

CONSTANTS
  Pids,          \* pids the kernel can hand out
  PidOrder,      \* the order it hands them out; PidOrder[1] is the helper
  Launchd,       \* pid 1, the parent of orphaned processes
  DtracePid,     \* the dtrace process
  InitDirs,      \* directories that exist when the trace starts
  InitFiles,     \* regular files that exist when the trace starts
  RootCwd,       \* the helper's cwd (realpath'ed by code())
  ChdirArgs,     \* paths a process may chdir() to
  OpenArgs,      \* [fn, path, flags] a process may open
  RenameArgs,    \* <<src, dst>> pairs a process may rename()
  MaxSteps,      \* bound on the fork and file calls issued
  Faults         \* subset of {"racy_globals", "late_child_start"}

RootPid == PidOrder[1]

ASSUME PidOrder \in Seq(Pids) /\ Len(PidOrder) = Cardinality(Pids)
ASSUME Launchd \notin Pids /\ RootCwd \in InitDirs
ASSUME Faults \subseteq {"racy_globals", "late_child_start"}

VARIABLES
  alive,      \* live processes of the traced tree
  used,       \* pids handed out so far
  parent,     \* pid -> its parent (Launchd once the parent has exited)
  started,    \* processes whose proc:::start has fired
  kcwd,       \* pid -> the kernel's cwd
  dirs,       \* existing directories
  files,      \* existing regular files
  steps,      \* fork and file calls issued so far
  released,   \* the helper has read the signal from stdin
  dstate,     \* dtrace: "init", "running", or "exited" (after exit(0))
  tracked,    \* the pids with trackedpid[pid] = 1
  cur,        \* current_processes
  logindex,   \* logindex
  pend,       \* pid -> a clause that has read the globals, not yet written
  log,        \* the lines dtrace has written to the log
  accessed,   \* ghost: normalised paths the tree reached successfully
  phase,      \* gen_trace and parse_log: "begin", "communicate", "dwait",
              \* "parse", "done" or "error"
  rest,       \* lines of the sorted log not yet given to on_line
  ctx         \* the Dtrace._Context record

kernelVars == <<alive, used, parent, started, kcwd, dirs, files, steps>>
dVars == <<dstate, tracked, cur, logindex, pend, log>>
codeVars == <<released, phase, rest, ctx>>
vars == <<kernelVars, dVars, accessed, codeVars>>

NoArg == Rel(<<>>)

\* A line before logindex is written into it.
Ev(fn, ppid, pid, p1, p2, dirflag, result) ==
  [idx |-> 0, ppid |-> ppid, pid |-> pid, fn |-> fn, p1 |-> p1, p2 |-> p2,
   dirflag |-> dirflag, result |-> result, seq |-> 0]

NoProbe == [ev |-> Ev("none", Launchd, Launchd, NoArg, NoArg, FALSE, "0"),
            g |-> [idx |-> 0, cp |-> 0]]

FreePids == {q \in Pids : q \notin used}
NextPid == PidOrder[CHOOSE i \in 1..Len(PidOrder) :
                      /\ PidOrder[i] \notin used
                      /\ \A j \in 1..(i-1) : PidOrder[j] \in used]

-----------------------------------------------------------------------------
(* The D script.                                                           *)

\* Mutant: the last exit is taken to be current_processes == 0.
LastExitZero(g) == g.cp = 0

\* The predicate of the first proc:::exit clause, on the value read.
LastExit(g) == g.cp = 1

(***************************************************************************)
(* The body of the clause that prints e, run with the globals as read, g:  *)
(* the line gets logindex, logindex++, and for proc:::start and proc:::exit *)
(* trackedpid and current_processes are written; the first proc:::exit    *)
(* clause ends the trace with exit(0).                                     *)
(***************************************************************************)
Fire(e, g) ==
  /\ log' = log \cup {[e EXCEPT !.idx = g.idx, !.seq = Cardinality(log)]}
  /\ logindex' = g.idx + 1
  /\ cur' = CASE e.fn = "proc_start" -> g.cp + 1
              [] e.fn = "proc_exit"  -> g.cp - 1
              [] OTHER               -> cur
  /\ tracked' = CASE e.fn = "proc_start" -> tracked \cup {e.pid}
                  [] e.fn = "proc_exit"  -> tracked \ {e.pid}
                  [] OTHER               -> tracked
  /\ dstate' = IF e.fn = "proc_exit" /\ LastExit(g) THEN "exited" ELSE dstate

\* Process p enters the clause that prints e.  It reads the globals now;
\* its writes happen in Commit(p).
Probe(p, e) ==
  /\ pend' = [pend EXCEPT ![p] = [ev |-> e,
                                   g |-> [idx |-> logindex, cp |-> cur]]]
  /\ UNCHANGED <<dstate, tracked, cur, logindex, log>>

NoClause == UNCHANGED dVars

\* The predicate trackedpid[pid] of every syscall clause.
Traced(p) == dstate = "running" /\ p \in tracked

\* dtrace:::BEGIN of code(): track the helper, write the injected chdir
\* line (ppid 1) and the dtrace_BEGIN line.
DtraceBegin ==
  /\ dstate = "init"
  /\ dstate' = "running"
  /\ tracked' = {RootPid}
  /\ cur' = 1
  /\ logindex' = 2
  /\ log' = {[Ev("chdir", Launchd, RootPid, Abs(RootCwd), NoArg, FALSE, "0")
                EXCEPT !.idx = 0, !.seq = 0],
             [Ev("dtrace_BEGIN", Launchd, DtracePid, NoArg, NoArg, FALSE, "0")
                EXCEPT !.idx = 1, !.seq = 1]}
  /\ UNCHANGED <<kernelVars, pend, accessed, codeVars>>

(***************************************************************************)
(* The clause of p runs its body.  Serialised, it sees the globals as they *)
(* are now; with racy globals, as it read them when it was entered, and    *)
(* writes the stale values back.  After exit(0) nothing reaches the log.   *)
(***************************************************************************)
Commit(p) ==
  /\ pend[p] # NoProbe
  /\ pend' = [pend EXCEPT ![p] = NoProbe]
  /\ IF dstate = "running"
       THEN Fire(pend[p].ev, IF "racy_globals" \in Faults THEN pend[p].g
                             ELSE [idx |-> logindex, cp |-> cur])
       ELSE UNCHANGED <<dstate, tracked, cur, logindex, log>>
  /\ UNCHANGED <<kernelVars, accessed, codeVars>>

-----------------------------------------------------------------------------
(* The traced program.                                                     *)

\* A child whose proc:::start clause has not run yet.
Unseen(c) == c \notin started \/ pend[c].ev.fn = "proc_start"

\* A process that may run: started, not inside a clause, released if it
\* is the helper, and without a child still unseen by proc:::start unless
\* the kernel may run the parent first.
Runnable(p) ==
  /\ p \in alive /\ p \in started /\ pend[p] = NoProbe
  /\ p = RootPid => released
  /\ "late_child_start" \notin Faults =>
       \A c \in alive : parent[c] = p => ~Unseen(c)

\* fork(): the child runs once the kernel schedules it (Start).
Fork(p) ==
  /\ Runnable(p) /\ steps < MaxSteps /\ FreePids # {}
  /\ LET c == NextPid IN
     /\ alive' = alive \cup {c}
     /\ used' = used \cup {c}
     /\ parent' = [parent EXCEPT ![c] = p]
     /\ kcwd' = [kcwd EXCEPT ![c] = kcwd[p]]
  /\ steps' = steps + 1
  /\ UNCHANGED <<started, dirs, files, accessed, codeVars>>
  /\ NoClause

\* Mutant: the printf arguments ppid and pid are swapped.
StartSwapped(c) ==
  /\ c \in alive /\ c \notin started /\ pend[c] = NoProbe
  /\ started' = started \cup {c}
  /\ IF Traced(parent[c])
       THEN Probe(c, Ev("proc_start", c, parent[c], NoArg, NoArg, FALSE, "0"))
       ELSE NoClause
  /\ UNCHANGED <<alive, used, parent, kcwd, dirs, files, steps, accessed,
                 codeVars>>

\* proc:::start fires in the new process; /trackedpid[ppid]/ reads the
\* parent it has now.
Start(c) ==
  /\ c \in alive /\ c \notin started /\ pend[c] = NoProbe
  /\ started' = started \cup {c}
  /\ IF Traced(parent[c])
       THEN Probe(c, Ev("proc_start", parent[c], c, NoArg, NoArg, FALSE, "0"))
       ELSE NoClause
  /\ UNCHANGED <<alive, used, parent, kcwd, dirs, files, steps, accessed,
                 codeVars>>

\* A successful chdir(); chdir:return logs only errno == 0.
Chdir(p, a) ==
  LET t == Resolve(kcwd[p], a, dirs) IN
  /\ Runnable(p) /\ steps < MaxSteps
  /\ t # NoPath /\ t \in dirs
  /\ kcwd' = [kcwd EXCEPT ![p] = t]
  /\ steps' = steps + 1
  /\ IF Traced(p)
       THEN Probe(p, Ev("chdir", parent[p], p, a, NoArg, FALSE, "0"))
       ELSE NoClause
  /\ UNCHANGED <<alive, used, parent, started, dirs, files, accessed,
                 codeVars>>

\* A successful open*(); open*:return logs only errno == 0.
Open(p, o) ==
  LET t == Resolve(kcwd[p], o.path, dirs)
      create == o.flags = "O_CREAT" /\ t # NoPath /\ t \notin files \cup dirs IN
  /\ Runnable(p) /\ steps < MaxSteps
  /\ \/ o.flags = "O_DIRECTORY" /\ t \in dirs
     \/ o.flags = "O_RDONLY" /\ t \in files \cup dirs
     \/ o.flags = "O_CREAT" /\ (t \in files \/ create)
  /\ files' = IF create THEN files \cup {t} ELSE files
  /\ accessed' = accessed \cup {t}
  /\ steps' = steps + 1
  /\ IF Traced(p)
       THEN Probe(p, Ev(o.fn, parent[p], p, o.path, NoArg,
                        o.flags = "O_DIRECTORY", "0"))
       ELSE NoClause
  /\ UNCHANGED <<alive, used, parent, started, kcwd, dirs, codeVars>>

\* rename(); rename:return logs every call with its errno.
Rename(p, r) ==
  LET s == Resolve(kcwd[p], r[1], dirs)
      d == Resolve(kcwd[p], r[2], dirs)
      ok == s \in files /\ d # NoPath /\ d \notin dirs
      errno == CASE ok -> "0" [] d \in dirs -> "21" [] OTHER -> "2" IN
  /\ Runnable(p) /\ steps < MaxSteps
  /\ files' = IF ok THEN (files \ {s}) \cup {d} ELSE files
  /\ accessed' = IF ok THEN accessed \cup {s, d} ELSE accessed
  /\ steps' = steps + 1
  /\ IF Traced(p)
       THEN Probe(p, Ev("rename", parent[p], p, r[1], r[2], FALSE, errno))
       ELSE NoClause
  /\ UNCHANGED <<alive, used, parent, started, kcwd, dirs, codeVars>>

\* exit(): the children are re-parented to launchd; proc:::exit fires.
Exit(p) ==
  /\ Runnable(p)
  /\ alive' = alive \ {p}
  /\ parent' = [q \in DOMAIN parent |-> IF parent[q] = p THEN Launchd
                                        ELSE parent[q]]
  /\ IF Traced(p)
       THEN Probe(p, Ev("proc_exit", parent[p], p, NoArg, NoArg, FALSE, "0"))
       ELSE NoClause
  /\ UNCHANGED <<used, started, kcwd, dirs, files, steps, accessed,
                 codeVars>>

-----------------------------------------------------------------------------
(* Dtrace.gen_trace and Dtrace.parse_log.                                  *)

\* Part 3 and the start of part 4: readline() until a line holds
\* dtrace_BEGIN, then child.communicate(signal) writes the signal.
SeeBegin ==
  /\ phase = "begin"
  /\ dstate # "init"
  /\ released' = TRUE
  /\ phase' = "communicate"
  /\ UNCHANGED <<kernelVars, dVars, accessed, rest, ctx>>

\* communicate() returns when the helper has exited.
ChildDone ==
  /\ phase = "communicate"
  /\ RootPid \notin alive
  /\ phase' = "dwait"
  /\ UNCHANGED <<kernelVars, released, dVars, accessed, rest, ctx>>

\* dtrace.wait() returns once exit(0) has run; return code 0, so
\* _sort_log runs and parse_log opens the sorted file.
DtraceDone ==
  /\ phase = "dwait"
  /\ dstate = "exited"
  /\ rest' = log
  /\ phase' = "parse"
  /\ UNCHANGED <<kernelVars, released, dVars, accessed, ctx>>

\* Mutant: the log is parsed in the order dtrace wrote it, unsorted.
ParseLineUnsorted ==
  /\ phase = "parse" /\ ctx.err = NoErr
  /\ \E l \in rest :
       /\ ctx' = OnLine(ctx, l, dirs, files)
       /\ rest' = rest \ {l}
  /\ UNCHANGED <<kernelVars, released, dVars, accessed, phase>>

\* on_line for the next line of the file _sort_log wrote: the lines are
\* sorted by logindex; the sort is stable and dtrace writes the per-CPU
\* buffers in no fixed order, so lines with equal indices come in any order.
ParseLine ==
  /\ phase = "parse" /\ ctx.err = NoErr
  /\ \E l \in rest :
       /\ \A m \in rest : l.idx <= m.idx
       /\ ctx' = OnLine(ctx, l, dirs, files)
       /\ rest' = rest \ {l}
  /\ UNCHANGED <<kernelVars, released, dVars, accessed, phase>>

\* The loop ends at the end of the file or with the exception on_line raised.
ParseDone ==
  /\ phase = "parse"
  /\ rest = {} \/ ctx.err # NoErr
  /\ phase' = IF ctx.err = NoErr THEN "done" ELSE "error"
  /\ UNCHANGED <<kernelVars, released, dVars, accessed, rest, ctx>>

-----------------------------------------------------------------------------

Init ==
  /\ alive = {RootPid}
  /\ used = {RootPid}
  /\ parent = [p \in Pids |-> Launchd]
  /\ started = {RootPid}
  /\ kcwd = [p \in Pids |-> IF p = RootPid THEN RootCwd ELSE <<>>]
  /\ dirs = InitDirs
  /\ files = InitFiles
  /\ steps = 0
  /\ released = FALSE
  /\ dstate = "init"
  /\ tracked = {}
  /\ cur = 0
  /\ logindex = 0
  /\ pend = [p \in Pids |-> NoProbe]
  /\ log = {}
  /\ accessed = {}
  /\ phase = "begin"
  /\ rest = {}
  /\ ctx = InitContext

Tracee ==
  \E p \in Pids :
    \/ Fork(p) \/ Start(p) \/ Exit(p) \/ Commit(p)
    \/ \E a \in ChdirArgs : Chdir(p, a)
    \/ \E o \in OpenArgs : Open(p, o)
    \/ \E r \in RenameArgs : Rename(p, r)

Next ==
  \/ Tracee \/ DtraceBegin
  \/ SeeBegin \/ ChildDone \/ DtraceDone \/ ParseLine \/ ParseDone

(***************************************************************************)
(* Fairness: the tool, dtrace and a probe body once started always go on; *)
(* the kernel eventually schedules a forked child; and every process of    *)
(* the traced command eventually exits (a command that runs forever keeps  *)
(* gen_trace waiting by design).  Nothing forces a process to make a call. *)
(***************************************************************************)
Fairness ==
  /\ WF_vars(DtraceBegin) /\ WF_vars(SeeBegin) /\ WF_vars(ChildDone)
  /\ WF_vars(DtraceDone) /\ WF_vars(ParseLine) /\ WF_vars(ParseDone)
  /\ \A p \in Pids : WF_vars(Start(p)) /\ WF_vars(Commit(p)) /\ WF_vars(Exit(p))

Spec == Init /\ [][Next]_vars /\ Fairness

-----------------------------------------------------------------------------
(* Properties.                                                             *)

Names == Seq(STRING)

TypeOK ==
  /\ alive \subseteq Pids /\ used \subseteq Pids /\ started \subseteq used
  /\ parent \in [Pids -> Pids \cup {Launchd}]
  /\ kcwd \in [Pids -> Names]
  /\ steps \in 0..MaxSteps
  /\ dstate \in {"init", "running", "exited"}
  /\ tracked \subseteq Pids /\ cur \in Int /\ logindex \in Nat
  /\ \A p \in Pids : pend[p] = NoProbe \/ pend[p].ev.pid = p
  /\ accessed \subseteq Names
  /\ phase \in {"begin", "communicate", "dwait", "parse", "done", "error"}
  /\ rest \subseteq log
  /\ ctx.err \in {NoErr, "KeyError", "AssertionError"}

\* parse_log never raises on the sorted log: every proc_start line finds
\* the cwd of its parent and every proc_exit the cwd of its pid, which
\* holds only if sorting by logindex puts a process's proc_start before
\* its own lines and after its parent's.
ParseNeverAborts == ctx.err = NoErr

\* Dtrace.gen_trace returns: dtrace's exit(0) runs once the last traced
\* process has exited (current_processes == 1 on its proc:::exit), so
\* dtrace.wait() ends and the log is sorted.
GenTraceReturns == <>(phase \in {"parse", "done", "error"})

(***************************************************************************)
(* The dtrace back-end implements AccessLog: the paths the traced tree     *)
(* reached accumulate until parse_log() returns, its result is exactly     *)
(* their classification (files, the rest, no blacklisted path, no          *)
(* directory), and it does return.                                         *)
(***************************************************************************)
Ideal == INSTANCE AccessLog
           WITH IgnoredDirs <- {<<x>> : x \in Ignored},
                touched <- accessed,
                result <- [reported     |-> phase = "done",
                           existent     |-> IF phase = "done" THEN ctx.files
                                            ELSE {},
                           non_existent |-> IF phase = "done"
                                            THEN ctx.non_existent ELSE {}]

ImplementsAccessLog == Ideal!Spec

====
