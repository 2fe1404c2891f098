----------------------------- MODULE StraceTrace -----------------------------
(***************************************************************************)
(* The Linux back-end of tools/isolate/trace_inputs.py end to end:         *)
(*                                                                         *)
(*  - the traced program: processes that clone, chdir, open, rename,       *)
(*    execve, unlink, rmdir and exit, interleaved by the kernel, over a    *)
(*    small file system (the environment, not code of the repository);    *)
(*  - strace -f writing one line per traced syscall, split into            *)
(*    "<unfinished ...>" and "<... resumed>" when another pid writes in    *)
(*    between (the environment);                                           *)
(*  - Strace.gen_trace, which prepends a chdir() line for the first pid    *)
(*    once the child has exited;                                           *)
(*  - Strace.parse_log, which feeds every line to Strace._Context.on_line  *)
(*    (module StraceContext) after the trace, then applies realpath.       *)
(*                                                                         *)
(* A syscall takes effect when it enters; its line is completed when it   *)
(* returns, so other processes may write lines in between.                 *)
(***************************************************************************)
EXTENDS StraceContext, Integers

CONSTANTS
  Pids,          \* pids the kernel can hand out
  PidOrder,      \* the order it hands them out; PidOrder[1] is the tracee
  InitDirs,      \* directories that exist when the trace starts
  InitFiles,     \* regular files that exist when the trace starts
  RootCwd,       \* root_dir/cwd_dir: the tracee's initial cwd
  CmdPath,       \* the absolute path the tracee is exec'ed from
  ChdirArgs,     \* paths a process may chdir() to
  OpenArgs,      \* [path, flags] pairs a process may open()
  RenameArgs,    \* <<src, dst>> pairs a process may rename()
  ExecArgs,      \* paths a process may execve()
  UnlinkArgs,    \* paths a process may unlink() (not traced)
  RmdirArgs,     \* paths a process may rmdir() (not traced)
  ForkArgs,      \* the clone() and vfork() calls a process may make
  MaxSteps,      \* bound on the syscalls issued, exit_group excluded
  Faults         \* subset of {"child_first", "kill_mid_call", "chdir_fails"}

RootPid == PidOrder[1]

ASSUME PidOrder \in Seq(Pids) /\ Len(PidOrder) = Cardinality(Pids)
ASSUME RootCwd \in InitDirs /\ CmdPath.comps \in InitFiles
ASSUME Faults \subseteq {"child_first", "kill_mid_call", "chdir_fails"}

VARIABLES
  alive,      \* live traced pids
  used,       \* pids handed out so far
  kcwd,       \* pid -> the kernel's cwd (a normalised directory)
  fs,         \* pid -> the pid whose fs_struct (cwd) it uses
  inflight,   \* pid -> the syscall entered and not yet returned, or NoCall
  blocked,    \* children of an unfinished clone that may not run yet
  dirs,       \* existing directories
  files,      \* existing regular files
  steps,      \* syscalls issued so far
  log,        \* the strace log, a sequence of lines
  accessed,   \* ghost: normalised paths of completed successful file calls
  phase,      \* "trace", "parse" (parse_log running) or "done"
  pos,        \* lines consumed by on_line
  ctx         \* the Strace._Context record

kernelVars == <<alive, used, kcwd, fs, inflight, blocked, dirs, files, steps>>
vars == <<kernelVars, log, accessed, phase, pos, ctx>>

Idle == [call |-> NoCall, result |-> "none", targets |-> {}]

Line(type, p, fn, args, result, kc) ==
  [type |-> type, pid |-> p, fn |-> fn, args |-> args, result |-> result,
   kc |-> kc]

Calls ==
  {Call("chdir", a, NoArg, "none") : a \in ChdirArgs}
  \cup {Call("open", o.path, NoArg, o.flags) : o \in OpenArgs}
  \cup {Call("rename", r[1], r[2], "none") : r \in RenameArgs}
  \cup {Call("execve", a, NoArg, "none") : a \in ExecArgs}
  \cup ForkArgs

FreePids == {PidOrder[i] : i \in {j \in 1..Len(PidOrder) : PidOrder[j] \notin used}}
NextPid == PidOrder[CHOOSE i \in 1..Len(PidOrder) :
                      /\ PidOrder[i] \notin used
                      /\ \A j \in 1..(i-1) : PidOrder[j] \in used]

Runnable(p) == p \in alive /\ p \notin blocked /\ inflight[p] = Idle

-----------------------------------------------------------------------------
(* The traced program and strace.                                          *)

Init ==
  /\ alive = {RootPid}
  /\ used = {RootPid}
  /\ kcwd = [p \in Pids |-> IF p = RootPid THEN RootCwd ELSE <<>>]
  /\ fs = [p \in Pids |-> p]
  /\ inflight = [p \in Pids |-> Idle]
  /\ blocked = {}
  /\ dirs = InitDirs
  /\ files = InitFiles
  /\ steps = 0
  \* strace's first line: the tracee's own execve of the command.
  /\ log = << Line("header", RootPid, "execve",
                   Call("execve", CmdPath, NoArg, "none"), "0", RootCwd) >>
  /\ accessed = {CmdPath.comps}
  /\ phase = "trace"
  /\ pos = 0
  /\ ctx = InitContext

\* The syscall c enters: its effect happens now and strace writes the start
\* of its line.
Enter(p, c, result, targets) ==
  /\ inflight' = [inflight EXCEPT ![p] =
                    [call |-> c, result |-> result, targets |-> targets]]
  /\ log' = Append(log, Line("unfinished", p, c.fn, c, "none", kcwd[p]))
  /\ steps' = steps + 1

EnterChdir(p, c) ==
  LET t == Resolve(kcwd[p], c.p1, dirs)
      ok == t # NoPath /\ t \in dirs IN
  /\ c.fn = "chdir"
  /\ ok \/ "chdir_fails" \in Faults
  /\ Enter(p, c, IF ok THEN "0" ELSE "-1", {})
  \* every process sharing p's fs_struct moves with it
  /\ kcwd' = [q \in Pids |-> IF ok /\ fs[q] = fs[p] THEN t ELSE kcwd[q]]
  /\ UNCHANGED <<alive, used, fs, blocked, dirs, files>>

EnterOpen(p, c) ==
  LET t == Resolve(kcwd[p], c.p1, dirs)
      create == c.flags = "O_CREAT" /\ t # NoPath /\ t \notin files \cup dirs
      ok == \/ c.flags = "O_DIRECTORY" /\ t \in dirs
            \/ c.flags = "O_RDONLY" /\ t \in files \cup dirs
            \/ c.flags = "O_CREAT" /\ (t \in files \/ create) IN
  /\ c.fn = "open"
  /\ Enter(p, c, IF ok THEN "0" ELSE "-1",
           IF ok /\ c.flags # "O_DIRECTORY" THEN {t} ELSE {})
  /\ files' = IF create THEN files \cup {t} ELSE files
  /\ UNCHANGED <<alive, used, fs, kcwd, blocked, dirs>>

EnterRename(p, c) ==
  LET s == Resolve(kcwd[p], c.p1, dirs)
      d == Resolve(kcwd[p], c.p2, dirs)
      ok == s \in files /\ d # NoPath /\ d \notin dirs IN
  /\ c.fn = "rename"
  /\ Enter(p, c, IF ok THEN "0" ELSE "-1", IF ok THEN {s, d} ELSE {})
  /\ files' = IF ok THEN (files \ {s}) \cup {d} ELSE files
  /\ UNCHANGED <<alive, used, fs, kcwd, blocked, dirs>>

EnterExecve(p, c) ==
  LET t == Resolve(kcwd[p], c.p1, dirs)
      ok == t \in files IN
  /\ c.fn = "execve"
  /\ Enter(p, c, IF ok THEN "0" ELSE "-1", IF ok THEN {t} ELSE {})
  /\ UNCHANGED <<alive, used, fs, kcwd, blocked, dirs, files>>

\* clone(): a child with a copy of the cwd, or with the parent's fs_struct
\* itself under CLONE_FS, or ERESTARTNOINTR, or EAGAIN when no pid is left.
\* Unless "child_first", the child runs only once the parent's clone has
\* returned.  vfork(): the child runs first and the parent's call returns
\* once the child has gone (Return).
EnterClone(p, c) ==
  /\ c.fn \in {"clone", "vfork"}
  /\ \/ /\ FreePids # {}
        /\ LET ch == NextPid IN
           /\ Enter(p, c, ch, {})
           /\ alive' = alive \cup {ch}
           /\ used' = used \cup {ch}
           /\ kcwd' = [kcwd EXCEPT ![ch] = kcwd[p]]
           /\ fs' = [fs EXCEPT ![ch] = IF c.flags = "CLONE_FS" THEN fs[p]
                                       ELSE ch]
           /\ blocked' = IF "child_first" \in Faults \/ c.fn = "vfork"
                           THEN blocked ELSE blocked \cup {ch}
     \/ /\ Enter(p, c, "restart", {})
        /\ UNCHANGED <<alive, used, fs, kcwd, blocked>>
     \/ /\ FreePids = {}
        /\ Enter(p, c, "-1", {})
        /\ UNCHANGED <<alive, used, fs, kcwd, blocked>>
  /\ UNCHANGED <<dirs, files>>

\* exit_group() enters; it is not counted against MaxSteps.
EnterExitGroup(p) ==
  /\ inflight' = [inflight EXCEPT ![p] =
                    [call |-> Call("exit_group", NoArg, NoArg, "none"),
                     result |-> "?", targets |-> {}]]
  /\ log' = Append(log, Line("unfinished", p, "exit_group",
                             Call("exit_group", NoArg, NoArg, "none"),
                             "none", kcwd[p]))
  /\ UNCHANGED <<alive, used, fs, kcwd, blocked, dirs, files, steps>>

\* strace completes the line of p's call: in place if it is the last line,
\* else as a "<... fn resumed>" line.
Completed(p, result) ==
  LET n == Len(log) IN
  IF log[n].type = "unfinished" /\ log[n].pid = p
  THEN [log EXCEPT ![n] = [@ EXCEPT !.type = "header", !.result = result,
                                    !.kc = kcwd[p]]]
  ELSE Append(log, Line("resumed", p, inflight[p].call.fn, NoCall, result,
                        kcwd[p]))

\* The syscall of p returns.
Return(p) ==
  LET f == inflight[p] IN
  /\ p \in alive
  /\ f # Idle
  /\ f.call.fn = "vfork" => f.result \notin alive
  /\ inflight' = [inflight EXCEPT ![p] = Idle]
  /\ accessed' = accessed \cup f.targets
  /\ IF f.call.fn = "exit_group"
       THEN /\ alive' = alive \ {p}
            /\ UNCHANGED blocked
       ELSE /\ blocked' = IF f.call.fn = "clone" THEN blocked \ {f.result}
                          ELSE blocked
            /\ UNCHANGED alive
  /\ log' = Completed(p, f.result)
  /\ UNCHANGED <<used, fs, kcwd, dirs, files, steps>>

\* SIGKILL: "+++ killed by SIGKILL +++".  With "kill_mid_call" the pending
\* call is first completed as "= ? <unavailable>" (and counts as not done).
Kill(p) ==
  LET f == inflight[p]
      midCall == f # Idle IN
  /\ p \in alive /\ p \notin blocked
  /\ midCall => "kill_mid_call" \in Faults /\ f.call.fn # "exit_group"
  /\ alive' = alive \ {p}
  /\ blocked' = IF midCall /\ f.call.fn = "clone" THEN blocked \ {f.result}
                ELSE blocked
  /\ inflight' = [inflight EXCEPT ![p] = Idle]
  /\ UNCHANGED <<used, fs, kcwd, dirs, files, steps, accessed>>
  /\ log' = Append(IF midCall THEN Completed(p, "unavail") ELSE log,
                   Line("killed", p, "none", NoCall, "none", kcwd[p]))

\* unlink() and rmdir() are not in the traced set: no line is written.
Unlink(p, a) ==
  LET t == Resolve(kcwd[p], a, dirs) IN
  /\ Runnable(p) /\ steps < MaxSteps
  /\ t \in files
  /\ files' = files \ {t}
  /\ steps' = steps + 1
  /\ UNCHANGED <<alive, used, fs, kcwd, inflight, blocked, dirs, log, accessed>>

Rmdir(p, a) ==
  LET t == Resolve(kcwd[p], a, dirs) IN
  /\ Runnable(p) /\ steps < MaxSteps
  /\ t \in dirs /\ t # <<>>
  /\ \A e \in dirs \cup files : ~(IsPrefix(t, e) /\ e # t)
  /\ dirs' = dirs \ {t}
  /\ steps' = steps + 1
  /\ UNCHANGED <<alive, used, fs, kcwd, inflight, blocked, files, log, accessed>>

-----------------------------------------------------------------------------
(* Strace.gen_trace and Strace.parse_log.                                  *)

\* Mutant: gen_trace goes on once the first tracee has exited.
GenTraceDoneRootOnly ==
  /\ phase = "trace"
  /\ RootPid \notin alive
  /\ log' = << Line("header", log[1].pid, "chdir",
                    Call("chdir", Abs(RootCwd), NoArg, "none"), "0",
                    RootCwd) >> \o log
  /\ phase' = "parse"
  /\ UNCHANGED <<kernelVars, accessed, pos, ctx>>

\* gen_trace, once strace has returned: prepend a chdir() line for the pid
\* that starts the first line of the log.
GenTraceDone ==
  /\ phase = "trace"
  /\ alive = {}
  /\ log' = << Line("header", log[1].pid, "chdir",
                    Call("chdir", Abs(RootCwd), NoArg, "none"), "0",
                    RootCwd) >> \o log
  /\ phase' = "parse"
  /\ UNCHANGED <<kernelVars, accessed, pos, ctx>>

\* parse_log: context.on_line(line) for the next line of the file.
ParseLine ==
  /\ phase = "parse"
  /\ ctx.err = NoErr
  /\ pos < Len(log)
  /\ ctx' = OnLine(ctx, log[pos + 1], dirs, files, Pids)
  /\ pos' = pos + 1
  /\ UNCHANGED <<kernelVars, log, accessed, phase>>

\* The loop ends at the end of the file or with the exception on_line raised.
ParseDone ==
  /\ phase = "parse"
  /\ pos = Len(log) \/ ctx.err # NoErr
  /\ phase' = "done"
  /\ UNCHANGED <<kernelVars, log, accessed, pos, ctx>>

\* The process p issues one traced call.
Issue(p) ==
  /\ Runnable(p) /\ steps < MaxSteps
  /\ \E c \in Calls :
       \/ EnterChdir(p, c)
       \/ EnterOpen(p, c)
       \/ EnterRename(p, c)
       \/ EnterExecve(p, c)
       \/ EnterClone(p, c)
  /\ UNCHANGED <<accessed, phase, pos, ctx>>

ExitGroup(p) ==
  /\ Runnable(p)
  /\ EnterExitGroup(p)
  /\ UNCHANGED <<accessed, phase, pos, ctx>>

Tracee ==
  \E p \in Pids :
    \/ Issue(p)
    \/ ExitGroup(p)
    \/ Return(p) /\ UNCHANGED <<phase, pos, ctx>>
    \/ Kill(p) /\ UNCHANGED <<phase, pos, ctx>>
    \/ \E a \in UnlinkArgs : Unlink(p, a) /\ UNCHANGED <<phase, pos, ctx>>
    \/ \E a \in RmdirArgs : Rmdir(p, a) /\ UNCHANGED <<phase, pos, ctx>>

Next == Tracee \/ GenTraceDone \/ ParseLine \/ ParseDone

Spec == Init /\ [][Next]_vars

-----------------------------------------------------------------------------
(* Properties.                                                             *)

Names == Seq(STRING)

TypeOK ==
  /\ alive \subseteq Pids /\ used \subseteq Pids /\ blocked \subseteq alive
  /\ kcwd \in [Pids -> Names] /\ fs \in [Pids -> Pids]
  /\ dirs \subseteq Names /\ files \subseteq Names /\ accessed \subseteq Names
  /\ steps \in 0..MaxSteps
  /\ phase \in {"trace", "parse", "done"}
  /\ pos \in 0..Len(log)
  /\ DOMAIN ctx.cwd \subseteq Pids /\ \A q \in DOMAIN ctx.cwd : ctx.cwd[q] \in Names
  /\ DOMAIN ctx.pending \subseteq Pids \X STRING
  /\ ctx.files \subseteq Names /\ ctx.non_existent \subseteq Names
  /\ ctx.err \in {NoErr, "KeyError", "ValueError", "AssertionError"}

\* parse_log never raises on a log that strace wrote for a run of the traced
\* program: every pid a line names has a cwd (set by the injected chdir or
\* a clone) and every "<... resumed>" finds its stashed "<unfinished ...>".
ParseNeverAborts == ctx.err = NoErr

\* The cwd on_line keeps for the pid of the line it has just consumed names
\* the directory the kernel had as that pid's cwd when strace wrote the line
\* (handle_chdir joining, handle_clone copying, the injected chdir).
CwdReconstructed ==
  phase = "parse" /\ pos > 0 /\ ctx.err = NoErr =>
    LET r == log[pos] IN
    r.type # "killed" /\ r.pid \in DOMAIN ctx.cwd =>
      Normalize(ctx.cwd[r.pid]) = r.kc

\* What parse_log returns, after realpath, is exactly the set of files the
\* traced processes successfully touched with a traced call, less the
\* blacklisted ones: nothing is missed, nothing is invented.
AccessesReconstructed ==
  phase = "done" /\ ctx.err = NoErr =>
    LET res == ParseResult(ctx) IN
    res.existent \cup res.non_existent
      = {t \in accessed : ~Blacklisted(t)}

\* Spec sections 3 and 4.C: directories are never members of the result;
\* handle_open relies on the O_DIRECTORY flag to drop them.
NoDirectoriesInResult ==
  phase = "done" /\ ctx.err = NoErr =>
    LET res == ParseResult(ctx) IN
    \A t \in res.existent \cup res.non_existent : ~IsDir(t, dirs)

\* Spec section 8, invariant 1: the two sets parse_log returns are disjoint.
ResultsDisjoint ==
  phase = "done" /\ ctx.err = NoErr =>
    LET res == ParseResult(ctx) IN res.existent \cap res.non_existent = {}

(***************************************************************************)
(* The strace back-end implements AccessLog: the paths the traced         *)
(* processes reached accumulate until parse_log() returns, what it returns *)
(* (after realpath) is exactly their classification against the file     *)
(* system, less the blacklisted paths and the directories.  (Its liveness *)
(* part, that the report is made, is checked for dtrace; here the state   *)
(* space of four interleaved pids keeps to the safety part.)               *)
(***************************************************************************)
Ideal == INSTANCE AccessLog
           WITH IgnoredDirs <- {<<x>> : x \in Ignored},
                touched <- accessed,
                result <- IF phase = "done"
                            THEN [reported |-> TRUE] @@ ParseResult(ctx)
                            ELSE [reported |-> FALSE, existent |-> {},
                                  non_existent |-> {}]

ImplementsAccessLog == Ideal!Safety

=============================================================================
