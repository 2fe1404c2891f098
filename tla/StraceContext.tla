---------------------------- MODULE StraceContext ----------------------------
(***************************************************************************)
(* Strace._Context of tools/isolate/trace_inputs.py: the state machine     *)
(* that consumes one strace log line at a time, keeps the cwd of every     *)
(* traced pid, stitches "<unfinished ...>" / "<... resumed>" pairs and     *)
(* collects the files that were touched.                                   *)
(*                                                                         *)
(* The context is a record mirroring the Python object's fields:           *)
(*   cwd          pid -> path (self._cwd), an absolute, unnormalised       *)
(*                component sequence                                       *)
(*   pending      <<pid, fn>> -> stashed line (self._pending_calls)        *)
(*   files        paths classified as existing files (self.files)          *)
(*   non_existent the other paths (self.non_existent)                      *)
(*   err          "none", or the exception on_line raised; parse_log       *)
(*                does not catch it, so parsing stops there.               *)
(*                                                                         *)
(* A log line is the record a regular expression of on_line extracts:      *)
(*   [type |-> "header" | "unfinished" | "resumed" | "killed",             *)
(*    pid, fn, args |-> a Call record, result, kc]                         *)
(* where kc is a ghost field (the kernel's cwd of pid when the line was    *)
(* written) that the handlers never read.  Results are "0" (success),      *)
(* "-1" (failure), "?" (exit_group), "restart" ("? ERESTARTNOINTR"),       *)
(* "unavail" ("? <unavailable>") or, for clone, the child's pid.           *)
(***************************************************************************)
EXTENDS Paths, FiniteSets

CONSTANTS
  Ignored,       \* first path components of Strace.IGNORED ("/bin", "/usr", ...)
  NameStartsWith \* pairs <<name, prefix>> of distinct names where the string
                 \* name starts with the string prefix ("usrdata", "usr")

NoErr == "none"

\* A syscall as the kernel model issues it and a line carries it.
NoArg == Rel(<<>>)
Call(fn, p1, p2, flags) == [fn |-> fn, p1 |-> p1, p2 |-> p2, flags |-> flags]
NoCall == Call("none", NoArg, NoArg, "none")

EmptyFn == [x \in {} |-> NoErr]

InitContext ==
  [cwd |-> EmptyFn, pending |-> EmptyFn, files |-> {}, non_existent |-> {},
   err |-> NoErr]

Fail(c, e) == [c EXCEPT !.err = e]

\* blacklist() of trace_inputs(): f.startswith(api.IGNORED).  Every entry
\* is "/" and one name, so "/" + join(cs) starts with it when the first
\* name does, whether or not it is the whole name.
Blacklisted(cs) ==
  cs # <<>> /\ \E i \in Ignored : cs[1] = i \/ <<cs[1], i>> \in NameStartsWith

\* Strace._Context._handle_file.  dirs and fls are the file system that
\* os.path.isfile() sees while the log is parsed.
HandleFile(c, pid, p, result, dirs, fls) ==
  IF result = "-1" THEN c
  ELSE IF ~p.abs /\ pid \notin DOMAIN c.cwd THEN Fail(c, "KeyError")
  ELSE LET fp == Join(c.cwd[pid], p) IN
       IF Blacklisted(fp) \/ fp \in c.files \cup c.non_existent THEN c
       ELSE IF IsFile(fp, dirs, fls) THEN [c EXCEPT !.files = @ \cup {fp}]
       ELSE [c EXCEPT !.non_existent = @ \cup {fp}]

\* Mutant: every chdir is joined to the previous cwd, absolute or not.
HandleChdirAlwaysJoin(c, pid, a, result) ==
  IF result # "0" THEN Fail(c, "AssertionError")
  ELSE IF pid \notin DOMAIN c.cwd THEN Fail(c, "KeyError")
  ELSE [c EXCEPT !.cwd[pid] = @ \o a.comps]

\* Mutant: a relative chdir replaces the cwd instead of extending it.
HandleChdirNoJoin(c, pid, a, result) ==
  IF result # "0" THEN Fail(c, "AssertionError")
  ELSE [c EXCEPT !.cwd = (pid :> a.comps) @@ @]

\* handle_chdir: a relative path is joined to the pid's cwd, an absolute
\* one replaces it; a failed chdir trips the assert.
HandleChdir(c, pid, a, result) ==
  IF result # "0" THEN Fail(c, "AssertionError")
  ELSE IF a.abs THEN [c EXCEPT !.cwd = (pid :> a.comps) @@ @]
  ELSE IF pid \notin DOMAIN c.cwd THEN Fail(c, "KeyError")
  ELSE [c EXCEPT !.cwd[pid] = @ \o a.comps]

\* Mutant: the result is used as the child's pid without the
\* ERESTARTNOINTR test.
HandleCloneNoRestart(c, pid, result, Pids) ==
  IF pid \notin DOMAIN c.cwd THEN Fail(c, "KeyError")
  ELSE [c EXCEPT !.cwd = (result :> c.cwd[pid]) @@ @]

\* handle_clone: the child inherits the parent's cwd.  Python evaluates
\* self._cwd[pid] before int(result).
HandleClone(c, pid, result, Pids) ==
  IF result = "restart" THEN c
  ELSE IF pid \notin DOMAIN c.cwd THEN Fail(c, "KeyError")
  ELSE IF result \notin Pids THEN Fail(c, "ValueError")
  ELSE [c EXCEPT !.cwd = (result :> c.cwd[pid]) @@ @]

\* handle_exit_group (also called for "+++ killed by SIG... +++").
HandleExitGroup(c, pid) ==
  IF pid \notin DOMAIN c.cwd THEN Fail(c, "KeyError")
  ELSE [c EXCEPT !.cwd = Restrict(@, DOMAIN @ \ {pid})]

\* handle_open: the literal O_DIRECTORY flag drops the call.
HandleOpen(c, pid, a, result, dirs, fls) ==
  IF a.flags = "O_DIRECTORY" THEN c
  ELSE HandleFile(c, pid, a.p1, result, dirs, fls)

\* handle_rename: both names, with the call's single result.
HandleRename(c, pid, a, result, dirs, fls) ==
  LET c1 == HandleFile(c, pid, a.p1, result, dirs, fls) IN
  IF c1.err # NoErr THEN c1 ELSE HandleFile(c1, pid, a.p2, result, dirs, fls)

\* getattr(self, 'handle_%s' % fn)(...) on a complete line.
Dispatch(c, r, dirs, fls, Pids) ==
  CASE r.fn = "chdir"      -> HandleChdir(c, r.pid, r.args.p1, r.result)
    [] r.fn = "clone"      -> HandleClone(c, r.pid, r.result, Pids)
    [] r.fn = "execve"     -> HandleFile(c, r.pid, r.args.p1, r.result, dirs, fls)
    [] r.fn = "exit_group" -> HandleExitGroup(c, r.pid)
    [] r.fn = "open"       -> HandleOpen(c, r.pid, r.args, r.result, dirs, fls)
    [] r.fn = "rename"     -> HandleRename(c, r.pid, r.args, r.result, dirs, fls)
    [] OTHER               -> Fail(c, "AssertionError") \* fork, vfork, stat64

(***************************************************************************)
(* on_line.  Signal lines are not produced by the kernel model.  The       *)
(* RE_UNAVAILABLE test never fires: it is applied with re.match, which     *)
(* anchors at the start of the line, and every line starts with the pid,   *)
(* while the pattern starts with "\)".  A "? <unavailable>" line is       *)
(* therefore stitched and dispatched like any other.                       *)
(***************************************************************************)
OnLine(c, r, dirs, fls, Pids) ==
  LET key == <<r.pid, r.fn>> IN
  CASE r.type = "killed" -> HandleExitGroup(c, r.pid)
    [] r.type = "unfinished" -> [c EXCEPT !.pending = (key :> r) @@ @]
    [] r.type = "resumed" ->
         IF key \notin DOMAIN c.pending THEN Fail(c, "KeyError")
         ELSE Dispatch([c EXCEPT !.pending = Restrict(@, DOMAIN @ \ {key})],
                       [c.pending[key] EXCEPT !.type = "header",
                                              !.result = r.result],
                       dirs, fls, Pids)
    [] r.type = "header" -> Dispatch(c, r, dirs, fls, Pids)

\* The two sets parse_log returns: every path passed through realpath.
ParseResult(c) ==
  [existent     |-> {Normalize(f) : f \in c.files},
   non_existent |-> {Normalize(f) : f \in c.non_existent}]

=============================================================================
