---------------------------- MODULE DtraceContext ----------------------------
(***************************************************************************)
(* Dtrace._Context of tools/isolate/trace_inputs.py: the state machine     *)
(* that consumes the sorted dtrace log one line at a time.                 *)
(*                                                                         *)
(* The context mirrors the Python object:                                  *)
(*   cwd          pid -> path (self._cwd), absolute, unnormalised          *)
(*   files        normalised paths found to be files (self.files)          *)
(*   non_existent the other paths (self.non_existent)                      *)
(*   err          "none", or the exception on_line raised; parse_log does  *)
(*                not catch it, so parsing stops there.                    *)
(*                                                                         *)
(* A line "logindex ppid:pid fn(args) = result" is the record RE_HEADER    *)
(* and the argument expressions extract:                                   *)
(*   [idx, ppid, pid, fn, p1, p2 (paths), dirflag, result, seq]            *)
(* dirflag is flag & O_DIRECTORY = O_DIRECTORY for open lines; result is  *)
(* the errno dtrace printed ("0", "2" ENOENT, "21" EISDIR); seq is a      *)
(* ghost that tells two lines with equal text apart.                       *)
(***************************************************************************)
EXTENDS Paths, FiniteSets, Functions

CONSTANTS
  Ignored   \* first path components of Dtrace.IGNORED ("/usr", "/tmp", ...)

NoErr == "none"

InitContext ==
  [cwd |-> [x \in {} |-> <<>>], files |-> {}, non_existent |-> {},
   err |-> NoErr]

Fail(c, e) == [c EXCEPT !.err = e]

\* blacklist() of trace_inputs(), at the granularity of whole components.
Blacklisted(cs) == cs # <<>> /\ cs[1] \in Ignored

\* handle_proc_start: the child inherits the cwd of the parent the line names.
HandleProcStart(c, ppid, pid, result) ==
  IF result # "0" THEN Fail(c, "AssertionError")
  ELSE IF ppid \notin DOMAIN c.cwd THEN Fail(c, "KeyError")
  ELSE [c EXCEPT !.cwd = (pid :> c.cwd[ppid]) @@ @]

\* handle_proc_exit: del self._cwd[pid].
HandleProcExit(c, pid) ==
  IF pid \notin DOMAIN c.cwd THEN Fail(c, "KeyError")
  ELSE [c EXCEPT !.cwd = Restrict(@, DOMAIN @ \ {pid})]

\* handle_chdir: result.startswith('0') or the assert fails; a relative
\* path is joined to the pid's cwd, an absolute one replaces it.
HandleChdir(c, pid, a, result) ==
  IF result # "0" THEN Fail(c, "AssertionError")
  ELSE IF a.abs THEN [c EXCEPT !.cwd = (pid :> a.comps) @@ @]
  ELSE IF pid \notin DOMAIN c.cwd THEN Fail(c, "KeyError")
  ELSE [c EXCEPT !.cwd[pid] = @ \o a.comps]

\* Mutant: the isdir() filter is dropped.
HandleFileNoIsdir(c, pid, p, result, dirs, fls) ==
  IF result \in {"2", "21"} THEN c
  ELSE IF ~p.abs /\ pid \notin DOMAIN c.cwd THEN Fail(c, "KeyError")
  ELSE LET fp == Normalize(Join(c.cwd[pid], p)) IN
       IF Blacklisted(fp) \/ fp \in c.files \cup c.non_existent THEN c
       ELSE IF IsFile(fp, dirs, fls) THEN [c EXCEPT !.files = @ \cup {fp}]
       ELSE [c EXCEPT !.non_existent = @ \cup {fp}]

(***************************************************************************)
(* _handle_file: results starting with "-1" or "2" are skipped (the model's *)
(* errnos are "0", "2" and "21"); the path is joined to the cwd,            *)
(* normpath'ed, blacklisted, and classified unless it is already known or  *)
(* is a directory.  dirs and fls are the file system as parse_log sees it. *)
(***************************************************************************)
HandleFile(c, pid, p, result, dirs, fls) ==
  IF result \in {"2", "21"} THEN c
  ELSE IF ~p.abs /\ pid \notin DOMAIN c.cwd THEN Fail(c, "KeyError")
  ELSE LET fp == Normalize(Join(c.cwd[pid], p)) IN
       IF Blacklisted(fp) \/ fp \in c.files \cup c.non_existent
          \/ IsDir(fp, dirs) THEN c
       ELSE IF IsFile(fp, dirs, fls) THEN [c EXCEPT !.files = @ \cup {fp}]
       ELSE [c EXCEPT !.non_existent = @ \cup {fp}]

\* handle_open (and handle_open_nocancel): O_DIRECTORY opens are dropped.
HandleOpen(c, r, dirs, fls) ==
  IF r.dirflag THEN c ELSE HandleFile(c, r.pid, r.p1, r.result, dirs, fls)

\* handle_rename: both names, with the call's single errno.
HandleRename(c, r, dirs, fls) ==
  LET c1 == HandleFile(c, r.pid, r.p1, r.result, dirs, fls) IN
  IF c1.err # NoErr THEN c1 ELSE HandleFile(c1, r.pid, r.p2, r.result, dirs, fls)

\* on_line: getattr(self, 'handle_' + fn, self._handle_ignored)(...).
OnLine(c, r, dirs, fls) ==
  CASE r.fn = "proc_start"              -> HandleProcStart(c, r.ppid, r.pid, r.result)
    [] r.fn = "proc_exit"               -> HandleProcExit(c, r.pid)
    [] r.fn = "chdir"                   -> HandleChdir(c, r.pid, r.p1, r.result)
    [] r.fn \in {"open", "open_nocancel"} -> HandleOpen(c, r, dirs, fls)
    [] r.fn = "rename"                  -> HandleRename(c, r, dirs, fls)
    [] OTHER                            -> c  \* dtrace_BEGIN, _handle_ignored

====
