---------------------------- MODULE MCDtraceTrace ----------------------------
(***************************************************************************)
(* Instances of DtraceTrace for TLC.                                       *)
(*                                                                         *)
(* File system: /r is the helper's cwd, /r/d a sub-directory, /r/f and     *)
(* /r/d/g files, /usr an ignored top-level directory holding /usr/l.       *)
(***************************************************************************)
EXTENDS DtraceTrace

CONSTANTS p1, p2, p3, launchd, dtrace

MCPids == {p1, p2, p3}
MCPidOrder == <<p1, p2, p3>>

MCIgnored == {"usr"}
MCInitDirs == {<<>>, <<"r">>, <<"r", "d">>, <<"usr">>}
MCInitFiles == {<<"r", "f">>, <<"r", "d", "g">>, <<"usr", "l">>}
MCRootCwd == <<"r">>

\* chdir into the sub-directory and back up.
MCChdirArgs == {Rel(<<"d">>), Rel(<<"..">>)}
\* A relative read that resolves differently per cwd, a directory opened
\* with and without O_DIRECTORY (as the open_nocancel(".", 0, 0) of the
\* code's comment), a created file and an ignored absolute path.
MCOpenArgs ==
  {[fn |-> "open", path |-> Rel(<<"g">>), flags |-> "O_RDONLY"],
   [fn |-> "open", path |-> Rel(<<"d">>), flags |-> "O_DIRECTORY"],
   [fn |-> "open_nocancel", path |-> Rel(<<"d">>), flags |-> "O_RDONLY"],
   [fn |-> "open", path |-> Rel(<<"n">>), flags |-> "O_CREAT"],
   [fn |-> "open", path |-> Abs(<<"usr", "l">>), flags |-> "O_RDONLY"]}
\* A rename that works once n exists, and fails with ENOENT before.
MCRenameArgs == {<<Rel(<<"n">>), Rel(<<"m">>)>>}

=============================================================================
