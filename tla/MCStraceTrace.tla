---------------------------- MODULE MCStraceTrace ----------------------------
(***************************************************************************)
(* Instances of StraceTrace for TLC.                                       *)
(*                                                                         *)
(* File system: /r is root_dir (the tracee's cwd), /r/d a sub-directory,  *)
(* /r/f and /r/d/g files, /t an ignored top-level directory holding the    *)
(* command /t/x.                                                           *)
(***************************************************************************)
EXTENDS StraceTrace

CONSTANTS p1, p2, p3, p4

MCPids == {p1, p2, p3, p4}
MCPidOrder == <<p1, p2, p3, p4>>

MCIgnored == {"t"}
\* No name here starts with "t" but "t" itself.
MCNameStartsWith == {}
MCInitDirs == {<<>>, <<"r">>, <<"r", "d">>, <<"t">>}
MCInitFiles == {<<"r", "f">>, <<"r", "d", "g">>, <<"t", "x">>}
MCRootCwd == <<"r">>
MCCmdPath == Abs(<<"t", "x">>)

\* chdir into the sub-directory, up, and back by absolute path.
MCChdirArgs == {Rel(<<"d">>), Rel(<<"..">>)}
\* Relative reads that resolve differently per cwd, a directory opened with
\* and without O_DIRECTORY, a file created, an ignored absolute path.
MCOpenArgs ==
  {[path |-> Rel(<<"g">>), flags |-> "O_RDONLY"],
   [path |-> Rel(<<"d">>), flags |-> "O_DIRECTORY"],
   [path |-> Rel(<<"n">>), flags |-> "O_CREAT"]}
MCRenameArgs == {<<Rel(<<"n">>), Rel(<<"m">>)>>}
MCExecArgs == {Rel(<<"f">>)}
MCUnlinkArgs == {Rel(<<"m">>)}
MCRmdirArgs == {}
\* A process forks with a copy of its cwd.
MCForkArgs == {Call("clone", NoArg, NoArg, "none")}

\* Further inputs that reproduce the hazards the README lists:
\* clone(CLONE_FS), whose child shares the parent's cwd ...
MCShareFsForkArgs == MCForkArgs \cup {Call("clone", NoArg, NoArg, "CLONE_FS")}
\* ... vfork(), as posix_spawn() issues it ...
MCVforkForkArgs == MCForkArgs \cup {Call("vfork", NoArg, NoArg, "none")}
\* ... and a top-level /tx, whose name starts with the ignored "t".
MCTxNameStartsWith == {<<"tx", "t">>}
MCTxInitDirs == MCInitDirs \cup {<<"tx">>}
MCTxInitFiles == MCInitFiles \cup {<<"tx", "y">>}
MCTxOpenArgs == MCOpenArgs \cup {[path |-> Abs(<<"tx", "y">>), flags |-> "O_RDONLY"]}

\* The ".." case: a path through a directory that is removed before
\* parse_log runs.
MCDotDotOpenArgs ==
  {[path |-> Rel(<<"d", "..", "f">>), flags |-> "O_RDONLY"],
   [path |-> Rel(<<"f">>), flags |-> "O_RDONLY"]}
MCDotDotUnlinkArgs == {Rel(<<"d", "g">>)}
MCDotDotRmdirArgs == {Rel(<<"d">>)}
MCNone == {}
\* A directory opened without O_DIRECTORY, as open(".", O_RDONLY) does.
MCOpenDirArgs == {[path |-> Rel(<<"d">>), flags |-> "O_RDONLY"]}

\* One process suffices here.
MCOnePid == {p1}
MCOnePidOrder == <<p1>>

=============================================================================
