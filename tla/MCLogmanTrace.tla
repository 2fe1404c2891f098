---------------------------- MODULE MCLogmanTrace ----------------------------
(***************************************************************************)
(* Instances of LogmanTrace for TLC.                                       *)
(*                                                                         *)
(* The root <<>> stands for the namespace that holds the drives.          *)
(* Two volumes: C: is \Device\HarddiskVolume2, D: \Device\HarddiskVolume3. *)
(* c:\r holds the file f, c:\windows (blacklisted, as %SystemRoot%) holds *)
(* k.dll, and d:\x is a file on the second volume.                         *)
(***************************************************************************)
EXTENDS LogmanTrace

CONSTANTS t1, t2, t3, us, lmstart, lmstop, other, nopid

MCTreePids == {t1, t2, t3}
MCPidOrder == <<t1, t2, t3>>

MCMounts == ("c:" :> "harddiskvolume2") @@ ("d:" :> "harddiskvolume3")
MCIgnored == {<<"c:", "windows">>}
MCInitDirs == {<<>>, <<"c:">>, <<"c:", "r">>, <<"c:", "windows">>, <<"d:">>}
MCInitFiles ==
  {<<"c:", "r", "f">>, <<"c:", "windows", "k.dll">>, <<"d:", "x">>}

\* A read, a directory, a created file, a blacklisted file and a file on
\* the second volume.
MCOpenArgs ==
  {[path |-> <<"c:", "r", "f">>, create |-> FALSE],
   [path |-> <<"c:", "r">>, create |-> FALSE],
   [path |-> <<"c:", "r", "n">>, create |-> TRUE],
   [path |-> <<"c:", "windows", "k.dll">>, create |-> FALSE],
   [path |-> <<"d:", "x">>, create |-> FALSE]}

=============================================================================
