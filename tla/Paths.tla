------------------------------- MODULE Paths -------------------------------
(***************************************************************************)
(* Paths as the tracer and the parser see them.                            *)
(*                                                                         *)
(* A path is a record [abs |-> BOOLEAN, comps |-> <<c1, ..., cn>>]: the    *)
(* string "/r/d/../g" is [abs |-> TRUE, comps |-> <<"r","d","..","g">>]   *)
(* and "d/g" is [abs |-> FALSE, comps |-> <<"d","g">>].  An absolute       *)
(* location in the file system (a kernel cwd, a normalised file name) is   *)
(* just its component sequence, the root being <<>>.                       *)
(*                                                                         *)
(* These operators give the semantics of the library and kernel calls the *)
(* code relies on: os.path.join of a relative path, os.path.realpath (no   *)
(* symbolic links are modelled, so it is lexical normalisation) and the    *)
(* kernel's path walk behind open(), chdir() and os.path.isfile().         *)
(***************************************************************************)
EXTENDS Sequences, SequencesExt

Up == ".."

\* Sentinel returned by a walk that hits a missing directory (ENOENT).
NoPath == <<"ENOENT">>

Abs(cs) == [abs |-> TRUE, comps |-> cs]
Rel(cs) == [abs |-> FALSE, comps |-> cs]

\* The parent directory; the parent of the root is the root.
Parent(d) == IF d = <<>> THEN <<>> ELSE Front(d)

\* os.path.join(base, p) for an absolute base: an absolute p replaces base.
Join(base, p) == IF p.abs THEN p.comps ELSE base \o p.comps

\* os.path.realpath / os.path.normpath of an absolute path without symbolic
\* links: ".." removes the previous component, lexically.
RECURSIVE NormFrom(_, _)
NormFrom(acc, cs) ==
  IF cs = <<>> THEN acc
  ELSE NormFrom(IF Head(cs) = Up THEN Parent(acc) ELSE Append(acc, Head(cs)),
                Tail(cs))

Normalize(cs) == NormFrom(<<>>, cs)

(***************************************************************************)
(* The kernel's lookup of the components cs starting from directory cur,   *)
(* given the set of existing directories.  A name is looked up in cur, so  *)
(* cur must still exist, and a name followed by more components must be   *)
(* an existing directory; ".." moves to the parent even from a removed     *)
(* directory.  The last component is returned without checking that it    *)
(* exists: the caller decides what a missing or wrong-type target means.  *)
(***************************************************************************)
RECURSIVE Walk(_, _, _)
Walk(cur, cs, dirs) ==
  IF cs = <<>> THEN cur
  ELSE IF Head(cs) = Up THEN Walk(Parent(cur), Tail(cs), dirs)
  ELSE IF cur \notin dirs THEN NoPath
  ELSE IF Tail(cs) = <<>> THEN Append(cur, Head(cs))
  ELSE IF Append(cur, Head(cs)) \notin dirs THEN NoPath
  ELSE Walk(Append(cur, Head(cs)), Tail(cs), dirs)

\* Resolution of a syscall path argument p by a process whose cwd is cwd.
Resolve(cwd, p, dirs) == Walk(IF p.abs THEN <<>> ELSE cwd, p.comps, dirs)

\* os.path.isfile(cs) for an absolute path cs (stat() then S_ISREG).
IsFile(cs, dirs, files) ==
  LET t == Walk(<<>>, cs, dirs) IN t # NoPath /\ t \in files

\* os.path.isdir(cs) for an absolute path cs.
IsDir(cs, dirs) ==
  LET t == Walk(<<>>, cs, dirs) IN t # NoPath /\ t \in dirs

=============================================================================
