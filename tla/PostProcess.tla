----------------------------- MODULE PostProcess -----------------------------
(***************************************************************************)
(* The post-processing of trace_inputs(): relevant_files(),                *)
(* extract_directories(), and, with -c, the rebasing of every entry        *)
(* against cwd_dir and product_dir (cleanuppath, fix, posix_relpath) and   *)
(* the tracked / untracked split.                                          *)
(*                                                                         *)
(* Paths are component sequences (Paths.tla).  An entry of the lists the   *)
(* code builds is [p |-> comps, dir |-> BOOLEAN]: the string "a/g" is      *)
(* [p |-> <<"a","g">>, dir |-> FALSE], the directory entry "a/" is         *)
(* [p |-> <<"a">>, dir |-> TRUE], and the entry "" + os.path.sep that      *)
(* extract_directories() writes for the root itself is the absolute path   *)
(* "/", [p |-> <<>>, dir |-> TRUE].                                        *)
(***************************************************************************)
EXTENDS Paths, FiniteSets, PrettyPrint

CONSTANTS
  Root,          \* root_dir after realpath, as components
  Trees,         \* candidate file systems [dirs, files], absolute components
  Excluded,      \* names ending with ".svn" or ".pyc"
  Spaced,        \* names containing a space
  CwdDirs,       \* values of -c (cwd_dir), relative components; <<".">> is "."
  ProductDirs,   \* values of -p (product_dir), relative components
  ProcCwd,       \* os.getcwd() of the tool, as absolute components
  Flavor,        \* get_flavor(), the OS name the condition is written for
  Spelling       \* name -> its pieces, for the names that hold a quote or a
                 \* backslash (PrettyPrint.tla); any other name is one piece

VARIABLES
  fs,            \* the file system the trace ran against
  existent,      \* the existent files parse_log() returned
  cwdDir,        \* cwd_dir as given
  productDir,    \* product_dir as given
  phase,         \* "parsed" or "done"
  simplified,    \* extract_directories(expected, root_dir)
  tracked,       \* the isolate_dependency_tracked list
  untracked,     \* the isolate_dependency_untracked list
  out            \* the text pretty_print() wrote to stdout

vars == <<fs, existent, cwdDir, productDir, phase, simplified, tracked,
          untracked, out>>

Product == "<(PRODUCT_DIR)"
Dot == "."
RootEntry == [p |-> <<>>, dir |-> TRUE]

\* The names os.listdir(d) returns.
Listdir(t, d) == {Last(x) : x \in {y \in t.dirs \cup t.files :
                                     y # <<>> /\ Front(y) = d}}

\* What parse_log() can return: files blacklist() lets through (the
\* "/.svn/" test and the ".pyc" suffix).
Traceable(t) == {f \in t.files : \A i \in DOMAIN f : f[i] \notin Excluded}

\* Mutant: f[len(root):] is forgotten, the path stays absolute.
RelevantFilesNoStrip(files, root) ==
  [expected   |-> {f \in files : IsPrefix(root, f)},
   unexpected |-> {f \in files : ~IsPrefix(root, f)}]

\* relevant_files(files, root + "/"): a prefix test on the string with a
\* trailing separator is a prefix test on components.
RelevantFiles(files, root) ==
  [expected   |-> {SubSeq(f, Len(root) + 1, Len(f)) :
                     f \in {g \in files : IsPrefix(root, g)}},
   unexpected |-> {f \in files : ~IsPrefix(root, f)}]

(***************************************************************************)
(* One iteration of extract_directories() for directory d: actual is the   *)
(* listing of root/d joined to d, without the excluded names; when all of  *)
(* it is in files it is replaced by the entry d + "/".                     *)
(***************************************************************************)
\* Mutant: only the regular files of the listing are compared.
CollapseFilesOnly(t, root, files, d) ==
  LET actual == {[p |-> d \o <<n>>, dir |-> FALSE] :
                   n \in {m \in Listdir(t, root \o d) \ Excluded :
                            root \o d \o <<m>> \in t.files}} IN
  IF actual \subseteq files
    THEN (files \ actual) \cup {[p |-> d, dir |-> TRUE]}
    ELSE files

\* Mutant: the directory entry is never added.
CollapseNoAdd(t, root, files, d) ==
  LET actual == {[p |-> d \o <<n>>, dir |-> FALSE] :
                   n \in Listdir(t, root \o d) \ Excluded} IN
  IF actual \subseteq files THEN files \ actual ELSE files

Collapse(t, root, files, d) ==
  LET actual == {[p |-> d \o <<n>>, dir |-> FALSE] :
                   n \in Listdir(t, root \o d) \ Excluded} IN
  IF actual \subseteq files
    THEN (files \ actual) \cup {[p |-> d, dir |-> TRUE]}
    ELSE files

(***************************************************************************)
(* extract_directories(files, root): the directories are visited in        *)
(* reverse sorted order, which puts every directory before its ancestors;  *)
(* deeper first is the same order on every pair that matters, since an     *)
(* iteration only touches the direct entries of its own directory.         *)
(***************************************************************************)
ExtractDirectories(t, root, files) ==
  LET ds == SetToSortSeq({Front(f) : f \in files},
                         LAMBDA a, b : Len(a) > Len(b))
      Step(acc, d) == Collapse(t, root, acc, d) IN
  FoldLeft(Step, {[p |-> f, dir |-> FALSE] : f \in files}, ds)

\* cleanuppath: strip the trailing separator, "." becomes "", and a
\* non-empty result gets one trailing "/".
CleanupPath(x) == IF x = <<Dot>> THEN <<>> ELSE x

\* posixpath.relpath(path, start): both made absolute against os.getcwd()
\* (lexically), then ".." up to the common prefix and down again; "." when
\* they are equal.
RelPath(a, s) ==
  LET k == Len(LongestCommonPrefix({a, s}))
      r == [i \in 1..(Len(s) - k) |-> Up] \o SubSeq(a, k + 1, Len(a)) IN
  IF r = <<>> THEN <<Dot>> ELSE r

AbsEntry(e) == IF e = RootEntry THEN <<>> ELSE Normalize(ProcCwd \o e.p)

\* Mutant: posixpath.relpath() alone, the trailing slash is lost.
PosixRelpathNoSlash(e, root) ==
  [p |-> RelPath(AbsEntry(e), Normalize(ProcCwd \o root)), dir |-> FALSE]

\* posix_relpath(path, root): relpath() that keeps a trailing slash.
PosixRelpath(e, root) ==
  [p |-> RelPath(AbsEntry(e), Normalize(ProcCwd \o root)), dir |-> e.dir]

\* fix(f): under product_dir the entry is rebased on <(PRODUCT_DIR);
\* otherwise made relative to cwd_dir ("posix_relpath(f, cwd_dir) or
\* './'", whose second operand is never used: relpath never returns "").
Fix(f, cwd, product) ==
  IF product # <<>> /\ IsPrefix(product, f.p) /\ (f.dir \/ f.p # product)
    THEN [p |-> <<Product>> \o SubSeq(f.p, Len(product) + 1, Len(f.p)),
          dir |-> f.dir]
    ELSE PosixRelpath(f, cwd)

HasSpace(g) == \E i \in DOMAIN g.p : g.p[i] \in Spaced

\* The pieces of a name, and of an entry written as a string: its
\* components joined with "/", a trailing "/" for a directory.
Spell(n) == IF n \in DOMAIN Spelling THEN Spelling[n] ELSE <<n>>
EntryText(g) ==
  FlattenSeq([i \in DOMAIN g.p |-> (IF i = 1 THEN <<>> ELSE <<"/">>) \o Spell(g.p[i])])
  \o (IF g.dir THEN <<"/">> ELSE <<>>)

\* A list of the entries as Python strings; sorted() orders it, an order
\* no property here depends on.
EntryList(s) == LET sq == SetToSeq(s) IN Lst([i \in DOMAIN sq |-> Str(EntryText(sq[i]))])

\* The value trace_inputs() prints: a key of variables only for a
\* non-empty list, inside [['OS=="<flavor>"', {'variables': ...}]].
Value(tr, un) ==
  LET vs == (IF tr # {} THEN <<"isolate_dependency_tracked">> :> EntryList(tr) ELSE NoFn)
            @@ (IF un # {} THEN <<"isolate_dependency_untracked">> :> EntryList(un) ELSE NoFn)
  IN Dct(<<"conditions">> :>
           Lst(<<Lst(<<Str(<<"OS==\"" \o Flavor \o "\"">>),
                       Dct(<<"variables">> :> Dct(vs))>>)>>))

Init ==
  /\ fs \in Trees
  /\ existent \in SUBSET Traceable(fs)
  /\ cwdDir \in CwdDirs
  /\ productDir \in ProductDirs
  /\ phase = "parsed"
  /\ simplified = {}
  /\ tracked = {}
  /\ untracked = {}
  /\ out = <<>>

(***************************************************************************)
(* trace_inputs() after parse_log(): relevant_files against root_dir +     *)
(* "/", extract_directories on the expected files, cleanuppath of both     *)
(* directories, fix() of every entry, the split of the result, and        *)
(* pretty_print() of the value built from it.                              *)
(***************************************************************************)
PostProcess ==
  /\ phase = "parsed"
  /\ LET expected == RelevantFiles(existent, Root).expected
         simp == ExtractDirectories(fs, Root, expected)
         corrected == {Fix(f, CleanupPath(cwdDir), CleanupPath(productDir)) :
                         f \in simp}
         tr == {g \in corrected : ~g.dir /\ ~HasSpace(g)}
         un == {g \in corrected : g.dir \/ HasSpace(g)} IN
     /\ simplified' = simp
     /\ tracked' = tr
     /\ untracked' = un
     /\ out' = PrettyPrint(Value(tr, un))
  /\ phase' = "done"
  /\ UNCHANGED <<fs, existent, cwdDir, productDir>>

Next == PostProcess

Spec == Init /\ [][Next]_vars

-----------------------------------------------------------------------------

Names == UNION {{f[i] : i \in DOMAIN f} : f \in UNION {t.files : t \in Trees}}
Entry == [p : Seq(Names \ {Root[Len(Root)]}), dir : BOOLEAN]

\* simplified holds paths relative to root_dir, made of the tree's names.
TypeOK ==
  /\ fs \in Trees
  /\ existent \subseteq Traceable(fs)
  /\ phase \in {"parsed", "done"}
  /\ simplified \subseteq Entry

\* Reference definitions: the file below root that an entry names, and
\* lexical normalisation of a path relative to root_dir that keeps the
\* ".." it cannot resolve.
RECURSIVE NormRelFrom(_, _)
NormRelFrom(acc, cs) ==
  IF cs = <<>> THEN acc
  ELSE NormRelFrom(CASE Head(cs) = Dot -> acc
                     [] Head(cs) = Up /\ acc # <<>> /\ Last(acc) # Up -> Front(acc)
                     [] OTHER -> Append(acc, Head(cs)),
                   Tail(cs))

\* An output entry read back the way the .isolate consumer reads it: a
\* <(PRODUCT_DIR) entry below product_dir, any other below cwd_dir.
ReadBack(g) ==
  IF g.p # <<>> /\ g.p[1] = Product
    THEN [p |-> CleanupPath(productDir) \o Tail(g.p), dir |-> g.dir]
    ELSE [p |-> NormRelFrom(<<>>, CleanupPath(cwdDir) \o g.p), dir |-> g.dir]

Expected == RelevantFiles(existent, Root).expected

\* Files below root_dir that the traceable tree holds under directory d,
\* at any depth, with no excluded name on the way.
FilesUnder(d) == {SubSeq(f, Len(Root) + 1, Len(f)) :
                    f \in {g \in Traceable(fs) : IsPrefix(Root \o d, g)}}

\* Spec section 8, invariant 3: a directory entry of extract_directories()
\* stands only for a directory every non-excluded entry of which was in
\* the traced set.
CollapsedDirsFullyAccessed ==
  phase = "done" =>
    \A e \in simplified : e.dir =>
      \A n \in Listdir(fs, Root \o e.p) \ Excluded : e.p \o <<n>> \in Expected

\* Spec section 4.D: the simplified list covers the same files as the
\* expected list: every expected file is listed or its own directory is
\* listed (no ancestor collapses, see MaximalCollapse), and every listed
\* file was expected.
InputsCovered ==
  phase = "done" =>
    /\ \A f \in Expected :
         [p |-> f, dir |-> FALSE] \in simplified
         \/ [p |-> Front(f), dir |-> TRUE] \in simplified
    /\ \A e \in simplified : ~e.dir => e.p \in Expected

\* Spec section 8, invariant 4 and section 4.D step 3: read back from
\* cwd_dir (or product_dir), every output entry names the simplified
\* entry it was made from, trailing slash included; the root's own
\* entry "/" is left to RootEntryResolves.
RebasedPathsResolve ==
  phase = "done" =>
    \A f \in simplified \ {RootEntry} :
      \E g \in tracked \cup untracked : ReadBack(g) = f

\* The same for the entry "/" that extract_directories() writes when
\* every file directly under root_dir was traced: it should read back as
\* root_dir itself.
RootEntryResolves ==
  phase = "done" /\ RootEntry \in simplified =>
    \E g \in tracked \cup untracked : ReadBack(g) = [p |-> <<>>, dir |-> TRUE]

\* Spec section 4.D: directories are visited deepest first "to ensure
\* child directories are considered before their parents", so a
\* directory whose every non-excluded file, at any depth, was traced is
\* listed as one directory entry (or lies in one).
MaximalCollapse ==
  phase = "done" =>
    \A d \in {Front(f) : f \in Expected} :
      FilesUnder(d) \subseteq Expected =>
        \E e \in simplified : e.dir /\ IsPrefix(e.p, d)

\* pretty_print() is meant to write "a gyp compatible list": the text it
\* wrote, read as a Python literal (what gyp and the isolate tools do
\* with a .isolate file), is the value trace_inputs() built from the
\* tracked and untracked lists, every file name intact.
PrintedValueReadsBack ==
  phase = "done" =>
    LET r == ReadLiteral(out) IN r.ok /\ r.v = Value(tracked, untracked)

====
