----------------------------- MODULE PrettyPrint -----------------------------
(***************************************************************************)
(* pretty_print() of tools/isolate/trace_inputs.py: the writer of the     *)
(* gyp-style value trace_inputs() prints, and, as the reference it is     *)
(* checked against, the way Python reads that text back as a literal.     *)
(*                                                                         *)
(* Text is a sequence of pieces.  The pieces that matter to Python's      *)
(* lexer are single characters: the quote "'", the backslash "\\", the    *)
(* newline "\n", the blanks " " and "  " (one level of indentation) and   *)
(* the punctuation { } [ ] : ,.  Any other piece is a run of ordinary     *)
(* characters kept whole (a key, a file name without a quote or a         *)
(* backslash, 'OS=="linux"'), so a string is a sequence of pieces too.    *)
(*                                                                         *)
(* A Python value is a record [t, s, items, d]: a string ("str", s), a    *)
(* list ("list", items: a sequence of values), a dict ("dict", d: a       *)
(* function from key strings (piece sequences too) to values) or         *)
(* True/False/None ("atom", s).                                            *)
(***************************************************************************)
EXTENDS Sequences, SequencesExt, FiniteSets

NoFn == [x \in {} |-> 0]

Str(s) == [t |-> "str", s |-> s, items |-> <<>>, d |-> NoFn]
Lst(xs) == [t |-> "list", s |-> <<>>, items |-> xs, d |-> NoFn]
Dct(f) == [t |-> "dict", s |-> <<>>, items |-> <<>>, d |-> f]

Q == "'"
BS == "\\"
NL == "\n"
Blank == {" ", "  ", NL}
Indent(n) == [i \in 1..n |-> "  "]

\* The ORDER tuple of pretty_print.
ORDER == <<"variables", "condition", "command", "relative_cwd", "read_only",
           "isolate_dependency_tracked", "isolate_dependency_untracked">>

(***************************************************************************)
(* sorted(items, key=sorting_key): a key of ORDER sorts as its index, a   *)
(* digit, which comes before every lower-case key; the keys outside ORDER *)
(* keep an arbitrary fixed order among themselves (the value printed has  *)
(* at most one per dict).                                                  *)
(***************************************************************************)
SortingKey(k) ==
  IF \E i \in DOMAIN ORDER : <<ORDER[i]>> = k
    THEN CHOOSE i \in DOMAIN ORDER : <<ORDER[i]>> = k
    ELSE Len(ORDER) + 1
SortedKeys(f) == SetToSortSeq(DOMAIN f, LAMBDA a, b : SortingKey(a) < SortingKey(b))

\* item.replace('\\', '\\\\').replace('\'', '\\\'').
Escape(s) ==
  FlattenSeq([i \in DOMAIN s |-> IF s[i] \in {Q, BS} THEN <<BS, s[i]>>
                                  ELSE <<s[i]>>])

Quoted(s) == <<Q>> \o s \o <<Q>>

(***************************************************************************)
(* loop_dict and loop_list.  loop_list writes a string as it is; a list   *)
(* inside a list is written on one line, its strings escaped and followed *)
(* by ", ", its dicts followed by ", " unless last; loop_dict writes a    *)
(* True/False/None value with no comma after it.                           *)
(***************************************************************************)
RECURSIVE LoopDict(_, _), LoopList(_, _)

\* Mutant: a list value is closed without its comma.
LoopDictListNoComma(n, d) ==
  LET ks == SortedKeys(d)
      Entry(k) ==
        LET item == d[k] IN
        Indent(n) \o Quoted(k) \o <<":", " ">> \o
        CASE item.t = "dict" -> <<"{", NL>> \o LoopDict(n + 1, item.d) \o
                                  Indent(n) \o <<"}", ",", NL>>
          [] item.t = "list" -> <<"[", NL>> \o LoopList(n + 1, item.items) \o
                                  Indent(n) \o <<"]", NL>>
          [] item.t = "str"  -> Quoted(Escape(item.s)) \o <<",", NL>>
          [] item.t = "atom" -> item.s \o <<NL>> IN
  FlattenSeq([i \in DOMAIN ks |-> Entry(ks[i])])

LoopDict(n, d) ==
  LET ks == SortedKeys(d)
      Entry(k) ==
        LET item == d[k] IN
        Indent(n) \o Quoted(k) \o <<":", " ">> \o
        CASE item.t = "dict" -> <<"{", NL>> \o LoopDict(n + 1, item.d) \o
                                  Indent(n) \o <<"}", ",", NL>>
          [] item.t = "list" -> <<"[", NL>> \o LoopList(n + 1, item.items) \o
                                  Indent(n) \o <<"]", ",", NL>>
          [] item.t = "str"  -> Quoted(Escape(item.s)) \o <<",", NL>>
          [] item.t = "atom" -> item.s \o <<NL>> IN
  FlattenSeq([i \in DOMAIN ks |-> Entry(ks[i])])

LoopList(n, items) ==
  LET Inner(xs, j) ==
        IF xs[j].t = "str" THEN Quoted(Escape(xs[j].s)) \o <<",", " ">>
        ELSE <<"{", NL>> \o LoopDict(n + 1, xs[j].d) \o Indent(n) \o
             <<"}">> \o (IF j # Len(xs) THEN <<",", " ">> ELSE <<>>)
      Item(x) ==
        CASE x.t = "str"  -> Indent(n) \o Quoted(x.s) \o <<",", NL>>
          [] x.t = "dict" -> Indent(n) \o <<"{", NL>> \o LoopDict(n + 1, x.d) \o
                               Indent(n) \o <<"}", ",", NL>>
          [] x.t = "list" -> Indent(n) \o <<"[">> \o
                               FlattenSeq([j \in DOMAIN x.items |-> Inner(x.items, j)])
                               \o <<"]", ",", NL>> IN
  FlattenSeq([i \in DOMAIN items |-> Item(items[i])])

PrettyPrint(v) == <<"{", NL>> \o LoopDict(1, v.d) \o <<"}", NL>>

-----------------------------------------------------------------------------
(***************************************************************************)
(* The reference: Python 2 reading the text as a literal.  The lexer      *)
(* skips blanks, reads a '...' string up to the first quote no backslash *)
(* escapes (\\ and \' stand for themselves, a backslash before anything   *)
(* else is kept, a newline inside is an error); the parser accepts a      *)
(* trailing comma before a closing bracket.  Bad is a SyntaxError.        *)
(***************************************************************************)
Bad == [k |-> "bad", c |-> "", s |-> <<>>]
Sym(c) == [k |-> "sym", c |-> c, s |-> <<>>]
Lit(s) == [k |-> "str", c |-> "", s |-> s]

RECURSIVE ReadStr(_, _), LexLine(_)
ReadStr(cs, acc) ==
  IF cs = <<>> THEN [tok |-> Bad, rest |-> <<>>]
  ELSE IF Head(cs) = Q THEN [tok |-> Lit(acc), rest |-> Tail(cs)]
  ELSE IF Head(cs) = BS
    THEN IF Len(cs) = 1 THEN [tok |-> Bad, rest |-> <<>>]
         ELSE ReadStr(Tail(Tail(cs)),
                      acc \o (IF cs[2] \in {Q, BS} THEN <<cs[2]>>
                              ELSE <<BS, cs[2]>>))
  ELSE ReadStr(Tail(cs), Append(acc, Head(cs)))

\* The tokens of one line; a string still open at its end is an error.
LexLine(cs) ==
  IF cs = <<>> THEN <<>>
  ELSE IF Head(cs) \in Blank THEN LexLine(Tail(cs))
  ELSE IF Head(cs) = Q
    THEN LET r == ReadStr(Tail(cs), <<>>) IN
         IF r.tok = Bad THEN <<Bad>> ELSE <<r.tok>> \o LexLine(r.rest)
  ELSE <<Sym(Head(cs))>> \o LexLine(Tail(cs))

\* A short string never spans a newline, so the text is lexed line by line;
\* NthNL(k) is the position of the k-th newline.
Lex(cs) ==
  LET nls == {i \in DOMAIN cs : cs[i] = NL}
      n == Cardinality(nls)
      NthNL(k) == CHOOSE i \in nls : Cardinality({j \in nls : j < i}) = k - 1
      From(k) == IF k = 1 THEN 1 ELSE NthNL(k - 1) + 1
      To(k) == IF k = n + 1 THEN Len(cs) ELSE NthNL(k) - 1 IN
  FlattenSeq([k \in 1..(n + 1) |-> LexLine(SubSeq(cs, From(k), To(k)))])

Fail == [ok |-> FALSE, v |-> Str(<<>>), rest |-> <<>>]
Ok(v, rest) == [ok |-> TRUE, v |-> v, rest |-> rest]

IsSym(ts, c) == ts # <<>> /\ Head(ts) = Sym(c)

RECURSIVE ParseVal(_), ParseItems(_, _), ParseEntries(_, _)
ParseVal(ts) ==
  IF ts = <<>> THEN Fail
  ELSE IF Head(ts).k = "str" THEN Ok(Str(Head(ts).s), Tail(ts))
  ELSE IF IsSym(ts, "[") THEN ParseItems(Tail(ts), <<>>)
  ELSE IF IsSym(ts, "{") THEN ParseEntries(Tail(ts), NoFn)
  ELSE Fail

\* The elements of a list up to "]": value, then "," or "]".
ParseItems(ts, xs) ==
  IF IsSym(ts, "]") THEN Ok(Lst(xs), Tail(ts))
  ELSE LET r == ParseVal(ts) IN
       IF ~r.ok THEN Fail
       ELSE IF IsSym(r.rest, ",") THEN ParseItems(Tail(r.rest), Append(xs, r.v))
       ELSE IF IsSym(r.rest, "]") THEN Ok(Lst(Append(xs, r.v)), Tail(r.rest))
       ELSE Fail

\* The entries of a dict up to "}": 'key' : value, then "," or "}".
ParseEntries(ts, f) ==
  IF IsSym(ts, "}") THEN Ok(Dct(f), Tail(ts))
  ELSE IF ts = <<>> \/ Head(ts).k # "str" \/ ~IsSym(Tail(ts), ":") THEN Fail
  ELSE LET key == Head(ts).s
           r == ParseVal(Tail(Tail(ts))) IN
       IF ~r.ok THEN Fail
       ELSE LET g == (key :> r.v) @@ f IN
            IF IsSym(r.rest, ",") THEN ParseEntries(Tail(r.rest), g)
            ELSE IF IsSym(r.rest, "}") THEN Ok(Dct(g), Tail(r.rest))
            ELSE Fail

\* The value the text denotes, or Fail when it is not one literal.
ReadLiteral(cs) ==
  LET r == ParseVal(Lex(cs)) IN
  IF r.ok /\ r.rest = <<>> THEN r ELSE Fail

====
