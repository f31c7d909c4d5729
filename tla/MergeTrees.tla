------------------------------ MODULE MergeTrees ------------------------------
(***************************************************************************)
(* muniversal::merge of PortGroup muniversal 1.1: the trees that were      *)
(* installed for two architectures, or for two groups of them, are made    *)
(* one, file by file.                                                      *)
(*                                                                         *)
(* A tree maps paths to files; directories are merged by recursion and so  *)
(* leave no trace of their own.  A path is a sequence of names, the ones   *)
(* merge puts before the name of a file included.  A file has a kind, which*)
(* stands for what merge looks at (its type, its name, the options it is   *)
(* listed in), and its contents:                                           *)
(*   header, dont_diff, combine, text                                      *)
(*                                the lines, each of a kind, with what it  *)
(*                                says and the white space it has;         *)
(*   binary, archive              the architectures it has code for, each   *)
(*                                with that code;                          *)
(*   everything else              its core and the architecture that can be*)
(*                                seen in it besides, or "none".           *)
(***************************************************************************)
EXTENDS Integers, Sequences, SequencesExt, FiniteSets

\* A line that begins a conditional, on what is under the name of its kind.
IfLine(c) == <<"if", c, "">>
Else == <<"else", "", "">>
Endif == <<"endif", "", "">>
IncludeLine(path) == <<"include", path, "">>

\* A line without its white space, which diff -w and a compiler pass over.
Bare(line) == <<line[1], line[2]>>
BareLines(lines) == {Bare(lines[m]) : m \in 1 .. Len(lines)}

-----------------------------------------------------------------------------
(* The preprocessor of C, where the conditions that hold are in `true'. *)

On(w) == \A m \in 1 .. Len(w.stack) : w.stack[m].on

\* One line, where `stack' has the conditionals that are open.
ReadLine(w, line, true) ==
    CASE line[1] = "if" -> [w EXCEPT !.stack = Append(@, [on |-> line[2] \in true, else |-> FALSE])]
      [] line[1] = "else" ->
            IF w.stack = <<>> \/ Last(w.stack).else THEN [w EXCEPT !.bad = TRUE]
            ELSE [w EXCEPT !.stack = Append(Front(@), [on |-> ~Last(@).on, else |-> TRUE])]
      [] line[1] = "endif" ->
            IF w.stack = <<>> THEN [w EXCEPT !.bad = TRUE] ELSE [w EXCEPT !.stack = Front(@)]
      [] OTHER -> IF On(w) THEN [w EXCEPT !.out = Append(@, Bare(line))] ELSE w

Unread == [stack |-> <<>>, out |-> <<>>, bad |-> FALSE]
ReadFrom(w, lines, true) ==
    LET read[m \in 0 .. Len(lines)] == IF m = 0 THEN w ELSE ReadLine(read[m - 1], lines[m], true)
    IN  read[Len(lines)]

\* What it leaves of lines, or "bad" if an #else or #endif has no #if, or is missing.
Preprocess(lines, true) ==
    LET end == ReadFrom(Unread, lines, true)
    IN  IF end.bad \/ end.stack # <<>> THEN <<<<"bad", "">>>> ELSE end.out

\* No conditional begins in the lines and ends outside of them.
Whole(lines) ==
    LET end == ReadFrom(Unread, lines, {})
    IN  ~end.bad /\ end.stack = <<>>

-----------------------------------------------------------------------------
(* diff -dw with formats of groups: a longest common subsequence of lines, *)
(* where white space does not tell two lines apart.                        *)

SameLine(x, y) == Bare(x) = Bare(y)

\* The row of the table of common lengths for line x of the old file, and the
\* table, whose entry <i, j> is for what follows line i - 1 and line j - 1.
CommonRow(below, x, new) ==
    FoldRight(LAMBDA j, row : <<IF SameLine(x, new[j]) THEN below[j + 1] + 1
                                ELSE IF below[j] > row[1] THEN below[j] ELSE row[1]>> \o row,
              [j \in 1 .. Len(new) |-> j], <<0>>)

Common(old, new) ==
    FoldRight(LAMBDA x, rows : <<CommonRow(rows[1], x, new)>> \o rows,
              old, <<[j \in 1 .. Len(new) + 1 |-> 0]>>)

\* A group of lines that differ, in the format of a pair of architectures; with
\* the one of `combine' no condition is put around them.
DiffFormatCombine == [old |-> "any", new |-> "any"]
Group(old, new, format) ==
    IF format = DiffFormatCombine THEN old \o new
    ELSE IF old # <<>> /\ new # <<>> THEN <<IfLine(format.old)>> \o old \o <<Else>> \o new \o <<Endif>>
    ELSE IF old # <<>> THEN <<IfLine(format.old)>> \o old \o <<Endif>>
    ELSE IF new # <<>> THEN <<IfLine(format.new)>> \o new \o <<Endif>>
    ELSE <<>>

\* The group that was gathered is written.
Written(w, format) ==
    [w EXCEPT !.lines = @ \o Group(w.old, w.new, format), !.old = <<>>, !.new = <<>>,
              !.cut = @ \/ ~Whole(w.old) \/ ~Whole(w.new)]

\* The next line: i and j are those of the two files that it has come to.  Of
\* lines that are alike the old file's is written.
Compare(w, old, new, table, format) ==
    CASE w.i > Len(old) /\ w.j > Len(new) -> w
      [] w.i <= Len(old) /\ w.j <= Len(new) /\ SameLine(old[w.i], new[w.j]) ->
            [Written(w, format) EXCEPT !.i = @ + 1, !.j = @ + 1, !.lines = Append(@, old[w.i])]
      [] w.i <= Len(old) /\ (w.j > Len(new) \/ (~SameLine(old[w.i], new[w.j])
                                /\ table[w.i + 1][w.j] >= table[w.i][w.j + 1])) ->
            [w EXCEPT !.i = @ + 1, !.old = Append(@, old[w.i])]
      [] OTHER -> [w EXCEPT !.j = @ + 1, !.new = Append(@, new[w.j])]

Unwritten == [i |-> 1, j |-> 1, old |-> <<>>, new |-> <<>>, lines |-> <<>>, cut |-> FALSE]
Compared(old, new, format) ==
    LET table == Common(old, new)
        walk[m \in 0 .. Len(old) + Len(new)] ==
            IF m = 0 THEN Unwritten ELSE Compare(walk[m - 1], old, new, table, format)
    IN  Written(walk[Len(old) + Len(new)], format)

Diff(old, new, format) == Compared(old, new, format).lines

\* No conditional begins in one group and ends in another.
NothingCut(old, new, format) == ~Compared(old, new, format).cut

-----------------------------------------------------------------------------
(* One file. *)

\* What merging gives for a path: the files it puts, those put by a copy, which
\* must not be there yet, and whether it fails.
Puts(files) == [files |-> files, copies |-> DOMAIN files, failed |-> FALSE]
Writes(files) == [files |-> files, copies |-> {}, failed |-> FALSE]
Fails == [files |-> <<>>, copies |-> {}, failed |-> TRUE]
Single(path, file) == [p \in {path} |-> file]

\* lipo, which takes no two files with code for the same architecture, or else
\* libtool, which takes archives only.
MergeBinary(path, one, two) ==
    IF one.kind = "binary" /\ (\E c \in one.data, d \in two.data : c[1] = d[1]) THEN Fails
    ELSE Writes(Single(path, [one EXCEPT !.data = @ \cup two.data]))

\* The file includes the one or the other of two copies; the names differ, so
\* that diff -d finds what diff -dw would.
Divide(path, one, two, pair) ==
    LET p1 == <<pair.name1>> \o path
        p2 == <<pair.name2>> \o path
    IN  Writes([p \in {path, p1, p2} |->
                   IF p = p1 THEN one ELSE IF p = p2 THEN two
                   ELSE [one EXCEPT !.data = Diff(<<IncludeLine(p1)>>, <<IncludeLine(p2)>>, pair.format)]])

\* Modules of Fortran get a directory for 32 bits and one for 64.
DivideModules(path, one, two, pair) ==
    LET first32 == pair.name1 \in {"i386", "ppc"}
    IN  Puts([p \in {<<"mods32">> \o path, <<"mods64">> \o path} |->
                 IF (p[1] = "mods32") = first32 THEN one ELSE two])

\* strip_arch_flags, strip_dir_arch: the file without the marks, if that makes
\* the two the same.
Stripped(file, marks) == IF file.data[2] \in marks THEN [file EXCEPT !.data[2] = "none"] ELSE file
MergeStripped(path, one, two) ==
    IF one.data = two.data THEN Puts(Single(path, one)) ELSE Fails

AnyMark == {"ppc", "ppc64", "i386", "x86_64", "arm64"}

\* Mutant: of two files that are not alike the first is taken.
MergeFileFirst(path, one, two, pair, deleteLa) == Puts(Single(path, one))

\* The body of muniversal::merge for a path both trees have.
MergeFile(path, one, two, pair, deleteLa) ==
    IF one.kind # two.kind THEN Fails                       \* of different types
    ELSE IF one.kind = "link" THEN
        IF one.data = two.data THEN Puts(Single(path, one)) ELSE Fails
    ELSE IF one.data = two.data THEN Writes(Single(path, one))
    ELSE CASE one.kind \in {"binary", "archive"} -> MergeBinary(path, one, two)
           [] one.kind = "dont_diff" -> Divide(path, one, two, pair)
           [] one.kind = "combine" -> Writes(Single(path, [one EXCEPT !.data = Diff(one.data, two.data, DiffFormatCombine)]))
           [] one.kind \in {"equivalent", "assumed"} -> Puts(Single(path, one))
           [] one.kind = "mod" -> DivideModules(path, one, two, pair)
           [] one.kind = "flags" -> MergeStripped(path, Stripped(one, AnyMark), Stripped(two, AnyMark))
           [] one.kind = "gir" -> MergeStripped(path, Stripped(one, {pair.name1}), Stripped(two, {pair.name2}))
           [] one.kind = "la" -> IF deleteLa THEN Writes(<<>>) ELSE Fails
           [] one.kind = "packed" -> IF one.data[1] = two.data[1] THEN Puts(Single(path, one)) ELSE Fails
           [] one.kind = "xz" -> Fails                      \* no variable prefix
           [] one.kind \in {"header", "text"} ->
                 Writes(Single(path, [one EXCEPT !.data = Diff(one.data, two.data, pair.format)]))

-----------------------------------------------------------------------------
(* Two trees, into a directory that may not be empty. *)

At(path, t1, t2, pair, deleteLa) ==
    IF path \notin DOMAIN t1 THEN Puts(Single(path, t2[path]))
    ELSE IF path \notin DOMAIN t2 THEN Puts(Single(path, t1[path]))
    ELSE MergeFile(path, t1[path], t2[path], pair, deleteLa)

\* Several paths do not put the same file, and a copy finds none there before.
MergeTree(into, t1, t2, pair, deleteLa) ==
    LET paths == DOMAIN t1 \cup DOMAIN t2
        results == [p \in paths |-> At(p, t1, t2, pair, deleteLa)]
        put == UNION {DOMAIN results[p].files : p \in paths}
        By(q) == CHOOSE p \in paths : q \in DOMAIN results[p].files
    IN  [tree |-> [q \in put \cup DOMAIN into |-> IF q \in put THEN results[By(q)].files[q] ELSE into[q]],
         cut |-> \E p \in DOMAIN t1 \cap DOMAIN t2 :
                    t1[p].kind = "header" /\ t2[p].kind = "header" /\ ~NothingCut(t1[p].data, t2[p].data, pair.format),
         failed |-> \/ \E p \in paths : results[p].failed
                    \/ \E p \in paths : results[p].copies \cap DOMAIN into # {}
                    \/ \E p, q \in paths : p # q /\ DOMAIN results[p].files \cap DOMAIN results[q].files # {}]
=============================================================================
