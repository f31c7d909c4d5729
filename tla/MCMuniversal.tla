----------------------------- MODULE MCMuniversal -----------------------------
(* Ports, options and hosts for checking Muniversal. *)
EXTENDS Muniversal

Host(a, major, capable64) == [arch |-> a, major |-> major, capable64 |-> capable64]
Hosts == {Host("arm", 24, TRUE), Host("i386", 20, TRUE), Host("i386", 10, TRUE), Host("i386", 10, FALSE),
          Host("powerpc", 9, TRUE), Host("powerpc", 9, FALSE)}

Plain == [host |-> Host("arm", 24, TRUE), archs |-> {"arm64", "x86_64"}, runBinaries |-> FALSE,
          no3Archs |-> FALSE, set |-> {}, sets |-> {}, deleteLa |-> TRUE, files |-> <<>>,
          work |-> [links |-> 0, end |-> "directory"]]

\* Every set of architectures on every host, for a port without files.
ArchInputs ==
    {[Plain EXCEPT !.host = h, !.archs = s, !.runBinaries = r, !.no3Archs = n] :
        h \in Hosts, s \in SUBSET Architectures, r \in BOOLEAN, n \in BOOLEAN}

\* Every choice of three directories a Portfile sets before the phases, and two
\* it sets in them.
DirInputs ==
    {[Plain EXCEPT !.set = s, !.sets = t] :
        s \in SUBSET {"test.dir", "build.dir", "configure.dir"}, t \in SUBSET {"build.dir", "destroot.dir"}}

\* Every end of a chain of links, and the lengths at the bound.
WorkInputs == {[Plain EXCEPT !.work = [links |-> n, end |-> e]] :
                  n \in {0, 1, LinkDepth - 1, LinkDepth}, e \in {"directory", "file", "missing"}}

\* The files of a port: one kind, and contents that are alike or not.
TextLine(x) == <<"line", x, "">>
Indented(x) == <<"line", x, " ">>
Lines == {<<TextLine("a")>>, <<Indented("a")>>, <<TextLine("b"), TextLine("a")>>, <<IfLine("X"), TextLine("a"), Endif>>,
          <<IfLine("X"), TextLine("b"), Else, TextLine("a"), Endif>>}
Contents(kind, a) ==
    CASE kind \in {"header", "text", "dont_diff", "combine"} -> Lines
      [] kind \in {"binary", "archive"} -> {{<<a, "one">>}, {<<"x86_64", "any">>}, {<<a, "one">>, <<"ppc", "any">>}}
      [] kind = "equivalent" -> {<<"one", a>>}
      [] kind = "assumed" -> {<<"one", a>>, <<"two", "none">>}
      [] OTHER -> {<<"one", "none">>, <<"one", a>>, <<"two", "none">>}

ArchSets == {{"arm64", "x86_64"}, {"i386", "x86_64"}, {"ppc", "i386"}, {"ppc", "i386", "x86_64"}}

\* Every file for two and three architectures, also in some of them only.
FileInputs ==
    UNION {UNION {{[Plain EXCEPT !.archs = s, !.deleteLa = d,
                                 !.files = [a \in have |-> [kind |-> k, data |-> c[a]]]] :
                      d \in (IF k = "la" THEN BOOLEAN ELSE {TRUE}),
                      c \in {c \in [have -> UNION {Contents(k, a) : a \in have}] :
                                 \A a \in have : c[a] \in Contents(k, a)}} :
                      have \in SUBSET s} : k \in FileKinds, s \in ArchSets}
    \cup {[Plain EXCEPT !.archs = DOMAIN c, !.files = [a \in DOMAIN c |-> [kind |-> "mod", data |-> c[a]]]] :
              c \in [{"arm64", "ppc", "i386", "x86_64"} -> {<<"one", "none">>, <<"two", "none">>}]}

MCInputs == ArchInputs \cup DirInputs \cup WorkInputs \cup FileInputs
=============================================================================
