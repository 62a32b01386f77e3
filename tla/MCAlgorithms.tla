---------------------------- MODULE MCAlgorithms ----------------------------
(***************************************************************************)
(* Small inputs for the pure algorithms.                                   *)
(***************************************************************************)
EXTENDS Algorithms

Upto(n, S) == UNION {[1..k -> S] : k \in 0..n}

\* Lines and texts to compare.
SmallVersions == Upto(4, Lines)
SmallTexts == Upto(4, Chars)

\* White space at the beginning or the end of a name, and a name of nothing else.
WithoutLeft == [p \in Parts |-> IF p = " page.html" THEN "page.html" ELSE IF p = " " THEN "" ELSE p]
WithoutRight == [p \in Parts |-> IF p = " " THEN "" ELSE p]

\* Sites to send: the entry lies in the root or one directory below it.
Paths == {<<"page.html">>, <<"a", "page.html">>, <<"a", "a", "page.html">>, <<"a", "notes.md">>,
          <<".git", "page.html">>, <<" page.html">>, <<" ", "page.html">>}
SmallTrees == {{[path |-> p, link |-> p \in links, size |-> 1] : p \in files} :
                  <<files, links>> \in {<<F, L>> \in (SUBSET Paths) \X (SUBSET Paths) :
                                           L \subseteq F /\ Cardinality(L) <= 1 /\ Cardinality(F) <= 4}}
SomeRoots == {<<>>, <<"a">>}
SomeDenials == {{}, {<<>>}, {<<"a">>}}

\* Requests of the limit, and of one byte more.
SomeBodies == {MaxBytes, MaxBytes + 1}

\* Archives as anybody may post them.
SomeEntries == {<<"page.html">>, <<"a", "page.html", " ">>}
SomePaths == {<<"page.html">>, <<" page.html">>, <<"a">>, <<"a", "page.html">>, <<"..", "page.html">>,
              <<"a", "..", "page.html">>, <<"a", "..", "..", "page.html">>, <<".">>, <<" ", "page.html">>}
SomeArchived == {[raw |-> r, kind |-> "file", size |-> n] : r \in SomePaths, n \in 1..2}
                  \cup {[raw |-> r, kind |-> "link", size |-> 0] : r \in SomePaths}
                  \cup {[raw |-> Append(r, ""), kind |-> "dir", size |-> 0] : r \in SomePaths}
SmallArchives == Upto(3, SomeArchived)

\* Command lines.
SomePieces == {<<Word("page")>>, <<Word("a")>>,
               <<Flag("tag"), Word("x")>>, <<Flag("db"), Word("page")>>,
               <<Flag("auth")>>, <<Flag("protect-previews")>>}
                \cup {<<Setting(s, v)>> : s \in {"auth", "allow-registration"}, v \in Values}
SmallCommandLines == Upto(3, SomePieces)
SomeEnvironments == [Switches -> {"", "1", "false"}]
=============================================================================
