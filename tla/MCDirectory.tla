----------------------------- MODULE MCDirectory ------------------------------
EXTENDS Directory

\* Two names, of which the second one is too long.
a == 3
aa == 4
MCNames == {Dot, DotDot, a, aa}
MCLongNames == {aa}

\* "", "a", "/", "/a", "/./a", "/a/", "/a/aa", "/a/a/a": refused;
\* "/a//a", "/../a/..": made.
MCPaths ==
  { <<>>, <<a>>, <<0>>, <<0, a>>, <<0, Dot, 0, a>>, <<0, a, 0>>, <<0, a, 0, aa>>,
    <<0, a, 0, a, 0, a>>, <<0, a, 0, 0, a>>, <<0, DotDot, 0, a, 0, DotDot>> }

\* A word that looks like the address of a data block.
MCData == {FirstData}

\* Zeros behind a short name, and what letters, or padding that nobody set, may look
\* like: a block that a file may have.
MCTails == {Empty, FirstData + 1}
=============================================================================
